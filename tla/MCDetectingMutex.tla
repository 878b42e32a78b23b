-------------------------- MODULE MCDetectingMutex --------------------------
(***************************************************************************)
(* Instances of the mutex wrapper for TLC.                                 *)
(***************************************************************************)
EXTENDS DetectingMutex

CONSTANTS
    lvgl,           \* the thread of main, allowed both locks (main.cpp:104)
    eventLoop,      \* Model::runEventLoop, allowed both (Model.cpp:329)
    decoder,        \* a receiving thread, allowed one
    ui, model       \* mutexUi and mutexModel

LvglAndEventLoop == {lvgl, eventLoop}
=============================================================================
