--------------------------- MODULE MCFileListing ---------------------------
(* Instances of the file list for TLC.                                     *)
EXTENDS FileListing

File(name, key) == [name |-> name, dir |-> FALSE, key |-> key]
Dir(name, key) == [name |-> name, dir |-> TRUE, key |-> key]

(* Two pages, with keys that tie, a folder of one item, and two pages.     *)
ThreeFolders ==
    [gcodes |-> <<File("a", 2), Dir("sub", 1), File("b", 2)>>,
     sub |-> <<File("c", 1)>>,
     filaments |-> <<Dir("p", 2), Dir("q", 1), Dir("r", 3)>>]

World(viewers, network, kinds, most, patient) ==
    [viewers |-> viewers, network |-> network, faults |-> kinds, clicks |-> most,
     patient |-> patient]

Browser == {"jobs"}
Choosers == {"names", "multi"}

AllWorlds ==
    {World(Browser, FALSE, {}, 3, TRUE), World(Browser, FALSE, {"link"}, 1, TRUE),
     World(Browser, FALSE, {"cut"}, 2, FALSE),
     World(Browser, TRUE, {"lost"}, 3, FALSE), World(Choosers, FALSE, {}, 3, TRUE),
     World(Choosers, FALSE, {"cut"}, 3, FALSE), World(Choosers, TRUE, {"lost"}, 3, FALSE)}
=============================================================================
