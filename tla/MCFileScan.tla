------------------------------ MODULE MCFileScan ------------------------------
(* One file of every kind: windows that outnumber the workers and compete for
   one slot, attachments, and archives that are nested, malformed and too large. *)
EXTENDS FileScan

CONSTANT f1

MCFiles == {f1}
MCWorkers == {1, 2}

File(size, malware, kind, attachments, entries) ==
  [object |-> [size |-> size, malware |-> malware, touched |-> FALSE],
   form |-> [kind |-> kind, attachments |-> attachments, entries |-> entries]]
Two(a) == [from |-> a, to |-> a + 2]
Leaf(d, i) == [depth |-> d, kind |-> "leaf", infected |-> i]
Other(d, k) == [depth |-> d, kind |-> k, infected |-> FALSE]

MCLarge == {File(6, m, "media", << >>, << >>) : m \in {None} \cup {Two(a) : a \in 0 .. 4}}
MCData == {File(6, None, "data", << >>, << >>)}
MCMatroska == {File(n, None, "matroska", a, << >>) : n \in {1, 5}, a \in {<<FALSE, FALSE>>, <<FALSE, TRUE>>}}
MCEntries == {<<Leaf(1, FALSE), Leaf(1, TRUE)>>,
              <<Other(1, "dir"), Other(1, "archive"), Leaf(2, TRUE)>>,
              <<Other(1, "archive"), Leaf(2, FALSE), Leaf(1, FALSE)>>,
              <<Other(1, "archive"), Other(2, "archive"), Leaf(3, FALSE)>>,
              <<Leaf(1, FALSE), Other(1, "bad")>>,
              <<Leaf(1, FALSE), Leaf(1, FALSE), Leaf(1, FALSE), Leaf(1, FALSE)>>}
MCArchives == {File(n, None, "archive", << >>, e) : n \in {1, 5}, e \in MCEntries}

MCInputs == [f \in MCFiles |-> MCLarge \cup MCData \cup MCMatroska \cup MCArchives]
=============================================================================
