------------------------- MODULE MCDirectoryBuilder -------------------------
(* Instances of the directory cache for TLC. *)
EXTENDS DirectoryProperties, TLC

CONSTANTS b1, b2, t, ta, tb, u, f, g, h

\* t has two sub-directories, one of them empty, and shares a file with u.
AboveTU == [n \in Nodes |-> IF n \in {ta, tb} THEN {t} ELSE {}]
FilesTU == [n \in Nodes |-> (t :> {} @@ ta :> {f, g} @@ tb :> {} @@ u :> {f, h})[n]]
Size1 == [x \in Files |-> 1]
SizeTU == [x \in Files |-> IF x = h THEN 2 ELSE 1]

\* The second directory is in a large directory of its input root.
RequestsTU ==
    {[cached |-> {t}, skip |-> FALSE, large |-> <<>>],
     [cached |-> {}, skip |-> TRUE, large |-> <<{u}>>]}

RequestsFlat ==
    {[cached |-> S, skip |-> FALSE, large |-> <<>>] : S \in {{t}, {u}}}

Unlimited == [limit |-> 0, copy |-> FALSE]
SettingsAll == {Unlimited, [limit |-> 3, copy |-> FALSE], [limit |-> 3, copy |-> TRUE]}

\* A worker starts again without a limit, or with one that only t fits.
SettingsLater == {Unlimited, [limit |-> 2, copy |-> FALSE]}
SettingsLimited == {[limit |-> 2, copy |-> FALSE]}
=============================================================================
