------------------------ MODULE MCDirectoryDataCache ------------------------
(* An instance of the cache of directory messages for TLC. *)
EXTENDS DirectoryDataCache, TLC

CONSTANTS th1, th2, r1, r2, dirA, dirB, dirC, dirD

\* Two input roots share dirA; dirC is below r2 twice; dirA and dirB fit in
\* one request, dirA and dirC do not, and dirD is fetched as a stream.
SubdirsRoots ==
    [x \in Digests |->
        (r1 :> {dirA, dirB} @@ r2 :> {dirA, dirC} @@ dirA :> {dirC} @@ dirB :> {dirD}
            @@ dirC :> {} @@ dirD :> {})[x]]
SizeSmall == [x \in Digests |-> IF x = dirD THEN 4 ELSE IF x = dirB THEN 1 ELSE 2]
=============================================================================
