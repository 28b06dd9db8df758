--------------------------- MODULE MCWorkspaceData ---------------------------
(* What the browser keeps of a workspace's data: the query cache, the deal *)
(* board, the forms, the lists and the search, which share nothing that    *)
(* the models keep, in one run: a behaviour is one of one part, chosen in  *)
(* the initial state.                                                      *)
EXTENDS QueryCache, DealBoard, Forms, ListPages, GlobalSearch, TLC

VARIABLE part

workspaceDataVars == <<part, cacheVars, boardVars, formsVars, listVars, searchVars>>

WorkspaceDataInit ==
    /\ part \in {"cache", "board", "forms", "lists", "search"}
    /\ CacheInit /\ BoardInit /\ FormsInit /\ ListsInit /\ GlobalSearchInit

WorkspaceDataNext ==
    /\ \/ part = "cache" /\ CacheNext
          /\ UNCHANGED <<boardVars, formsVars, listVars, searchVars>>
       \/ part = "board" /\ BoardNext
          /\ UNCHANGED <<cacheVars, formsVars, listVars, searchVars>>
       \/ part = "forms" /\ FormsNext
          /\ UNCHANGED <<cacheVars, boardVars, listVars, searchVars>>
       \/ part = "lists" /\ ListsNext
          /\ UNCHANGED <<cacheVars, boardVars, formsVars, searchVars>>
       \/ part = "search" /\ GlobalSearchNext
          /\ UNCHANGED <<cacheVars, boardVars, formsVars, listVars>>
    /\ UNCHANGED part

WorkspaceDataSpec == WorkspaceDataInit /\ [][WorkspaceDataNext]_workspaceDataVars

\* The requests of the parts that change data have the same names and no identity.
WorkspaceDataSymmetry == Permutations(Changes)

\* The cache, the lanes of the board, the fields of a form, the lists' pages and
\* the search's results hold values of the shape their components read, whatever
\* arrived late.
WorkspaceDataTypeOK ==
    CacheTypeOK /\ BoardTypeOK /\ FormsTypeOK /\ ListsTypeOK /\ GlobalSearchTypeOK
=============================================================================
