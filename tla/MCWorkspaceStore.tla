-------------------------- MODULE MCWorkspaceStore --------------------------
(* Instances of WorkspaceStore for TLC.                                     *)
EXTENDS WorkspaceStore

CONSTANTS a, b, k1, k2, e1, e2, e3, j1

\* Who edits: one user alone, or one edit of the first and the rest of the second.
Alone == [e \in Edits |-> a]
OneEach == [e \in Edits |-> IF e = e1 THEN a ELSE b]

\* What they edit: one document, or a document of their own.
OneDocument == [e \in Edits |-> k1]
OwnDocuments == [e \in Edits |-> IF e = e1 THEN k1 ELSE k2]
=============================================================================
