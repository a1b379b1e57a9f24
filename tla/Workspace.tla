------------------------------ MODULE Workspace ------------------------------
(***************************************************************************)
(* What surrounds a workspace, its parts put side by side: the attachments  *)
(* of the composer, the connection, the clients, the desktop, the people,   *)
(* the tables kept for a message, and the listings of the REST API.         *)
(***************************************************************************)
EXTENDS AttachSend, Session, Clients, Desktop, People, Tables, Listings

\* Every variable of the workspace keeps its type, whatever the parts do.
WorkspaceTypeOK ==
    /\ AttachTypeOK
    /\ SessionTypeOK
    /\ ClientsTypeOK
    /\ NotifierTypeOK /\ FocusTypeOK
    /\ DirectoryTypeOK /\ MembershipTypeOK
    /\ ReadTypeOK /\ ReactionsTypeOK /\ StoreTypeOK
    /\ ListingsTypeOK
=============================================================================
