------------------------------ MODULE Pictures ------------------------------
(***************************************************************************)
(* The two places where users find their pictures again: the conversations *)
(* of the server (Conversations) and the history of the images page        *)
(* (ImageHistory).  They share no state; what both promise of a picture is *)
(* one promise.                                                            *)
(***************************************************************************)
EXTENDS Conversations, ImageHistory

\* A picture somebody still sees keeps its file, whatever deletes, saves and cleans up in
\* the meantime, in the conversations of the server and in the history of the images page.
PicturesStay == SavedPicturesStay /\ HistoryKeepsPictures

=============================================================================
