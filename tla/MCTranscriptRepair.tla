------------------------- MODULE MCTranscriptRepair -------------------------
(* An interview in which "Yes." is also the beginning of another line. *)
EXTENDS TranscriptRepair

MCWords == {"yes", "yes and", ""}
MCOpenings == {<<"yes", "yes and">>}
=============================================================================
