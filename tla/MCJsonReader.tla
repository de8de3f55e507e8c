---------------------------- MODULE MCJsonReader ----------------------------
(* Features::all(), strictMode(), and the flags neither of them sets. *)
EXTENDS JsonReader

MCFeatures == {{"allowComments"}, {"strictRoot"},
               {"allowComments", "allowDroppedNullPlaceholders", "allowNumericKeys"}}
=============================================================================
