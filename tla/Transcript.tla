----------------------------- MODULE Transcript -----------------------------
(***************************************************************************)
(* The transcript of a walk and the two validators of                      *)
(* collector/runtime/verification.py.  A transcript is a sequence with the *)
(* events of position 1, 2, 3 ...; the 256 events that SafeEventTranscript *)
(* keeps are more than the limits of either stage allow.                   *)
(***************************************************************************)
EXTENDS Naturals, Sequences, SequencesExt

CONSTANT Target  \* STAGE_3B_TARGET, the 3 of the first validator

ASSUME TargetAssumption == Target \in Nat \ {0}

\* SafeEventTranscript._allowed
Events == {"detect", "pause", "download", "validation", "publish", "db_commit",
           "cooldown", "feed_source_advance", "advance", "advance_retry",
           "transition_confirmed", "duplicate_skipped"}

Seen == <<"detect", "pause">>
Acquired == <<"download", "validation", "publish", "db_commit">>
Moves == {<<"cooldown", "advance", "transition_confirmed">>,
          <<"cooldown", "advance", "advance_retry", "transition_confirmed">>}
Inputs == {"cooldown", "advance", "advance_retry"}

Confirmed(seq) == seq # <<>> /\ Last(seq) = "transition_confirmed"

\* What the validator of stage 3B accepts of one position.
ValidPosition(seq, position) ==
    LET transition == Seen \o Acquired \o <<"cooldown", "advance">>
    IN  /\ position = Target => ToSet(seq) \cap Inputs = {}
        /\ \/ IsPrefix(seq, transition)
           \/ \E suffix \in {<<"transition_confirmed">>, <<"advance_retry">>,
                             <<"advance_retry", "transition_confirmed">>} :
                 seq = transition \o suffix

\* validate_event_transcript
ValidTranscript(log, status) ==
    /\ \A p \in DOMAIN log : ValidPosition(log[p], p)
    /\ \A p \in 1 .. (Len(log) - 1) : Confirmed(log[p])
    /\ status \in {"completed", "failed", "cancelled"}
    /\ status = "completed" =>
          Len(log) = Target /\ log[Target] = Seen \o Acquired

\* What follows detect and pause in stage 3C1.
Acquisitions(seq) ==
    LET first == SubSeq(seq, 3, 3)
        start == IF first \in {<<"duplicate_skipped">>, <<"db_commit">>} THEN first ELSE Acquired
    IN  {start} \cup {start \o move : move \in Moves}

\* validate_stage3c1_transcript
ValidContinuation(log, status, final) ==
    /\ \A p \in DOMAIN log :
          /\ IsPrefix(Seen, log[p])
          /\ \E variant \in Acquisitions(log[p]) :
                IsPrefix(SubSeq(log[p], 3, Len(log[p])), variant)
          /\ p # Len(log) => Confirmed(log[p])
    /\ status \in {"completed", "failed", "cancelled"}
    /\ status = "completed" =>
          /\ Len(log) = final /\ log # <<>>
          /\ ToSet(log[final]) \cap Inputs = {}
=============================================================================
