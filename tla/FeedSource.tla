---------------------------- MODULE FeedSource ------------------------------
(***************************************************************************)
(* The canonical Reels a browser process has observed: the class           *)
(* AuthenticatedFeedSource of collector/runtime/feed_json.py, as operators *)
(* on a record: `codes' is the queue of candidates with the observation    *)
(* that brought each, `known' the bounded memory, oldest first, and `obs'  *)
(* the number of GraphQL responses since the last navigation.              *)
(***************************************************************************)
EXTENDS Naturals, Sequences, SequencesExt

CONSTANTS
    MaxCodes,  \* _MAX_CODES
    MaxKnown,  \* _MAX_KNOWN_CODES
    None       \* no Reel

ASSUME SourceAssumption == MaxCodes \in Nat \ {0} /\ MaxKnown \in Nat \ {0}

EmptySource == [codes |-> <<>>, known |-> <<>>, obs |-> 0]

\* A deque that drops its oldest entry when it grows past its limit.
Bounded(seq, limit) == IF Len(seq) > limit THEN Tail(seq) ELSE seq

IsKnown(s, code) == Contains(s.known, code)

\* Mutant: a code that is known enters the memory once more.
RememberAgain(s, code) ==
    [s EXCEPT !.known = Bounded(Append(s.known, code), MaxKnown)]

\* A code that is known keeps its place in the memory.
Remember(s, code) ==
    IF IsKnown(s, code) THEN s
    ELSE [s EXCEPT !.known = Bounded(Append(s.known, code), MaxKnown)]

\* A new code enters the memory and the queue.
Offer(s, observation, code) ==
    IF IsKnown(s, code) THEN s
    ELSE [Remember(s, code) EXCEPT
            !.codes = Bounded(Append(s.codes, [obs |-> observation, code |-> code]), MaxCodes)]

\* The codes of a payload are offered in turn.
OfferAll(s, observation, payload) ==
    LET offered[i \in 0 .. Len(payload)] ==
            IF i = 0 THEN s ELSE Offer(offered[i - 1], observation, payload[i])
    IN  offered[Len(payload)]

\* A GraphQL response with these codes arrives.
Observe(s, payload) == OfferAll([s EXCEPT !.obs = s.obs + 1], s.obs + 1, payload)

\* The JSON scripts of the document are read; their codes get observation 0.
ObserveEmbedded(s, payload) ==
    OfferAll(s, 0, SubSeq(payload, 1, IF Len(payload) < MaxCodes THEN Len(payload) ELSE MaxCodes))

\* The queue without the entries of a code.
Without(codes, code) ==
    LET kept[i \in 0 .. Len(codes)] ==
            IF i = 0 THEN <<>>
            ELSE IF codes[i].code = code THEN kept[i - 1] ELSE Append(kept[i - 1], codes[i])
    IN  kept[Len(codes)]

\* Mutant: a Reel that is handed out is only taken off the queue.
MarkUsedForgetful(s, code) == [s EXCEPT !.codes = Without(s.codes, code)]

\* mark_used
MarkUsed(s, code) == [Remember(s, code) EXCEPT !.codes = Without(s.codes, code)]

\* reset_for_feed_navigation: the memory stays.
ResetForNavigation(s) == [s EXCEPT !.codes = <<>>, !.obs = 0]

\* Taking entry i, 0 for none, off the queue.
TakeEntry(s, i) ==
    IF i = 0 THEN [code |-> None, source |-> s]
    ELSE [code |-> s.codes[i].code, source |-> [s EXCEPT !.codes = RemoveAt(s.codes, i)]]

NextAfter(s, previous, observation) ==
    TakeEntry(s, SelectInSeq(s.codes, LAMBDA e : e.obs > observation /\ e.code # previous))

NextFromCurrentFeed(s, previous) ==
    TakeEntry(s, SelectInSeq(s.codes, LAMBDA e : e.code # previous))

NextEmbedded(s, previous) ==
    TakeEntry(s, SelectInSeq(s.codes, LAMBDA e : e.obs = 0 /\ e.code # previous))

ObservedAfter(s, observation) == s.obs > observation
=============================================================================
