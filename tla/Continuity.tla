------------------------------ MODULE Continuity ------------------------------
(***************************************************************************)
(* Whether a turn is a follow-up: codify/continuity.ts, over the embeddings*)
(* that codify/semantic.ts asks for, retries and caches. The rules on the  *)
(* words of a turn always have an answer; the comparison of its embedding  *)
(* with two sets of anchors goes first, when there is anything to compare. *)
(*                                                                         *)
(* Turns are classified side by side, share the cache, and wait for the    *)
(* same anchors, which are embedded once in the life of the process. A text*)
(* stands for the traits the word rules look for and for how close it comes*)
(* to each anchor.                                                         *)
(***************************************************************************)
EXTENDS Integers, Sequences, SequencesExt, FiniteSets, FiniteSetsExt

CONSTANTS Turns, Texts, NoText,
          Corrections, Requests,   \* the anchors
          Traits,                  \* of each text
          Near,                    \* how close each text comes to each anchor
          Margin,                  \* DECISIVE_MARGIN
          Attempts,                \* RETRY_ATTEMPTS
          CacheLimit,
          MaxFailures              \* bound: requests the endpoint fails

Anchors == Corrections \cup Requests

ASSUME TextsAssumption ==
  /\ NoText \notin Texts /\ Texts \cap Anchors = {} /\ Corrections \cap Requests = {}
  /\ Turns \cap Anchors = {}
  /\ Traits \in [Texts -> SUBSET {"empty", "target", "creation", "adjustment", "referential", "short"}]
  /\ Near \in [Texts -> [Anchors -> Nat]]
ASSUME LimitsAssumption ==
  Margin \in Nat \ {0} /\ Attempts \in Nat \ {0} /\ CacheLimit \in Nat \ {0} /\ MaxFailures \in Nat

VARIABLES configured,   \* an endpoint, a model and the switch
          cache,        \* the texts whose embedding is kept, the oldest first
          calls,        \* embedPrompt calls that wait for the endpoint
          anchors,      \* anchorCache, with what has become of each anchor
          turns,
          failures, refusals,   \* how often the endpoint failed; and how often for good
          sound                 \* history: turns that began when the endpoint had recovered

vars == <<configured, cache, calls, anchors, turns, failures, refusals, sound>>

Verdict(followUp, channel) == [followUp |-> followUp, channel |-> channel]
Idle == [phase |-> "idle", text |-> NoText]
NoAnchors == [phase |-> "none", got |-> [a \in Anchors |-> "pending"]]

TypeOK ==
  /\ configured \in BOOLEAN
  /\ Range(cache) \subseteq Texts \cup Anchors
  /\ Len(cache) <= CacheLimit /\ IsInjective(cache)
  /\ \A c \in calls : /\ c.for \in Turns \cup Anchors /\ c.text \in Texts \cup Anchors
                      /\ c.attempt \in 1 .. Attempts
  /\ anchors.phase \in {"none", "loading", "ready"}
  /\ anchors.got \in [Anchors -> {"pending", "yes", "no"}]
  /\ \A t \in Turns : turns[t].phase \in {"idle", "embedding", "anchoring", "done"}
  \* Who waits has something to wait for.
  /\ \A t \in Turns : turns[t].phase = "embedding" => \E c \in calls : c.for = t
  /\ (\E t \in Turns : turns[t].phase = "anchoring") => anchors.phase = "loading"
  /\ anchors.phase = "loading" => \E c \in calls : c.for \in Anchors
  /\ failures \in 0 .. MaxFailures /\ refusals \in 0 .. failures /\ sound \subseteq Turns

Init ==
  /\ configured \in BOOLEAN
  /\ cache = <<>> /\ calls = {} /\ anchors = NoAnchors
  /\ turns = [t \in Turns |-> Idle]
  /\ failures = 0 /\ refusals = 0 /\ sound = {}

-----------------------------------------------------------------------------
(* The two layers.                                                          *)

\* looksLikeFollowUp, its rules in their order.
Lexical(x) ==
  LET has(trait) == trait \in Traits[x]
  IN /\ ~has("empty") /\ ~has("target")
     /\ ~(has("creation") /\ ~has("adjustment"))
     /\ has("short") \/ has("referential") \/ has("adjustment")

Nearest(set, x) == Max({Near[x][a] : a \in set} \cup {0})

\* classifyFollowUp with every anchor at hand.
Compared(x, known) ==
  LET correction == Nearest(Corrections \cap known, x)
      request == Nearest(Requests \cap known, x)
      distance == IF correction > request THEN correction - request ELSE request - correction
  IN IF distance < Margin THEN Verdict(Lexical(x), "lexical")
     ELSE Verdict(correction > request, "semantic")

-----------------------------------------------------------------------------
(* The cache and the calls. The slips of the mutants stand before what they *)
(* replace.                                                                 *)

Without(s) == IF Len(s) >= CacheLimit THEN Tail(s) ELSE s
RememberAll(x) == IF x \in Range(cache) THEN cache ELSE Append(cache, x)
\* remember: the oldest goes when the cache is full, even for a key it already has.
Remember(x) ==
  IF x \in Range(Without(cache)) THEN Without(cache) ELSE Append(Without(cache), x)

Call(for, x) == [for |-> for, text |-> x, attempt |-> 1]

\* A set of anchors of which one did not embed is worse than none.
PartlyUsable(got) == \E a \in Anchors : got[a] = "yes"
Usable(got) == \A a \in Anchors : got[a] = "yes"
Known(got) == {a \in Anchors : got[a] = "yes"}

Decided(turn, v) == [phase |-> "done", text |-> turn.text, verdict |-> v]
ByWords(turn) == Decided(turn, Verdict(Lexical(turn.text), "lexical"))

\* What a failed load leaves behind: nothing, so that the next turn tries again.
KeptFailure(got) == [phase |-> "ready", got |-> got]
AfterFailure(got) == NoAnchors

\* The anchors have come to `got`: the load is over when none is pending, and everyone who
\* waits for it has an answer.
Loaded(got, all) ==
  IF \E a \in Anchors : got[a] = "pending"
  THEN /\ anchors' = [phase |-> "loading", got |-> got]
       /\ turns' = all
  ELSE /\ anchors' = IF Usable(got) THEN [phase |-> "ready", got |-> got] ELSE AfterFailure(got)
       /\ turns' = [t \in Turns |->
                      IF all[t].phase # "anchoring" THEN all[t]
                      ELSE IF Usable(got) THEN Decided(all[t], Compared(all[t].text, Known(got)))
                      ELSE ByWords(all[t])]

\* embedAnchors, single-flighted, for a turn whose embedding is there.
Anchor(t, turn, kept, open) ==
  LET waiting == [turns EXCEPT ![t] = [turn EXCEPT !.phase = "anchoring"]]
  IN CASE anchors.phase = "ready" ->
            /\ turns' = [turns EXCEPT ![t] = IF Usable(anchors.got)
                                             THEN Decided(turn, Compared(turn.text, Known(anchors.got)))
                                             ELSE ByWords(turn)]
            /\ calls' = open /\ UNCHANGED anchors
       [] anchors.phase = "loading" ->
            turns' = waiting /\ calls' = open /\ UNCHANGED anchors
       [] anchors.phase = "none" ->
            /\ calls' = open \cup {Call(a, a) : a \in Anchors \ Range(kept)}
            /\ Loaded([a \in Anchors |-> IF a \in Range(kept) THEN "yes" ELSE "pending"], waiting)

-----------------------------------------------------------------------------
Recovered == failures = MaxFailures /\ anchors.phase # "loading"

\* classifyFollowUp up to the embedding of the turn: named targets, empty texts and a
\* missing endpoint settle it, a cached text costs nothing.
Classify(t, x) ==
  LET turn == [phase |-> "embedding", text |-> x]
  IN
  /\ turns[t] = Idle
  /\ sound' = IF Recovered THEN sound \cup {t} ELSE sound
  /\ IF "target" \in Traits[x] \/ "empty" \in Traits[x] \/ ~configured
     THEN turns' = [turns EXCEPT ![t] = ByWords(turn)] /\ UNCHANGED <<calls, anchors>>
     ELSE IF x \in Range(cache) THEN Anchor(t, turn, cache, calls)
     ELSE /\ turns' = [turns EXCEPT ![t] = turn]
          /\ calls' = calls \cup {Call(t, x)}
          /\ UNCHANGED anchors
  /\ UNCHANGED <<configured, cache, failures, refusals>>

\* The endpoint answers with a vector.
Embed(c) ==
  /\ cache' = Remember(c.text)
  /\ IF c.for \in Turns THEN Anchor(c.for, turns[c.for], cache', calls \ {c})
     ELSE calls' = calls \ {c} /\ Loaded([anchors.got EXCEPT ![c.for] = "yes"], turns)
  /\ UNCHANGED <<configured, failures, refusals, sound>>

\* embedPrompt gives null.
GiveUp(c) ==
  /\ calls' = calls \ {c}
  /\ IF c.for \in Turns
     THEN turns' = [turns EXCEPT ![c.for] = ByWords(@)] /\ UNCHANGED anchors
     ELSE Loaded([anchors.got EXCEPT ![c.for] = "no"], turns)

LastAttempt(c) == c.attempt = Attempts

\* A rate limit, a fault of the server, an abort after four seconds: worth repeating.
FailTransiently(c) ==
  /\ failures < MaxFailures /\ failures' = failures + 1
  /\ IF LastAttempt(c) THEN GiveUp(c)
     ELSE calls' = (calls \ {c}) \cup {[c EXCEPT !.attempt = @ + 1]} /\ UNCHANGED <<turns, anchors>>
  /\ UNCHANGED <<configured, cache, refusals, sound>>

\* Any other answer that is not a vector.
Refuse(c) ==
  /\ failures < MaxFailures /\ failures' = failures + 1 /\ refusals' = refusals + 1
  /\ GiveUp(c)
  /\ UNCHANGED <<configured, cache, sound>>

Next ==
  \/ \E t \in Turns, x \in Texts : Classify(t, x)
  \/ \E c \in calls : Embed(c) \/ FailTransiently(c) \/ Refuse(c)

Spec == Init /\ [][Next]_vars

-----------------------------------------------------------------------------
\* What the turn comes to with an endpoint that always answers.
Full(x) ==
  IF "target" \in Traits[x] \/ "empty" \in Traits[x] \/ ~configured
  THEN Verdict(Lexical(x), "lexical") ELSE Compared(x, Anchors)

Done(t) == turns[t].phase = "done"

\* A verdict of the embeddings is the one that all the anchors give, never one of those
\* that happened to embed (continuity.ts embedAnchors); otherwise the words decide; and the
\* words decide for want of an embedding only after a refusal or Attempts failures in all:
\* one rate limit is retried and decides nothing (semantic.ts embedPrompt, requestEmbedding).
VerdictsAreEarned ==
  \A t \in Turns : Done(t) =>
    /\ turns[t].verdict \in {Full(turns[t].text), Verdict(Lexical(turns[t].text), "lexical")}
    /\ refusals = 0 /\ failures < Attempts => turns[t].verdict = Full(turns[t].text)

\* A turn that begins when the endpoint has recovered, and no load of the anchors is left
\* from before, is classified as if nothing had happened (embedAnchors forgets a failed load).
OutageIsForgotten ==
  \A t \in sound : Done(t) => turns[t].verdict = Full(turns[t].text)
=============================================================================
