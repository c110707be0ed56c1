-------------------------- MODULE ContinuityProofs --------------------------
(***************************************************************************)
(* What classification keeps for any number of turns, texts, anchors and   *)
(* attempts, and however often the endpoint fails.                         *)
(***************************************************************************)
EXTENDS Continuity, FiniteSetTheorems, SequenceTheorems, TLAPS

Keys == Texts \cup Anchors
Turn == [phase : {"idle"}, text : {NoText}]
          \cup [phase : {"embedding", "anchoring"}, text : Texts]
          \cup [phase : {"done"}, text : Texts,
                verdict : [followUp : BOOLEAN, channel : {"lexical", "semantic"}]]
Anchoring == [phase : {"none", "loading", "ready"}, got : [Anchors -> {"pending", "yes", "no"}]]

Types ==
  /\ configured \in BOOLEAN /\ turns \in [Turns -> Turn]
  /\ calls \subseteq [for : Turns \cup Anchors, text : Keys, attempt : 1 .. Attempts]
  /\ anchors \in Anchoring
  /\ failures \in 0 .. MaxFailures /\ refusals \in 0 .. failures /\ sound \subseteq Turns

CacheFits == cache \in Seq(Keys) /\ Len(cache) <= CacheLimit /\ IsInjective(cache)

\* Whoever waits for the endpoint has one call, for the text that is waited for, and only a
\* turn that nothing else settles waits.
Open(x) == configured /\ "target" \notin Traits[x] /\ "empty" \notin Traits[x]

CallsFit ==
  /\ \A c, d \in calls : c.for = d.for => c = d
  /\ \A c \in calls : /\ c.for \in Turns => turns[c.for].phase = "embedding" /\ c.text = turns[c.for].text
                      /\ c.for \in Anchors => anchors.phase = "loading" /\ anchors.got[c.for] = "pending"
                      /\ c.attempt <= failures + 1
  /\ \A t \in Turns : turns[t].phase = "embedding" => \E c \in calls : c.for = t
  /\ \A t \in Turns : turns[t].phase \in {"embedding", "anchoring"} => Open(turns[t].text)

\* The anchors are all there or none is, unless they are on their way; one that did not embed
\* failed for good or as often as it was asked for, and no turn that began later knows of it.
Excused == refusals > 0 \/ failures >= Attempts

AnchorsFit ==
  /\ anchors.phase = "none" => anchors = NoAnchors
  /\ anchors.phase = "ready" => Usable(anchors.got)
  /\ anchors.phase = "loading" =>
       /\ \E a \in Anchors : anchors.got[a] = "pending"
       /\ \A a \in Anchors : anchors.got[a] = "pending" => \E c \in calls : c.for = a
  /\ (\E a \in Anchors : anchors.got[a] = "no") => Excused /\ sound = {}
  /\ (\E t \in Turns : turns[t].phase = "anchoring") => anchors.phase = "loading"
  /\ sound # {} => failures = MaxFailures

VerdictsFit ==
  \A t \in Turns : Done(t) =>
    \/ turns[t].verdict = Full(turns[t].text)
    \/ /\ turns[t].verdict = Verdict(Lexical(turns[t].text), "lexical")
       /\ Excused /\ t \notin sound

-----------------------------------------------------------------------------
\* A text is remembered once, and never more texts than the cache holds.
LEMMA RememberFits ==
  ASSUME CacheFits, NEW x \in Keys
  PROVE  Remember(x) \in Seq(Keys) /\ Len(Remember(x)) <= CacheLimit /\ IsInjective(Remember(x))
<1>1. /\ cache \in Seq(Keys) /\ Len(cache) \in Nat /\ Len(cache) <= CacheLimit
      /\ DOMAIN cache = 1 .. Len(cache)
      /\ \A i, j \in 1 .. Len(cache) : cache[i] = cache[j] => i = j
  BY LenProperties DEF CacheFits, IsInjective
<1>2. PICK kept : kept = Without(cache)
  OBVIOUS
<1>3. CacheLimit \in Nat /\ CacheLimit > 0
  BY LimitsAssumption
<1>4. /\ kept \in Seq(Keys) /\ Len(kept) \in Nat /\ Len(kept) < CacheLimit
      /\ \A i, j \in 1 .. Len(kept) : kept[i] = kept[j] => i = j
  <2>1. CASE Len(cache) >= CacheLimit
    <3>1. cache # <<>>
      BY <1>1, <1>3, <2>1, EmptySeq
    <3>2. /\ Tail(cache) \in Seq(Keys) /\ Len(Tail(cache)) = Len(cache) - 1
          /\ \A i \in 1 .. Len(Tail(cache)) : Tail(cache)[i] = cache[i + 1]
      BY <1>1, <3>1, HeadTailProperties
    <3>3. kept = Tail(cache)
      BY <1>2, <2>1 DEF Without
    <3> QED
      BY <1>1, <1>3, <2>1, <3>2, <3>3
  <2>2. CASE ~(Len(cache) >= CacheLimit)
    BY <1>1, <1>2, <1>3, <2>2 DEF Without
  <2> QED
    BY <2>1, <2>2
<1>5. CASE x \in Range(kept)
  BY <1>2, <1>3, <1>4, <1>5, LenProperties DEF Remember, IsInjective
<1>6. CASE x \notin Range(kept)
  <2>1. /\ Append(kept, x) \in Seq(Keys) /\ Len(Append(kept, x)) = Len(kept) + 1
        /\ \A i \in 1 .. Len(kept) : Append(kept, x)[i] = kept[i]
        /\ Append(kept, x)[Len(kept) + 1] = x
    BY <1>4, AppendProperties
  <2>2. \A i \in 1 .. Len(kept) : kept[i] # x
    BY <1>4, <1>6, LenProperties DEF Range
  <2>3. DOMAIN Append(kept, x) = 1 .. Len(kept) + 1
    BY <1>4, <2>1, LenProperties
  <2>4. IsInjective(Append(kept, x))
    BY <1>4, <2>1, <2>2, <2>3 DEF IsInjective
  <2> QED
    BY <1>2, <1>3, <1>4, <1>6, <2>1, <2>4 DEF Remember
<1> QED
  BY <1>5, <1>6

-----------------------------------------------------------------------------
\* What becomes of a load: it goes on, or everyone who waits for it is decided, by the
\* anchors when all of them are there and by the words otherwise.
LEMMA LoadSteps ==
  ASSUME NEW got \in [Anchors -> {"pending", "yes", "no"}], NEW all, Loaded(got, all)
  PROVE  \/ /\ \E a \in Anchors : got[a] = "pending"
            /\ anchors' = [phase |-> "loading", got |-> got] /\ turns' = all
         \/ /\ Usable(got) /\ anchors' = [phase |-> "ready", got |-> got]
            /\ turns' = [t \in Turns |-> IF all[t].phase # "anchoring" THEN all[t]
                                         ELSE Decided(all[t], Compared(all[t].text, Anchors))]
         \/ /\ \E a \in Anchors : got[a] = "no"
            /\ \A a \in Anchors : got[a] # "pending"
            /\ anchors' = NoAnchors
            /\ turns' = [t \in Turns |-> IF all[t].phase # "anchoring" THEN all[t]
                                         ELSE ByWords(all[t])]
<1>1. Usable(got) => Known(got) = Anchors
  BY DEF Usable, Known
<1>2. (\A a \in Anchors : got[a] # "pending") => Usable(got) \/ \E a \in Anchors : got[a] = "no"
  BY DEF Usable
<1>3. Usable(got) => \A a \in Anchors : got[a] # "pending"
  BY DEF Usable
<1> QED
  BY <1>1, <1>2, <1>3 DEF Loaded, AfterFailure

\* The verdicts, and what is decided in one way or the other.
LEMMA DecidedFits ==
  ASSUME NEW turn, turn.text \in Texts, NEW v \in [followUp : BOOLEAN, channel : {"lexical", "semantic"}]
  PROVE  /\ Decided(turn, v) \in Turn /\ Decided(turn, v).phase = "done"
         /\ Decided(turn, v).text = turn.text /\ Decided(turn, v).verdict = v
BY DEF Decided, Turn

LEMMA VerdictsFitTypes ==
  ASSUME NEW x \in Texts
  PROVE  /\ Verdict(Lexical(x), "lexical") \in [followUp : BOOLEAN, channel : {"lexical", "semantic"}]
         /\ \A known : Compared(x, known) \in [followUp : BOOLEAN, channel : {"lexical", "semantic"}]
         /\ Full(x) = IF Open(x) THEN Compared(x, Anchors) ELSE Verdict(Lexical(x), "lexical")
<1>1. Lexical(x) \in BOOLEAN
  BY DEF Lexical
<1>2. \A known : Compared(x, known) \in [followUp : BOOLEAN, channel : {"lexical", "semantic"}]
  BY <1>1 DEF Compared, Verdict
<1> QED
  BY <1>1, <1>2 DEF Full, Open, Verdict

-----------------------------------------------------------------------------
Fits == Types /\ CallsFit /\ AnchorsFit /\ VerdictsFit

\* A turn whose embedding is there is decided by all of the anchors, or waits for them.
LEMMA AnchorSteps ==
  ASSUME Fits, NEW t \in Turns, NEW kept, NEW open,
         NEW turn \in [phase : {"embedding"}, text : Texts], Open(turn.text),
         turns[t].phase \in {"idle", "embedding"}, Anchor(t, turn, kept, open)
  PROVE  \/ /\ turns' = [turns EXCEPT ![t] = Decided(turn, Full(turn.text))]
            /\ anchors' = [phase |-> "ready", got |-> anchors'.got]
            /\ anchors' \in Anchoring /\ Usable(anchors'.got) /\ calls' = open
            /\ anchors.phase # "loading"
         \/ /\ turns' = [turns EXCEPT ![t] = [phase |-> "anchoring", text |-> turn.text]]
            /\ anchors' = anchors /\ anchors.phase = "loading" /\ calls' = open
         \/ /\ turns' = [turns EXCEPT ![t] = [phase |-> "anchoring", text |-> turn.text]]
            /\ anchors.phase = "none" /\ \E a \in Anchors : a \notin Range(kept)
            /\ anchors' = [phase |-> "loading",
                           got |-> [a \in Anchors |-> IF a \in Range(kept) THEN "yes" ELSE "pending"]]
            /\ calls' = open \cup {Call(a, a) : a \in Anchors \ Range(kept)}
<1> DEFINE waiting == [turns EXCEPT ![t] = [phase |-> "anchoring", text |-> turn.text]]
           got == [a \in Anchors |-> IF a \in Range(kept) THEN "yes" ELSE "pending"]
<1>1. Full(turn.text) = Compared(turn.text, Anchors)
  BY VerdictsFitTypes
<1>2. anchors \in Anchoring /\ turns \in [Turns -> Turn]
  BY DEF Fits, Types
<1>3. [turns EXCEPT ![t] = [turn EXCEPT !.phase = "anchoring"]] = waiting
  <2>1. turn = [phase |-> "embedding", text |-> turn.text]
    OBVIOUS
  <2>2. [turn EXCEPT !.phase = "anchoring"] = [phase |-> "anchoring", text |-> turn.text]
    BY <2>1
  <2> QED
    BY <2>2
<1>4. CASE anchors.phase = "ready"
  <2>1. Usable(anchors.got) /\ Known(anchors.got) = Anchors
    BY <1>4 DEF Fits, AnchorsFit, Usable, Known
  <2>2. /\ turns' = [turns EXCEPT ![t] = Decided(turn, Compared(turn.text, Known(anchors.got)))]
        /\ calls' = open /\ anchors' = anchors
    BY <1>4, <2>1 DEF Anchor
  <2>3. anchors = [phase |-> "ready", got |-> anchors.got]
    BY <1>2, <1>4 DEF Anchoring
  <2> QED
    BY <1>1, <1>2, <2>1, <2>2, <2>3
<1>5. CASE anchors.phase = "loading"
  BY <1>3, <1>5 DEF Anchor
<1>6. CASE anchors.phase = "none"
  <2>1. /\ calls' = open \cup {Call(a, a) : a \in Anchors \ Range(kept)}
        /\ Loaded(got, waiting)
    BY <1>3, <1>6 DEF Anchor
  <2>2. got \in [Anchors -> {"pending", "yes", "no"}] /\ \A a \in Anchors : got[a] # "no"
    OBVIOUS
  <2>3. \A s \in Turns : turns[s].phase # "anchoring"
    BY <1>6 DEF Fits, AnchorsFit
  <2>4. CASE \E a \in Anchors : got[a] = "pending"
    BY <1>6, <2>1, <2>4 DEF Loaded
  <2>5. CASE ~\E a \in Anchors : got[a] = "pending"
    <3>1. /\ Usable(got) /\ anchors' = [phase |-> "ready", got |-> got]
          /\ turns' = [s \in Turns |-> IF waiting[s].phase # "anchoring" THEN waiting[s]
                                       ELSE Decided(waiting[s], Compared(waiting[s].text, Anchors))]
      <4> HIDE DEF got, waiting
      <4> QED
        BY <2>1, <2>2, <2>5, LoadSteps
    <3>2. Decided([phase |-> "anchoring", text |-> turn.text], Compared(turn.text, Anchors))
            = Decided(turn, Full(turn.text))
      BY <1>1 DEF Decided
    <3>3. turns' = [turns EXCEPT ![t] = Decided(turn, Full(turn.text))]
      BY <1>2, <2>3, <3>1, <3>2
    <3>4. Anchors \ Range(kept) = {}
      BY <2>5
    <3>5. calls' = open
      BY <2>1, <3>4
    <3> QED
      BY <1>6, <2>2, <3>1, <3>3, <3>5 DEF Anchoring
  <2> QED
    BY <2>4, <2>5
<1> QED
  BY <1>2, <1>4, <1>5, <1>6 DEF Anchoring

\* Nobody else notices that a turn was decided or waits for the anchors.
LEMMA AnchorKeeps ==
  ASSUME Fits, NEW t \in Turns, NEW kept,
         NEW turn \in [phase : {"embedding"}, text : Texts], Open(turn.text),
         turns[t].phase \in {"idle", "embedding"},
         Anchor(t, turn, kept, {c \in calls : c.for # t}),
         UNCHANGED <<configured, failures, refusals>>,
         sound' = sound \/ (sound' = sound \cup {t} /\ Recovered)
  PROVE  Fits'
<1> DEFINE open == {c \in calls : c.for # t}
           started == [phase |-> "loading",
                       got |-> [a \in Anchors |-> IF a \in Range(kept) THEN "yes" ELSE "pending"]]
           opened == {Call(a, a) : a \in Anchors \ Range(kept)}
<1>1. PICK new \in Turn :
        /\ turns' = [turns EXCEPT ![t] = new] /\ new.text = turn.text
        /\ \/ /\ new.phase = "done" /\ new.verdict = Full(turn.text)
              /\ anchors' = [phase |-> "ready", got |-> anchors'.got] /\ anchors.phase # "loading"
              /\ anchors' \in Anchoring /\ Usable(anchors'.got) /\ calls' = open
           \/ /\ new.phase = "anchoring"
              /\ anchors' = anchors /\ anchors.phase = "loading" /\ calls' = open
           \/ /\ new.phase = "anchoring" /\ anchors.phase = "none"
              /\ \E a \in Anchors : a \notin Range(kept)
              /\ anchors' = started /\ calls' = open \cup opened
  <2>1. Full(turn.text) \in [followUp : BOOLEAN, channel : {"lexical", "semantic"}]
    BY VerdictsFitTypes
  <2>2. /\ Decided(turn, Full(turn.text)) \in Turn
        /\ Decided(turn, Full(turn.text)).phase = "done"
        /\ Decided(turn, Full(turn.text)).text = turn.text
        /\ Decided(turn, Full(turn.text)).verdict = Full(turn.text)
    BY <2>1, DecidedFits
  <2>3. [phase |-> "anchoring", text |-> turn.text] \in Turn
    BY DEF Turn
  <2> HIDE DEF open, started, opened
  <2> QED
    BY <2>2, <2>3, AnchorSteps DEF open, started, opened
<1>2. /\ turns \in [Turns -> Turn] /\ anchors \in Anchoring
      /\ calls \subseteq [for : Turns \cup Anchors, text : Keys, attempt : 1 .. Attempts]
      /\ configured \in BOOLEAN /\ failures \in 0 .. MaxFailures /\ refusals \in 0 .. failures
      /\ sound \subseteq Turns
  BY DEF Fits, Types
<1>3. /\ turns' \in [Turns -> Turn] /\ turns'[t] = new /\ new.phase \in {"done", "anchoring"}
      /\ \A s \in Turns \ {t} : turns'[s] = turns[s]
  BY <1>1, <1>2
<1>4. /\ opened \subseteq [for : Anchors, text : Keys, attempt : {1}]
      /\ \A c \in opened : c.text = c.for /\ c.for \notin Range(kept)
      /\ \A c, d \in opened : c.for = d.for => c = d
      /\ \A a \in Anchors : a \notin Range(kept) => \E c \in opened : c.for = a
  <2>1. \A c \in opened : \E a \in Anchors \ Range(kept) : c = [for |-> a, text |-> a, attempt |-> 1]
    BY DEF Call
  <2>2. \A a \in Anchors \ Range(kept) : [for |-> a, text |-> a, attempt |-> 1] \in opened
    BY DEF Call
  <2> HIDE DEF opened
  <2>3. \A c \in opened : c \in [for : Anchors, text : Keys, attempt : {1}]
    BY <2>1 DEF Keys
  <2>4. \A c \in opened : c.text = c.for /\ c.for \notin Range(kept)
    BY <2>1
  <2>5. \A c, d \in opened : c.for = d.for => c = d
    BY <2>1
  <2>6. \A a \in Anchors : a \notin Range(kept) => \E c \in opened : c.for = a
    <3>1. \A a : [for |-> a, text |-> a, attempt |-> 1].for = a
      OBVIOUS
    <3> QED
      BY <2>2, <3>1
  <2> QED
    BY <2>3, <2>4, <2>5, <2>6
<1>5. started \in Anchoring /\ started.phase = "loading"
      /\ \A a \in Anchors : started.got[a] = IF a \in Range(kept) THEN "yes" ELSE "pending"
  BY DEF Anchoring
<1> HIDE DEF started, opened
<1>6. t \notin Anchors
  BY TextsAssumption
<1>7. \A c \in calls : c.for \in Anchors => anchors.phase = "loading"
  BY DEF Fits, CallsFit
<1>8. \A c \in calls' : \/ c \in open
                        \/ c \in opened /\ anchors' = started /\ anchors.phase = "none"
  <2>1. \/ calls' = open
        \/ calls' = open \cup opened /\ anchors' = started /\ anchors.phase = "none"
    BY <1>1
  <2> HIDE DEF open
  <2> QED
    BY <2>1
<1>9. Types'
  <2>1. calls' \subseteq [for : Turns \cup Anchors, text : Keys, attempt : 1 .. Attempts]
    BY <1>2, <1>4, <1>8, LimitsAssumption
  <2>2. anchors' \in Anchoring
    BY <1>1, <1>2, <1>5
  <2> QED
    BY <1>2, <1>3, <2>1, <2>2 DEF Types
<1>10. CallsFit'
  <2>1. \A c, d \in calls' : c.for = d.for => c = d
    BY <1>2, <1>4, <1>7, <1>8 DEF Fits, CallsFit
  <2>2. \A c \in calls' : c.for \in Turns => turns'[c.for].phase = "embedding" /\ c.text = turns'[c.for].text
    BY <1>2, <1>3, <1>4, <1>8, TextsAssumption DEF Fits, CallsFit
  <2>3. \A c \in calls' : c.for \in Anchors => anchors'.phase = "loading" /\ anchors'.got[c.for] = "pending"
    BY <1>1, <1>4, <1>5, <1>7, <1>8 DEF Fits, CallsFit
  <2>4. \A c \in calls' : c.attempt <= failures' + 1
    BY <1>2, <1>4, <1>8 DEF Fits, CallsFit
  <2>5. \A s \in Turns : turns'[s].phase = "embedding" => \E c \in calls' : c.for = s
    BY <1>1, <1>3 DEF Fits, CallsFit
  <2>6. \A s \in Turns : turns'[s].phase \in {"embedding", "anchoring"} => Open(turns'[s].text)
    BY <1>1, <1>3 DEF Fits, CallsFit
  <2> QED
    BY <2>1, <2>2, <2>3, <2>4, <2>5, <2>6 DEF CallsFit, Open
<1>11. AnchorsFit'
  <2>1. anchors'.phase # "none"
    BY <1>1, <1>5
  <2>2. anchors'.phase = "ready" => Usable(anchors'.got)
    BY <1>1, <1>5
  <2>3. anchors'.phase = "loading" => \E a \in Anchors : anchors'.got[a] = "pending"
    BY <1>1, <1>5 DEF Fits, AnchorsFit
  <2>4. anchors'.phase = "loading" =>
          \A a \in Anchors : anchors'.got[a] = "pending" => \E c \in calls' : c.for = a
    BY <1>1, <1>4, <1>5, <1>6 DEF Fits, AnchorsFit
  <2>5. (\E a \in Anchors : anchors'.got[a] = "no") => anchors' = anchors /\ anchors.phase = "loading"
    BY <1>1, <1>5 DEF Usable
  <2>6. anchors.phase = "loading" => sound' = sound
    BY DEF Recovered
  <2>7. (\E a \in Anchors : anchors'.got[a] = "no") => Excused' /\ sound' = {}
    BY <2>5, <2>6 DEF Fits, AnchorsFit, Excused
  <2>8. (\E s \in Turns : turns'[s].phase = "anchoring") => anchors'.phase = "loading"
    BY <1>1, <1>3, <1>5 DEF Fits, AnchorsFit
  <2>9. sound' # {} => failures' = MaxFailures
    BY DEF Fits, AnchorsFit, Recovered
  <2> QED
    BY <2>1, <2>2, <2>3, <2>4, <2>7, <2>8, <2>9 DEF AnchorsFit, Usable
<1>12. VerdictsFit'
  <2>1. \A x : Full(x)' = Full(x)
    BY DEF Full
  <2> QED
    BY <1>1, <1>3, <2>1 DEF Fits, VerdictsFit, Done, Excused
<1> QED
  BY <1>9, <1>10, <1>11, <1>12 DEF Fits

\* One more anchor has come, or will not come: the load goes on, or all who wait are decided.
LEMMA LoadKeeps ==
  ASSUME Fits, NEW c \in calls, c.for \in Anchors, NEW v \in {"yes", "no"},
         Loaded([anchors.got EXCEPT ![c.for] = v], turns),
         calls' = calls \ {c}, UNCHANGED <<configured, sound>>,
         failures' \in failures .. MaxFailures, refusals' \in refusals .. failures',
         v = "no" => Excused' /\ sound = {}, sound # {} => failures' = MaxFailures
  PROVE  Fits'
<1>1. /\ turns \in [Turns -> Turn] /\ anchors \in Anchoring
      /\ calls \subseteq [for : Turns \cup Anchors, text : Keys, attempt : 1 .. Attempts]
      /\ configured \in BOOLEAN /\ failures \in 0 .. MaxFailures /\ refusals \in 0 .. failures
      /\ sound \subseteq Turns
  BY DEF Fits, Types
<1>2. PICK got \in [Anchors -> {"pending", "yes", "no"}] :
        got = [anchors.got EXCEPT ![c.for] = v]
  BY <1>1 DEF Anchoring
<1>3. got[c.for] = v /\ \A a \in Anchors : a # c.for => got[a] = anchors.got[a]
  BY <1>1, <1>2 DEF Anchoring
<1>4. Excused => Excused'
  BY <1>1, LimitsAssumption DEF Excused
<1>5. (\E a \in Anchors : got[a] = "no") => Excused' /\ sound = {}
  BY <1>3, <1>4 DEF Fits, AnchorsFit
<1>6. \A d \in calls' : d.for \in Anchors => got[d.for] = "pending"
  BY <1>3 DEF Fits, CallsFit
<1>7. (\A a \in Anchors : got[a] # "pending") => \A d \in calls' : d.for \in Turns
  BY <1>1, <1>6
<1>8. anchors.phase = "loading"
  BY DEF Fits, CallsFit
<1>9. c.for \notin Turns
  BY TextsAssumption
<1>10. PICK over \in {TRUE, FALSE} :
        /\ turns' \in [Turns -> Turn]
        /\ \A t \in Turns : IF over /\ turns[t].phase = "anchoring"
                            THEN /\ turns'[t].phase = "done" /\ turns'[t].text = turns[t].text
                                 /\ \/ turns'[t].verdict = Full(turns[t].text)
                                    \/ /\ turns'[t].verdict = Verdict(Lexical(turns[t].text), "lexical")
                                       /\ Excused' /\ sound = {}
                            ELSE turns'[t] = turns[t]
        /\ anchors' \in Anchoring
        /\ IF over THEN /\ \/ anchors'.phase = "ready" /\ Usable(anchors'.got)
                          \/ anchors' = NoAnchors
                       /\ \A a \in Anchors : got[a] # "pending"
           ELSE /\ anchors' = [phase |-> "loading", got |-> got]
                /\ \E a \in Anchors : got[a] = "pending"
  <2>1. CASE \E a \in Anchors : got[a] = "pending"
    <3>1. anchors' = [phase |-> "loading", got |-> got] /\ turns' = turns
      BY <1>2, <2>1 DEF Loaded
    <3> QED
      BY <1>1, <2>1, <3>1 DEF Anchoring
  <2>2. CASE /\ Usable(got) /\ anchors' = [phase |-> "ready", got |-> got]
             /\ turns' = [t \in Turns |-> IF turns[t].phase # "anchoring" THEN turns[t]
                                          ELSE Decided(turns[t], Compared(turns[t].text, Anchors))]
    <3>1. anchors' \in Anchoring /\ anchors'.phase = "ready" /\ Usable(anchors'.got)
      BY <2>2 DEF Anchoring
    <3>2. \A a \in Anchors : got[a] # "pending"
      BY <2>2 DEF Usable
    <3>3. ASSUME NEW t \in Turns, turns[t].phase = "anchoring"
          PROVE  /\ turns[t].text \in Texts
                 /\ Compared(turns[t].text, Anchors) \in [followUp : BOOLEAN, channel : {"lexical", "semantic"}]
                 /\ Compared(turns[t].text, Anchors) = Full(turns[t].text)
      <4>1. turns[t].text \in Texts /\ Open(turns[t].text)
        BY <1>1, <3>3 DEF Turn, Fits, CallsFit
      <4> QED
        BY <4>1, VerdictsFitTypes
    <3>4. ASSUME NEW t \in Turns, turns[t].phase = "anchoring"
          PROVE  /\ turns'[t] \in Turn /\ turns'[t].phase = "done" /\ turns'[t].text = turns[t].text
                 /\ turns'[t].verdict = Full(turns[t].text)
      <4>1. turns'[t] = Decided(turns[t], Compared(turns[t].text, Anchors))
        BY <2>2, <3>4
      <4> QED
        BY <3>3, <3>4, <4>1, DecidedFits
    <3>5. ASSUME NEW t \in Turns, turns[t].phase # "anchoring"
          PROVE  turns'[t] = turns[t]
      BY <2>2, <3>5
    <3>6. turns' \in [Turns -> Turn]
      BY <1>1, <2>2, <3>4, <3>5
    <3> QED
      BY <3>1, <3>2, <3>4, <3>5, <3>6
  <2>3. CASE /\ \E a \in Anchors : got[a] = "no"
             /\ \A a \in Anchors : got[a] # "pending"
             /\ anchors' = NoAnchors
             /\ turns' = [t \in Turns |-> IF turns[t].phase # "anchoring" THEN turns[t]
                                          ELSE ByWords(turns[t])]
    <3>1. anchors' \in Anchoring
      BY <2>3 DEF Anchoring, NoAnchors
    <3>2. ASSUME NEW t \in Turns, turns[t].phase = "anchoring"
          PROVE  /\ turns'[t] \in Turn /\ turns'[t].phase = "done" /\ turns'[t].text = turns[t].text
                 /\ turns'[t].verdict = Verdict(Lexical(turns[t].text), "lexical")
      <4>1. turns[t].text \in Texts
        BY <1>1, <3>2 DEF Turn
      <4>2. turns'[t] = Decided(turns[t], Verdict(Lexical(turns[t].text), "lexical"))
        BY <2>3, <3>2 DEF ByWords
      <4> QED
        BY <4>1, <4>2, DecidedFits, VerdictsFitTypes
    <3>3. ASSUME NEW t \in Turns, turns[t].phase # "anchoring"
          PROVE  turns'[t] = turns[t]
      BY <2>3, <3>3
    <3>4. turns' \in [Turns -> Turn]
      BY <1>1, <2>3, <3>2, <3>3
    <3> QED
      BY <1>5, <2>3, <3>1, <3>2, <3>3, <3>4
  <2> QED
    BY <1>2, <2>1, <2>2, <2>3, LoadSteps
<1>11. Types'
  BY <1>1, <1>10 DEF Types
<1>12. CallsFit'
  <2>1. \A d \in calls' : d.for \in Anchors => anchors'.phase = "loading" /\ anchors'.got[d.for] = "pending"
    BY <1>6, <1>7, <1>10, TextsAssumption
  <2>2. \A d \in calls' : d.for \in Turns => turns'[d.for].phase = "embedding" /\ d.text = turns'[d.for].text
    BY <1>10 DEF Fits, CallsFit
  <2>3. \A d \in calls' : d.attempt <= failures' + 1
    BY <1>1 DEF Fits, CallsFit
  <2>4. \A t \in Turns : turns'[t].phase = "embedding" => \E d \in calls' : d.for = t
    BY <1>9, <1>10 DEF Fits, CallsFit
  <2>5. \A t \in Turns : turns'[t].phase \in {"embedding", "anchoring"} => Open(turns'[t].text)
    BY <1>10 DEF Fits, CallsFit
  <2> QED
    BY <2>1, <2>2, <2>3, <2>4, <2>5 DEF Fits, CallsFit, Open
<1>13. AnchorsFit'
  <2>1. anchors'.phase = "none" => anchors' = NoAnchors
    BY <1>10
  <2>2. anchors'.phase = "ready" => Usable(anchors'.got)
    BY <1>10 DEF NoAnchors
  <2>3. anchors'.phase = "loading" => \E a \in Anchors : anchors'.got[a] = "pending"
    BY <1>10 DEF NoAnchors
  <2>4. anchors'.phase = "loading" =>
          \A a \in Anchors : anchors'.got[a] = "pending" => \E d \in calls' : d.for = a
    <3>1. \A a \in Anchors : got[a] = "pending" => a # c.for /\ anchors.got[a] = "pending"
      BY <1>3
    <3>2. \A a \in Anchors : got[a] = "pending" => \E d \in calls' : d.for = a
      BY <1>8, <3>1 DEF Fits, AnchorsFit
    <3> QED
      BY <1>10, <3>2 DEF NoAnchors
  <2>5. (\E a \in Anchors : anchors'.got[a] = "no") => Excused' /\ sound' = {}
    BY <1>5, <1>10 DEF NoAnchors, Usable
  <2>6. (\E t \in Turns : turns'[t].phase = "anchoring") => anchors'.phase = "loading"
    BY <1>10
  <2> QED
    BY <2>1, <2>2, <2>3, <2>4, <2>5, <2>6 DEF AnchorsFit, Usable, NoAnchors
<1>14. VerdictsFit'
  <2>1. \A x : Full(x)' = Full(x)
    BY DEF Full
  <2>2. ASSUME NEW t \in Turns, turns'[t].phase = "done", turns'[t] = turns[t]
        PROVE  \/ turns'[t].verdict = Full(turns'[t].text)
               \/ /\ turns'[t].verdict = Verdict(Lexical(turns'[t].text), "lexical")
                  /\ Excused' /\ t \notin sound
    BY <1>4, <2>2 DEF Fits, VerdictsFit, Done
  <2>3. ASSUME NEW t \in Turns, turns'[t].phase = "done"
        PROVE  \/ turns'[t].verdict = Full(turns'[t].text)
               \/ /\ turns'[t].verdict = Verdict(Lexical(turns'[t].text), "lexical")
                  /\ Excused' /\ t \notin sound
    BY <1>10, <2>2, <2>3
  <2> QED
    BY <2>1, <2>3 DEF VerdictsFit, Done
<1> QED
  BY <1>11, <1>12, <1>13, <1>14 DEF Fits

\* A turn whose embedding is given up is decided by its words.
LEMMA GivenUpKeeps ==
  ASSUME Fits, NEW c \in calls, c.for \in Turns,
         turns' = [turns EXCEPT ![c.for] = ByWords(@)], calls' = calls \ {c},
         UNCHANGED <<configured, sound, anchors>>,
         failures' \in failures .. MaxFailures, refusals' \in refusals .. failures',
         Excused' /\ sound = {}
  PROVE  Fits'
<1>1. /\ turns \in [Turns -> Turn] /\ anchors \in Anchoring
      /\ calls \subseteq [for : Turns \cup Anchors, text : Keys, attempt : 1 .. Attempts]
      /\ configured \in BOOLEAN /\ failures \in 0 .. MaxFailures /\ refusals \in 0 .. failures
      /\ sound \subseteq Turns
  BY DEF Fits, Types
<1>2. PICK t \in Turns : t = c.for
  OBVIOUS
<1>3. turns[t].phase = "embedding" /\ turns[t].text \in Texts
  BY <1>1, <1>2 DEF Fits, CallsFit, Turn
<1>4. PICK new \in Turn :
        /\ turns' = [turns EXCEPT ![t] = new]
        /\ new.phase = "done" /\ new.verdict = Verdict(Lexical(new.text), "lexical")
  <2>1. turns' = [turns EXCEPT ![t] = Decided(turns[t], Verdict(Lexical(turns[t].text), "lexical"))]
    BY <1>2 DEF ByWords
  <2>2. Verdict(Lexical(turns[t].text), "lexical") \in [followUp : BOOLEAN, channel : {"lexical", "semantic"}]
    BY <1>3, VerdictsFitTypes
  <2>3. PICK new \in Turn :
          /\ new = Decided(turns[t], Verdict(Lexical(turns[t].text), "lexical"))
          /\ new.phase = "done" /\ new.text = turns[t].text
          /\ new.verdict = Verdict(Lexical(turns[t].text), "lexical")
    BY <1>3, <2>2, DecidedFits
  <2> QED
    BY <2>1, <2>3
<1>5. /\ turns' \in [Turns -> Turn] /\ turns'[t] = new
      /\ \A s \in Turns \ {t} : turns'[s] = turns[s]
  BY <1>1, <1>4
<1>6. t \notin Anchors
  BY TextsAssumption
<1>7. Types'
  BY <1>1, <1>5 DEF Types
<1>8. CallsFit'
  <2>1. \A d \in calls' : d.for # t
    BY <1>2 DEF Fits, CallsFit
  <2>2. \A d \in calls' : d.attempt <= failures' + 1
    BY <1>1 DEF Fits, CallsFit
  <2>3. \A s \in Turns : turns'[s].phase = "embedding" => \E d \in calls' : d.for = s
    BY <1>2, <1>4, <1>5 DEF Fits, CallsFit
  <2> QED
    BY <1>4, <1>5, <2>1, <2>2, <2>3 DEF Fits, CallsFit, Open
<1>9. AnchorsFit'
  <2>1. \A a \in Anchors : (\E d \in calls : d.for = a) => \E d \in calls' : d.for = a
    BY <1>2, <1>6
  <2>2. \A s \in Turns : turns'[s].phase = "anchoring" => turns[s].phase = "anchoring"
    BY <1>4, <1>5
  <2> QED
    BY <2>1, <2>2 DEF Fits, AnchorsFit
<1>10. VerdictsFit'
  <2>1. \A x : Full(x)' = Full(x)
    BY DEF Full
  <2> QED
    BY <1>4, <1>5, <2>1 DEF Fits, VerdictsFit, Done
<1> QED
  BY <1>7, <1>8, <1>9, <1>10 DEF Fits

-----------------------------------------------------------------------------
\* One step per action.
LEMMA ClassifyKeeps ==
  ASSUME Fits, NEW t \in Turns, NEW x \in Texts, Classify(t, x)
  PROVE  Fits'
<1> DEFINE turn == [phase |-> "embedding", text |-> x]
<1>1. /\ turns[t] = Idle /\ UNCHANGED <<configured, cache, failures, refusals>>
      /\ sound' = sound \/ (sound' = sound \cup {t} /\ Recovered)
  BY DEF Classify
<1>2. turns[t].phase = "idle" /\ turn \in [phase : {"embedding"}, text : Texts] /\ turn.text = x
  BY <1>1 DEF Idle
<1>3. /\ turns \in [Turns -> Turn] /\ anchors \in Anchoring
      /\ calls \subseteq [for : Turns \cup Anchors, text : Keys, attempt : 1 .. Attempts]
      /\ configured \in BOOLEAN /\ failures \in 0 .. MaxFailures /\ refusals \in 0 .. failures
      /\ sound \subseteq Turns /\ sound' \subseteq Turns
  BY <1>1 DEF Fits, Types
<1>4. \A c \in calls : c.for # t
  BY <1>2 DEF Fits, CallsFit
<1>5. \A y : Full(y)' = Full(y)
  BY <1>1 DEF Full
<1>6. /\ anchors' = anchors =>
           ((\E a \in Anchors : anchors.got[a] = "no") => Excused' /\ sound' = {})
      /\ sound' # {} => failures' = MaxFailures
  <2>1. Recovered => ~\E a \in Anchors : anchors.got[a] = "no"
    BY <1>3 DEF Recovered, Fits, AnchorsFit, Usable, NoAnchors, Anchoring
  <2> QED
    BY <1>1, <2>1 DEF Fits, AnchorsFit, Excused, Recovered
<1>7. CASE ~Open(x)
  <2>1. turns' = [turns EXCEPT ![t] = ByWords(turn)] /\ UNCHANGED <<calls, anchors>>
    BY <1>7 DEF Classify, Open
  <2>2. Full(x) = Verdict(Lexical(x), "lexical")
    BY <1>7, VerdictsFitTypes
  <2>3. PICK new \in Turn : /\ turns' = [turns EXCEPT ![t] = new] /\ new.text = x
                            /\ new.phase = "done" /\ new.verdict = Full(x)
    <3>1. turns' = [turns EXCEPT ![t] = Decided(turn, Verdict(Lexical(x), "lexical"))]
      BY <2>1 DEF ByWords
    <3>2. Verdict(Lexical(x), "lexical") \in [followUp : BOOLEAN, channel : {"lexical", "semantic"}]
      BY VerdictsFitTypes
    <3>3. PICK new \in Turn :
            /\ new = Decided(turn, Verdict(Lexical(x), "lexical")) /\ new.text = x
            /\ new.phase = "done" /\ new.verdict = Verdict(Lexical(x), "lexical")
      BY <1>2, <3>2, DecidedFits
    <3> QED
      BY <2>2, <3>1, <3>3
  <2>4. /\ turns' \in [Turns -> Turn] /\ turns'[t] = new
        /\ \A s \in Turns \ {t} : turns'[s] = turns[s]
    BY <1>3, <2>3
  <2>5. Types'
    BY <1>1, <1>3, <2>1, <2>4 DEF Types
  <2>6. CallsFit'
    BY <1>1, <1>4, <2>1, <2>3, <2>4 DEF Fits, CallsFit, Open
  <2>7. AnchorsFit'
    BY <1>1, <1>6, <2>1, <2>3, <2>4 DEF Fits, AnchorsFit
  <2>8. VerdictsFit'
    BY <1>1, <1>5, <2>3, <2>4 DEF Fits, VerdictsFit, Done, Excused
  <2> QED
    BY <2>5, <2>6, <2>7, <2>8 DEF Fits
<1>8. CASE Open(x) /\ x \in Range(cache)
  <2>1. Anchor(t, turn, cache, calls)
    BY <1>8 DEF Classify, Open
  <2>2. calls = {c \in calls : c.for # t}
    BY <1>4
  <2> HIDE DEF turn
  <2>3. Anchor(t, turn, cache, {c \in calls : c.for # t})
    BY <2>1, <2>2
  <2> QED
    BY <1>1, <1>2, <1>8, <2>3, AnchorKeeps
<1>9. CASE Open(x) /\ x \notin Range(cache)
  <2>1. /\ turns' = [turns EXCEPT ![t] = turn] /\ calls' = calls \cup {Call(t, x)}
        /\ anchors' = anchors
    BY <1>9 DEF Classify, Open
  <2>2. turn \in Turn
    BY DEF Turn
  <2>3. /\ turns' \in [Turns -> Turn] /\ turns'[t] = turn
        /\ \A s \in Turns \ {t} : turns'[s] = turns[s]
    BY <1>3, <2>1, <2>2
  <2>4. PICK c \in [for : Turns \cup Anchors, text : Keys, attempt : 1 .. Attempts] :
          /\ calls' = calls \cup {c} /\ c.for = t /\ c.text = x /\ c.attempt = 1
    <3>1. /\ Call(t, x) \in [for : Turns \cup Anchors, text : Keys, attempt : 1 .. Attempts]
          /\ Call(t, x).for = t /\ Call(t, x).text = x /\ Call(t, x).attempt = 1
      BY LimitsAssumption DEF Call, Keys
    <3> QED
      BY <2>1, <3>1
  <2>5. t \notin Anchors
    BY TextsAssumption
  <2>6. Types'
    BY <1>1, <1>3, <2>1, <2>3, <2>4 DEF Types
  <2>7. CallsFit'
    BY <1>1, <1>3, <1>4, <1>9, <2>1, <2>3, <2>4, <2>5 DEF Fits, CallsFit, Open
  <2>8. AnchorsFit'
    BY <1>1, <1>6, <2>1, <2>3, <2>4 DEF Fits, AnchorsFit
  <2>9. VerdictsFit'
    BY <1>1, <1>5, <2>3 DEF Fits, VerdictsFit, Done, Excused
  <2> QED
    BY <2>6, <2>7, <2>8, <2>9 DEF Fits
<1> QED
  BY <1>7, <1>8, <1>9

LEMMA EmbedKeeps ==
  ASSUME Fits, NEW c \in calls, Embed(c)
  PROVE  Fits'
<1>1. UNCHANGED <<configured, failures, refusals, sound>>
  BY DEF Embed
<1>2. /\ turns \in [Turns -> Turn] /\ c \in [for : Turns \cup Anchors, text : Keys, attempt : 1 .. Attempts]
      /\ failures \in 0 .. MaxFailures /\ refusals \in 0 .. failures
  BY DEF Fits, Types
<1>3. CASE c.for \in Turns
  <2>1. Anchor(c.for, turns[c.for], cache', calls \ {c})
    BY <1>3 DEF Embed
  <2>2. calls \ {c} = {d \in calls : d.for # c.for}
    BY DEF Fits, CallsFit
  <2>3. Anchor(c.for, turns[c.for], cache', {d \in calls : d.for # c.for})
    BY <2>1, <2>2
  <2>4. turns[c.for].phase = "embedding"
    BY <1>3 DEF Fits, CallsFit
  <2>5. turns[c.for] \in [phase : {"embedding"}, text : Texts] /\ Open(turns[c.for].text)
    BY <1>2, <1>3, <2>4 DEF Turn, Fits, CallsFit
  <2> QED
    BY <1>1, <1>3, <2>3, <2>4, <2>5, AnchorKeeps
<1>4. CASE c.for \notin Turns
  <2>1. calls' = calls \ {c} /\ Loaded([anchors.got EXCEPT ![c.for] = "yes"], turns)
    BY <1>4 DEF Embed
  <2>2. c.for \in Anchors
    BY <1>2, <1>4
  <2>3. failures' \in failures .. MaxFailures /\ refusals' \in refusals .. failures'
    BY <1>1, <1>2, LimitsAssumption
  <2>4. sound # {} => failures' = MaxFailures
    BY <1>1 DEF Fits, AnchorsFit
  <2> QED
    BY <1>1, <2>1, <2>2, <2>3, <2>4, LoadKeeps
<1> QED
  BY <1>3, <1>4

\* An answer that is not a vector, for which nothing is tried again.
LEMMA GiveUpKeeps ==
  ASSUME Fits, NEW c \in calls, GiveUp(c), UNCHANGED <<configured, sound>>,
         failures < MaxFailures, failures' = failures + 1,
         refusals' \in refusals .. failures', Excused'
  PROVE  Fits'
<1>1. /\ c \in [for : Turns \cup Anchors, text : Keys, attempt : 1 .. Attempts]
      /\ failures \in 0 .. MaxFailures
  BY DEF Fits, Types
<1>2. failures' \in failures .. MaxFailures /\ sound = {}
  BY <1>1, LimitsAssumption DEF Fits, AnchorsFit
<1>3. calls' = calls \ {c}
  BY DEF GiveUp
<1>4. CASE c.for \in Turns
  <2>1. turns' = [turns EXCEPT ![c.for] = ByWords(@)] /\ anchors' = anchors
    BY <1>4 DEF GiveUp
  <2> QED
    BY <1>2, <1>3, <1>4, <2>1, GivenUpKeeps
<1>5. CASE c.for \notin Turns
  <2>1. Loaded([anchors.got EXCEPT ![c.for] = "no"], turns) /\ c.for \in Anchors
    BY <1>1, <1>5 DEF GiveUp
  <2> QED
    BY <1>2, <1>3, <2>1, LoadKeeps
<1> QED
  BY <1>4, <1>5

LEMMA RefuseKeeps ==
  ASSUME Fits, NEW c \in calls, Refuse(c)
  PROVE  Fits'
<1>1. /\ GiveUp(c) /\ UNCHANGED <<configured, sound>> /\ failures < MaxFailures
      /\ failures' = failures + 1 /\ refusals' = refusals + 1
  BY DEF Refuse
<1>2. failures \in 0 .. MaxFailures /\ refusals \in 0 .. failures
  BY DEF Fits, Types
<1>3. refusals' \in refusals .. failures' /\ Excused'
  BY <1>1, <1>2, LimitsAssumption DEF Excused
<1> QED
  BY <1>1, <1>3, GiveUpKeeps

LEMMA FailTransientlyKeeps ==
  ASSUME Fits, NEW c \in calls, FailTransiently(c)
  PROVE  Fits'
<1>1. /\ failures < MaxFailures /\ failures' = failures + 1
      /\ UNCHANGED <<configured, cache, refusals, sound>>
  BY DEF FailTransiently
<1>2. /\ failures \in 0 .. MaxFailures /\ refusals \in 0 .. failures
      /\ calls \subseteq [for : Turns \cup Anchors, text : Keys, attempt : 1 .. Attempts]
      /\ c.attempt <= failures + 1
  BY DEF Fits, Types, CallsFit
<1>3. c.attempt \in 1 .. Attempts /\ c.for \in Turns \cup Anchors /\ c.text \in Keys
  BY <1>2
<1>4. refusals' \in refusals .. failures'
  BY <1>1, <1>2
<1>5. CASE LastAttempt(c)
  <2>1. Excused'
    BY <1>1, <1>2, <1>3, <1>5, LimitsAssumption DEF LastAttempt, Excused
  <2>2. GiveUp(c)
    BY <1>5 DEF FailTransiently
  <2> QED
    BY <1>1, <1>4, <2>1, <2>2, GiveUpKeeps
<1>6. CASE ~LastAttempt(c)
  <2>1. calls' = (calls \ {c}) \cup {[c EXCEPT !.attempt = c.attempt + 1]} /\ UNCHANGED <<turns, anchors>>
    BY <1>6 DEF FailTransiently
  <2>2. PICK d : d = [c EXCEPT !.attempt = c.attempt + 1]
    OBVIOUS
  <2>3. /\ d \in [for : Turns \cup Anchors, text : Keys, attempt : 1 .. Attempts]
        /\ d.for = c.for /\ d.text = c.text /\ d.attempt = c.attempt + 1
    BY <1>2, <1>3, <1>6, <2>2, LimitsAssumption DEF LastAttempt
  <2>4. calls' = (calls \ {c}) \cup {d}
    BY <2>1, <2>2
  <2>5. Types'
    BY <1>1, <1>2, <1>4, <2>1, <2>3, <2>4, LimitsAssumption DEF Fits, Types
  <2>6. CallsFit'
    <3>1. \A e, f \in calls' : e.for = f.for => e = f
      BY <2>3, <2>4 DEF Fits, CallsFit
    <3>2. \A e \in calls' : e.attempt <= failures' + 1
      BY <1>1, <1>2, <1>3, <2>3, <2>4 DEF Fits, CallsFit
    <3>3. \A e \in calls' : \E f \in calls : e.for = f.for /\ e.text = f.text
      BY <2>3, <2>4
    <3>4. \A t \in Turns : turns'[t].phase = "embedding" => \E e \in calls' : e.for = t
      BY <2>1, <2>3, <2>4 DEF Fits, CallsFit
    <3> QED
      BY <1>1, <2>1, <3>1, <3>2, <3>3, <3>4 DEF Fits, CallsFit, Open
  <2>7. AnchorsFit'
    <3>1. \A a : (\E e \in calls : e.for = a) => \E e \in calls' : e.for = a
      BY <2>3, <2>4
    <3>2. Excused => Excused'
      BY <1>1, <1>2, LimitsAssumption DEF Excused
    <3>3. sound = {}
      BY <1>1, <1>2, LimitsAssumption DEF Fits, AnchorsFit
    <3> QED
      BY <1>1, <2>1, <3>1, <3>2, <3>3 DEF Fits, AnchorsFit
  <2>8. VerdictsFit'
    <3>1. \A x : Full(x)' = Full(x)
      BY <1>1 DEF Full
    <3>2. Excused => Excused'
      BY <1>1, <1>2, LimitsAssumption DEF Excused
    <3> QED
      BY <1>1, <2>1, <3>1, <3>2 DEF Fits, VerdictsFit, Done
  <2> QED
    BY <2>5, <2>6, <2>7, <2>8 DEF Fits
<1> QED
  BY <1>5, <1>6

-----------------------------------------------------------------------------
ContinuityInv == Fits /\ CacheFits

LEMMA InitiallyFits == Init => ContinuityInv
<1> SUFFICES ASSUME Init PROVE ContinuityInv
  OBVIOUS
<1>1. Types
  <2>1. turns \in [Turns -> Turn]
    BY DEF Init, Idle, Turn
  <2>2. anchors \in Anchoring
    BY DEF Init, NoAnchors, Anchoring
  <2> QED
    BY <2>1, <2>2, LimitsAssumption DEF Init, Types
<1>2. CacheFits
  BY EmptySeq, LimitsAssumption DEF Init, CacheFits, IsInjective
<1>3. CallsFit /\ AnchorsFit /\ VerdictsFit
  BY DEF Init, Idle, NoAnchors, CallsFit, AnchorsFit, VerdictsFit, Done
<1> QED
  BY <1>1, <1>2, <1>3 DEF ContinuityInv, Fits

LEMMA StepFits ==
  ASSUME ContinuityInv, [Next]_vars
  PROVE  ContinuityInv'
<1>1. ASSUME NEW t \in Turns, NEW x \in Texts, Classify(t, x) PROVE ContinuityInv'
  BY <1>1, ClassifyKeeps DEF Classify, ContinuityInv, CacheFits
<1>2. ASSUME NEW c \in calls, Embed(c) PROVE ContinuityInv'
  <2>1. c.text \in Keys /\ cache' = Remember(c.text)
    BY <1>2 DEF ContinuityInv, Fits, Types, Embed
  <2>2. CacheFits'
    BY <2>1, RememberFits DEF ContinuityInv, CacheFits
  <2> QED
    BY <1>2, <2>2, EmbedKeeps DEF ContinuityInv
<1>3. ASSUME NEW c \in calls, FailTransiently(c) PROVE ContinuityInv'
  BY <1>3, FailTransientlyKeeps DEF FailTransiently, ContinuityInv, CacheFits
<1>4. ASSUME NEW c \in calls, Refuse(c) PROVE ContinuityInv'
  BY <1>4, RefuseKeeps DEF Refuse, ContinuityInv, CacheFits
<1>5. CASE UNCHANGED vars
  BY <1>5 DEF vars, ContinuityInv, Fits, Types, CacheFits, CallsFit, AnchorsFit, VerdictsFit,
              Open, Excused, Usable, Done, Full
<1> QED
  BY <1>1, <1>2, <1>3, <1>4, <1>5 DEF Next

LEMMA ContinuityInvHolds == Spec => []ContinuityInv
<1>1. ContinuityInv /\ [Next]_vars => ContinuityInv'
  BY StepFits
<1> QED
  BY <1>1, InitiallyFits, PTL DEF Spec

-----------------------------------------------------------------------------
\* The cache never holds more than it may, nor a text twice, and whoever waits has something
\* to wait for: a turn its call or the load of the anchors, and that load a call.
THEOREM TypeCorrect == Spec => []TypeOK
<1>1. ContinuityInv => TypeOK
  <2> SUFFICES ASSUME ContinuityInv PROVE TypeOK
    OBVIOUS
  <2>1. Range(cache) \subseteq Keys
    BY LenProperties, ElementOfSeq DEF ContinuityInv, CacheFits, Range
  <2>2. \A t \in Turns : turns[t].phase \in {"idle", "embedding", "anchoring", "done"}
    BY DEF ContinuityInv, Fits, Types, Turn
  <2>3. \A c \in calls : /\ c.for \in Turns \cup Anchors /\ c.text \in Texts \cup Anchors
                         /\ c.attempt \in 1 .. Attempts
    BY DEF ContinuityInv, Fits, Types, Keys
  <2>4. anchors.phase = "loading" => \E c \in calls : c.for \in Anchors
    BY DEF ContinuityInv, Fits, AnchorsFit
  <2> QED
    BY <2>1, <2>2, <2>3, <2>4
    DEF ContinuityInv, Fits, Types, Anchoring, CacheFits, CallsFit, AnchorsFit, Keys, TypeOK
<1> QED
  BY <1>1, ContinuityInvHolds, PTL

\* However the calls of the turns and of the anchors interleave and fail, a verdict is that of
\* all of the anchors or that of the words, and the latter only after a refusal or as many
\* failures as one text is tried (embedPrompt, embedAnchors).
THEOREM VerdictsEarned == Spec => []VerdictsAreEarned
<1>1. ContinuityInv => VerdictsAreEarned
  BY LimitsAssumption DEF ContinuityInv, Fits, Types, VerdictsFit, Excused, VerdictsAreEarned
<1> QED
  BY <1>1, ContinuityInvHolds, PTL

\* A turn that begins after the outage, with no load of the anchors left from before, is
\* classified as if the endpoint had always answered (embedAnchors keeps no failed load).
THEOREM OutageForgotten == Spec => []OutageIsForgotten
<1>1. ContinuityInv => OutageIsForgotten
  BY DEF ContinuityInv, Fits, Types, VerdictsFit, OutageIsForgotten
<1> QED
  BY <1>1, ContinuityInvHolds, PTL
=============================================================================
