---------------------------- MODULE TerminalProofs ----------------------------
(***************************************************************************)
(* The safety properties of Terminal, for queues and channels of every     *)
(* capacity and any number of keys.                                        *)
(***************************************************************************)
EXTENDS Terminal, SequenceTheorems, TLAPS

\* What the loop returned says where it is, and why.
LoopOK ==
    /\ loop = "returned" <=> result # "none" \/ owner # "screen"
    /\ loop = "opening" => reader = "off"
    /\ loop = "posting" \/ result = "nil" => ~live \/ work = "done"

TerminalInv == TerminalTypeOK /\ LoopOK /\ KeysInOrder /\ WorkToldToStop

-----------------------------------------------------------------------------
(* Sequences that are handed on *)

\* An event that is taken from one sequence and put behind the other changes nothing
\* in the two together.
LEMMA HandedOn ==
    ASSUME NEW s \in Seq(Events), NEW t \in Seq(Events), t # <<>>
    PROVE  Append(s, Head(t)) \o Tail(t) = s \o t
<1>1. Head(t) \in Events /\ Tail(t) \in Seq(Events) /\ <<Head(t)>> \in Seq(Events)
  BY HeadTailProperties
<1>2. t = <<Head(t)>> \o Tail(t)
  BY <1>1, HeadTailProperties, ConcatProperties, SeqEqual
<1>3. Append(s, Head(t)) = s \o <<Head(t)>>
  BY <1>1, AppendIsConcat
<1> QED BY <1>1, <1>2, <1>3, ConcatAssociative

\* A sequence with something behind it is a beginning of the two.
LEMMA FrontBegins ==
    ASSUME NEW s \in Seq(Events), NEW t \in Seq(Events)
    PROVE  Begins(s, s \o t)
BY ConcatProperties DEF Begins

LEMMA BeginsLonger ==
    ASSUME NEW s \in Seq(Events), NEW t \in Seq(Events), NEW e \in Events, Begins(s, t)
    PROVE  Begins(s, Append(t, e))
BY AppendProperties DEF Begins

LEMMA AppendAtEnd ==
    ASSUME NEW s \in Seq(Events), NEW t \in Seq(Events), NEW e \in Events
    PROVE  s \o Append(t, e) = Append(s \o t, e)
<1>1. <<e>> \in Seq(Events) /\ s \o t \in Seq(Events)
  BY ConcatProperties
<1> QED BY <1>1, AppendIsConcat, ConcatAssociative

-----------------------------------------------------------------------------
(* The invariant *)

LEMMA TerminalInitInv == TerminalInit => TerminalInv
<1> SUFFICES ASSUME TerminalInit PROVE TerminalInv
  OBVIOUS
<1> USE DEF TerminalInit
<1>1. TerminalTypeOK
  BY CapsAssumption DEF TerminalTypeOK
<1>2. LoopOK /\ WorkToldToStop
  BY DEF LoopOK, WorkToldToStop
<1>3. KeysInOrder
  BY ConcatEmptySeq DEF KeysInOrder, Given, Begins
<1> QED BY <1>1, <1>2, <1>3 DEF TerminalInv

\* The types of the sequences, and of what is put together from them.
LEMMA SequenceTypes ==
    ASSUME TerminalTypeOK
    PROVE  /\ hand \in Seq(Events) /\ queue \in Seq(Events) /\ events \in Seq(Events)
           /\ typed \in Seq(Events) /\ handled \in Seq(Events) /\ Given \in Seq(Events)
           /\ handled \o events \in Seq(Events)
           /\ handled \o events \o hand \in Seq(Events)
<1>1. hand \in Seq(Events) /\ queue \in Seq(Events) /\ events \in Seq(Events)
  BY DEF TerminalTypeOK, Events
<1>2. typed \in Seq(Events) /\ handled \in Seq(Events)
  BY DEF TerminalTypeOK, Events
<1>3. Given \in Seq(Events)
  BY <1>2, AppendProperties DEF Given, Events
<1> QED BY <1>1, <1>2, <1>3, ConcatProperties

\* The key or interrupt a step puts into the queue is the last thing given.
LEMMA GivenOne ==
    ASSUME TerminalInv, NEW e \in Events,
           queue' = Append(queue, e), Given' = Append(Given, e), Begins(handled, typed'),
           UNCHANGED <<reader, hand, events, handled>>
    PROVE  KeysInOrder'
<1>1. Begins(handled \o events, Given) /\ Given \in Seq(Events)
  BY SequenceTypes DEF TerminalInv, KeysInOrder
<1>2. Begins(handled \o events, Given)'
  BY <1>1, BeginsLonger, SequenceTypes DEF TerminalInv
<1>3. ASSUME reader # "ended"
      PROVE  handled \o events \o hand \o queue' = Given'
  <2>1. handled \o events \o hand \in Seq(Events) /\ queue \in Seq(Events)
    BY SequenceTypes DEF TerminalInv
  <2>2. handled \o events \o hand \o queue = Given
    BY <1>3 DEF TerminalInv, KeysInOrder
  <2> QED BY <2>1, <2>2, AppendAtEnd
<1> QED BY <1>2, <1>3 DEF KeysInOrder

\* What the loop receives next is the next key typed: the interrupt never reaches it.
LEMMA NextReceived ==
    ASSUME TerminalInv, Receives
    PROVE  Head(events) \in Keys /\ Begins(Append(handled, Head(events)), typed)
<1>1. result = "none" /\ events # <<>>
  BY DEF TerminalInv, LoopOK, Receives
<1>2. Begins(handled \o events, typed)
  BY <1>1 DEF TerminalInv, KeysInOrder, Given
<1>3. Len(handled) + 1 <= Len(typed) /\ typed[Len(handled) + 1] = Head(events)
  <2>1. handled \in Seq(Events) /\ events \in Seq(Events) /\ Len(events) > 0
    BY <1>1, SequenceTypes, LenProperties, EmptySeq DEF TerminalInv
  <2>2. /\ Len(handled \o events) = Len(handled) + Len(events)
        /\ (handled \o events)[Len(handled) + 1] = events[1]
    BY <2>1, ConcatProperties, LenProperties
  <2>3. typed \in Seq(Keys)
    BY DEF TerminalInv, TerminalTypeOK
  <2> QED BY <1>2, <2>1, <2>2, <2>3 DEF Begins
<1>4. Head(events) \in Keys
  BY <1>3, SequenceTypes DEF TerminalInv, TerminalTypeOK
<1> QED
  BY <1>3, <1>4, AppendProperties DEF TerminalInv, TerminalTypeOK, KeysInOrder, Begins

LEMMA TypesStep ==
    ASSUME TerminalInv, [TerminalNext]_terminalVars
    PROVE  TerminalTypeOK'
<1> USE DEF TerminalInv, TerminalTypeOK, keys, Commands
<1> Keys \subseteq Events /\ "interrupt" \in Events
  BY DEF Events
<1>1. CASE UNCHANGED terminalVars
  BY <1>1 DEF terminalVars
<1>2. CASE Cancel \/ WorkEnds \/ ScreenFails
  BY <1>2 DEF Cancel, WorkEnds, ScreenFails
<1>3. CASE PlainEnds \/ RunReturns \/ Exits
  BY <1>3 DEF PlainEnds, RunReturns, Exits
<1>4. CASE OpenScreen \/ SelectsEnd
  BY <1>4 DEF OpenScreen, SelectsEnd, LoopOK
<1>5. CASE Post
  <2>1. queue' \in Seq(Events) /\ Len(queue') = Len(queue) + 1
    BY <1>5, AppendProperties DEF Post
  <2> QED BY <1>5, <2>1, CapsAssumption DEF Post
<1>6. CASE Receives
  <2>1. Tail(events) \in Seq(Events) /\ Len(Tail(events)) <= EventsCap
    BY <1>6, HeadTailProperties, CapsAssumption DEF Receives
  <2>2. handled' \in Seq(Keys)
    BY <1>6, NextReceived, AppendProperties DEF Receives
  <2> QED BY <1>6, <2>1, <2>2 DEF Receives
<1>7. ASSUME NEW key \in Keys, Type(key)
      PROVE  TerminalTypeOK'
  <2>1. queue' \in Seq(Events) /\ Len(queue') = Len(queue) + 1 /\ typed' \in Seq(Keys)
    BY <1>7, AppendProperties DEF Type
  <2> QED BY <1>7, <2>1, CapsAssumption DEF Type
<1>8. CASE Polls
  BY <1>8, HeadTailProperties, CapsAssumption DEF Polls
<1>9. CASE PollsNil \/ GivesUp
  <2>1. hand' = <<>> /\ Len(hand') = 0 /\ hand' \in Seq(Events)
    BY <1>9, EmptySeq DEF PollsNil, GivesUp
  <2>2. reader' = "ended"
    BY <1>9 DEF PollsNil, GivesUp
  <2>3. UNCHANGED <<command, owner, live, work, loop, result, queue, events, typed, handled>>
    BY <1>9 DEF PollsNil, GivesUp
  <2> QED BY <2>1, <2>2, <2>3
<1>10. CASE Sends
  <2>1. events' \in Seq(Events) /\ Len(events') = Len(events) + Len(hand)
    BY <1>10, ConcatProperties DEF Sends
  <2>2. Len(events') <= EventsCap /\ Len(<<>>) = 0 /\ <<>> \in Seq(Events)
    BY <1>10, <2>1, CapsAssumption, EmptySeq, LenProperties DEF Sends
  <2> QED BY <1>10, <2>1, <2>2 DEF Sends
<1> QED
  BY <1>1, <1>2, <1>3, <1>4, <1>5, <1>6, <1>7, <1>8, <1>9, <1>10 DEF TerminalNext

LEMMA LoopStep ==
    ASSUME TerminalTypeOK, LoopOK, WorkToldToStop, [TerminalNext]_terminalVars
    PROVE  LoopOK' /\ WorkToldToStop'
<1> USE DEF TerminalTypeOK, LoopOK, WorkToldToStop, keys, Running
<1>1. CASE UNCHANGED terminalVars
  BY <1>1 DEF terminalVars
<1>2. CASE Cancel \/ WorkEnds \/ ScreenFails
  BY <1>2 DEF Cancel, WorkEnds, ScreenFails
<1>3. CASE PlainEnds \/ Exits
  BY <1>3 DEF PlainEnds, Exits
<1>8. CASE RunReturns
  <2>1. result = "quit" => ~live'
    BY <1>8 DEF RunReturns
  <2>2. result = "nil" => ~live' \/ work = "done"
    BY <1>8 DEF RunReturns
  <2> QED BY <1>8, <2>1, <2>2 DEF RunReturns
<1>4. CASE OpenScreen \/ SelectsEnd \/ Post
  BY <1>4 DEF OpenScreen, SelectsEnd, Post
<1>5. CASE Receives
  BY <1>5 DEF Receives
<1>6. ASSUME NEW key \in Keys, Type(key)
      PROVE  LoopOK' /\ WorkToldToStop'
  BY <1>6 DEF Type
<1>7. CASE Polls \/ PollsNil \/ Sends \/ GivesUp
  BY <1>7 DEF Polls, PollsNil, Sends, GivesUp
<1> QED BY <1>1, <1>2, <1>3, <1>4, <1>5, <1>6, <1>7, <1>8 DEF TerminalNext

LEMMA KeysStep == ASSUME TerminalInv, [TerminalNext]_terminalVars PROVE KeysInOrder'
<1> USE DEF TerminalInv
<1>1. CASE \/ UNCHANGED terminalVars
          \/ Cancel \/ WorkEnds \/ ScreenFails \/ PlainEnds \/ RunReturns \/ Exits \/ SelectsEnd
  <2>1. UNCHANGED <<result, keys>>
    BY <1>1 DEF terminalVars, keys, Cancel, WorkEnds, ScreenFails, PlainEnds, RunReturns, Exits,
                SelectsEnd
  <2> QED BY <2>1 DEF KeysInOrder, Given, keys
<1>2. CASE OpenScreen
  <2>1. reader # "ended" /\ UNCHANGED <<result, hand, queue, events, typed, handled>>
    BY <1>2 DEF OpenScreen, LoopOK
  <2> QED BY <2>1 DEF KeysInOrder, Given
<1>3. CASE Post
  <2>1. Given' = Append(Given, "interrupt")
    BY <1>3 DEF Post, LoopOK, Given
  <2> QED BY <1>3, <2>1, GivenOne DEF Post, Events, KeysInOrder
<1>4. CASE Receives
  <2>1. (handled \o events)' = handled \o events
    BY <1>4, HandedOn, SequenceTypes DEF Receives
  <2>2. Given' = Given /\ UNCHANGED <<typed, reader, hand, queue>>
    BY <1>4 DEF Receives, LoopOK, Given
  <2> QED BY <1>4, <2>1, <2>2, NextReceived DEF KeysInOrder, Receives
<1>5. ASSUME NEW key \in Keys, Type(key)
      PROVE  KeysInOrder'
  <2>1. Given' = Append(Given, key)
    BY <1>5 DEF Type, LoopOK, Given
  <2>2. Begins(handled, typed')
    BY <1>5, BeginsLonger, SequenceTypes DEF Type, KeysInOrder, Events
  <2> QED BY <1>5, <2>1, <2>2, GivenOne DEF Type, Events
<1>6. CASE Polls
  <2>1. hand = <<>> /\ queue # <<>> /\ reader # "ended"
    BY <1>6 DEF Polls, TerminalTypeOK
  <2>2. hand' = Append(hand, Head(queue)) /\ queue' = Tail(queue)
    BY <1>6, <2>1 DEF Polls
  <2>3. Head(queue) \in Events /\ Tail(queue) \in Seq(Events) /\ hand' \in Seq(Events)
    BY <2>1, <2>2, SequenceTypes, HeadTailProperties, AppendProperties
  <2>4. hand' \o queue' = hand \o queue
    BY <2>1, <2>2, SequenceTypes, HandedOn
  <2>5. ASSUME NEW h \in Seq(Events), NEW q \in Seq(Events)
        PROVE  (handled \o events \o h) \o q = (handled \o events) \o (h \o q)
    <3>1. handled \o events \in Seq(Events)
      BY SequenceTypes
    <3> QED BY <3>1, ConcatAssociative
  <2>6. /\ (handled \o events \o hand) \o queue = (handled \o events) \o (hand \o queue)
        /\ (handled \o events \o hand') \o queue' = (handled \o events) \o (hand' \o queue')
    BY <2>2, <2>3, <2>5, SequenceTypes
  <2>7. UNCHANGED <<handled, events, Given, typed>>
    BY <1>6 DEF Polls, Given
  <2> QED BY <2>1, <2>4, <2>6, <2>7 DEF KeysInOrder
<1>7. CASE PollsNil \/ GivesUp
  BY <1>7 DEF PollsNil, GivesUp, KeysInOrder, Given
<1>8. CASE Sends
  <2>1. reader # "ended" /\ UNCHANGED <<handled, queue, typed, Given>>
    BY <1>8 DEF Sends, Given
  <2>2. (handled \o events)' = handled \o events \o hand
    <3>1. handled \in Seq(Events) /\ events \in Seq(Events) /\ hand \in Seq(Events)
      BY SequenceTypes
    <3> QED BY <1>8, <3>1, ConcatAssociative DEF Sends
  <2>3. Begins((handled \o events)', Given)
    BY <2>1, <2>2, FrontBegins, SequenceTypes DEF KeysInOrder
  <2>4. (handled \o events)' \o hand' = handled \o events \o hand
    BY <1>8, <2>2, SequenceTypes, ConcatEmptySeq DEF Sends
  <2> QED BY <2>1, <2>3, <2>4 DEF KeysInOrder
<1> QED
  BY <1>1, <1>2, <1>3, <1>4, <1>5, <1>6, <1>7, <1>8 DEF TerminalNext

LEMMA TerminalStepInv == TerminalInv /\ [TerminalNext]_terminalVars => TerminalInv'
BY TypesStep, LoopStep, KeysStep DEF TerminalInv

LEMMA TerminalInvariant == TerminalSpec => []TerminalInv
BY TerminalInitInv, TerminalStepInv, PTL DEF TerminalSpec

-----------------------------------------------------------------------------
(* The theorems *)

\* The queue, the channel and the reader's hand stay within their bounds, and the loop
\* receives nothing but keys.
THEOREM TerminalTypeCorrect == TerminalSpec => []TerminalTypeOK
BY TerminalInvariant, PTL DEF TerminalInv

\* No key is lost or overtaken on its way to the loop, whatever the capacities, and none
\* but those behind the last the loop received is lost when the reader ends.
THEOREM KeysArriveInOrder == TerminalSpec => []KeysInOrder
BY TerminalInvariant, PTL DEF TerminalInv

\* On every way out of a screen the work has ended or its context has.
THEOREM NoWorkIsLeftAlone == TerminalSpec => []WorkToldToStop
BY TerminalInvariant, PTL DEF TerminalInv

=============================================================================
