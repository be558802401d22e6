---------------------------- MODULE ControlsProofs ----------------------------
(***************************************************************************)
(* The buttons on the screen, for every set of keys, every code and every  *)
(* bound.                                                                  *)
(***************************************************************************)
EXTENDS Controls, SequenceTheorems, TLAPS

\* From position i of the queue on, no event of key k says down.
NoneFrom(queue, k, down, i) ==
  \A j \in i..Len(queue) : queue[j] # [key |-> k, down |-> down]

\* Key k will be down, or up, when the queue has been served: the last event of
\* the key says so, or no event says otherwise.
WillBe(k, down) ==
  \/ \E i \in 1..Len(events) :
        events[i] = [key |-> k, down |-> down] /\ NoneFrom(events, k, ~down, i + 1)
  \/ (k \in pressedKeys <=> down) /\ NoneFrom(events, k, ~down, 1)

KeysInv ==
  /\ ~input => pressedKeys = {}
  /\ \A k \in Keys \ held : WillBe(k, FALSE)
  /\ input => \A k \in held \ early : WillBe(k, TRUE)

\* The buffer holds the last keys; the dialog is open, or was left without its
\* button, as long as the code counts as found.
EggInv ==
  /\ konamiBuffer = LastKeys(typed, Len(KonamiSequence))
  /\ konamiActivated <=> egg \/ dismissed
  /\ ~(egg /\ dismissed)

ControlsInv == ControlsTypeOK /\ KeysInv /\ EggInv

-----------------------------------------------------------------------------
\* LastKeys is a sequence of at most n keys, and of exactly n if there are n.
LEMMA LastKeysType ==
  ASSUME NEW S, NEW s \in Seq(S), NEW n \in Nat \ {0}
  PROVE  /\ LastKeys(s, n) \in Seq(S)
         /\ Len(LastKeys(s, n)) = IF Len(s) < n THEN Len(s) ELSE n
         /\ Len(s) >= n => \A i \in 1..n : LastKeys(s, n)[i] = s[Len(s) - n + i]
<1>1. CASE Len(s) < n
  BY <1>1 DEF LastKeys
<1>2. CASE ~(Len(s) < n)
  <2> DEFINE m == Len(s) - n + 1
  <2>1. Len(s) \in Nat /\ m \in Int /\ m >= 1 /\ \A i \in m..Len(s) : s[i] \in S
    BY <1>2, LenProperties
  <2>2. /\ SubSeq(s, m, Len(s)) \in Seq(S)
        /\ Len(SubSeq(s, m, Len(s))) = IF m <= Len(s) THEN Len(s) - m + 1 ELSE 0
        /\ \A i \in 1..(Len(s) - m + 1) : SubSeq(s, m, Len(s))[i] = s[m + i - 1]
    BY <2>1, SubSeqProperties
  <2>3. LastKeys(s, n) = SubSeq(s, m, Len(s))
    BY <1>2 DEF LastKeys
  <2> QED
    BY <1>2, <2>1, <2>2, <2>3
<1> QED
  BY <1>1, <1>2

\* handleKeyEvent keeps exactly the last keys, as many as the code has.
LEMMA SlideKeepsLast ==
  ASSUME ControlsAssumption, NEW s \in Seq(Keys), NEW k \in Keys
  PROVE  Slide(LastKeys(s, Len(KonamiSequence)), k)
           = LastKeys(Append(s, k), Len(KonamiSequence))
<1> DEFINE n == Len(KonamiSequence)
           buffer == LastKeys(s, n)
           more == Append(s, k)
           longer == Append(buffer, k)
<1>1. n \in Nat \ {0} /\ Len(s) \in Nat
  BY LenProperties DEF ControlsAssumption
<1>2. /\ more \in Seq(Keys) /\ Len(more) = Len(s) + 1
      /\ \A i \in 1..Len(s) : more[i] = s[i]
      /\ more[Len(s) + 1] = k
  BY AppendProperties
<1> HIDE DEF n, more
<1>3. /\ buffer \in Seq(Keys) /\ Len(buffer) = IF Len(s) < n THEN Len(s) ELSE n
      /\ Len(s) >= n => \A i \in 1..n : buffer[i] = s[Len(s) - n + i]
  BY <1>1, LastKeysType
<1>4. /\ LastKeys(more, n) \in Seq(Keys)
      /\ Len(LastKeys(more, n)) = IF Len(more) < n THEN Len(more) ELSE n
      /\ Len(more) >= n => \A i \in 1..n : LastKeys(more, n)[i] = more[Len(more) - n + i]
  <2>1. more \in Seq(Keys) /\ n \in Nat \ {0}
    BY <1>1, <1>2
  <2> QED
    BY <2>1, LastKeysType
<1>5. CASE Len(s) < n
  <2>1. buffer = s
    BY <1>5 DEF LastKeys
  <2>2. Slide(buffer, k) = more
    <3>1. Len(buffer) # n
      BY <1>1, <1>3, <1>5
    <3>2. Slide(buffer, k) = Append(buffer, k)
      BY <3>1 DEF Slide, n
    <3> QED
      BY <2>1, <3>2 DEF more
  <2>3. Len(LastKeys(more, n)) = Len(more)
    BY <1>1, <1>2, <1>4, <1>5
  <2>4. \A i \in 1..Len(more) : LastKeys(more, n)[i] = more[i]
    <3>1. CASE Len(more) < n
      BY <3>1 DEF LastKeys
    <3>2. CASE ~(Len(more) < n)
      <4>1. Len(more) = n /\ n \in Nat
        BY <1>1, <1>2, <1>5, <3>2
      <4>2. \A i \in 1..n : LastKeys(more, n)[i] = more[n - n + i]
        BY <1>4, <4>1
      <4>3. \A i \in 1..n : n - n + i = i
        BY <4>1
      <4> QED
        BY <4>1, <4>2, <4>3
    <3> QED
      BY <3>1, <3>2
  <2>5. LastKeys(more, n) = more
    BY <1>2, <1>4, <2>3, <2>4, SeqEqual
  <2> QED
    BY <2>2, <2>5 DEF n, more
<1>6. CASE ~(Len(s) < n)
  <2> HIDE DEF buffer
  <2>1. /\ longer \in Seq(Keys) /\ longer # <<>> /\ Len(longer) = n + 1
        /\ \A i \in 1..n : longer[i] = s[Len(s) - n + i]
        /\ longer[n + 1] = k
    BY <1>1, <1>3, <1>6, AppendProperties
  <2> HIDE DEF longer
  <2>2. /\ Tail(longer) \in Seq(Keys) /\ Len(Tail(longer)) = n
        /\ \A i \in 1..n : Tail(longer)[i] = longer[i + 1]
    BY <1>1, <2>1, HeadTailProperties
  <2>3. Slide(buffer, k) = Tail(longer)
    BY <1>1, <1>3, <1>6 DEF Slide, longer, n
  <2>4. Len(LastKeys(more, n)) = n
    BY <1>1, <1>2, <1>4, <1>6
  <2>5. ASSUME NEW i \in 1..n
        PROVE  Tail(longer)[i] = LastKeys(more, n)[i]
    <3>1. Tail(longer)[i] = longer[i + 1] /\ LastKeys(more, n)[i] = more[Len(s) + 1 - n + i]
      BY <1>1, <1>2, <1>4, <1>6, <2>2
    <3>2. CASE i = n
      BY <1>1, <1>2, <2>1, <3>1, <3>2
    <3>3. CASE i # n
      <4>1. i + 1 \in 1..n /\ Len(s) - n + (i + 1) \in 1..Len(s)
        BY <1>1, <1>6, <3>3
      <4>2. Len(s) + 1 - n + i = Len(s) - n + (i + 1)
        BY <1>1
      <4> QED
        BY <1>2, <2>1, <3>1, <4>1, <4>2
    <3> QED
      BY <3>2, <3>3
  <2>6. Tail(longer) = LastKeys(more, n)
    BY <1>4, <2>2, <2>4, <2>5, SeqEqual
  <2> QED
    BY <2>3, <2>6 DEF n, more, buffer
<1> QED
  BY <1>5, <1>6

-----------------------------------------------------------------------------
LEMMA ControlsStarts ==
  ASSUME ControlsAssumption, ControlsInit
  PROVE  ControlsInv
<1>1. \A S : <<>> \in Seq(S) /\ Len(<<>>) = 0
  OBVIOUS
<1>2. Len(KonamiSequence) \in Nat /\ Len(KonamiSequence) > 0
  BY LenProperties DEF ControlsAssumption
<1>3. ControlsTypeOK
  <2>1. <<>> \in Seq(KeyEvent) /\ <<>> \in Seq(Keys) /\ Len(<<>>) <= Len(KonamiSequence)
    BY <1>1, <1>2
  <2> QED
    BY <2>1 DEF ControlsInit, ControlsTypeOK
<1>4. KeysInv
  BY <1>1 DEF ControlsInit, KeysInv, WillBe, NoneFrom
<1>5. EggInv
  BY <1>1, <1>2 DEF ControlsInit, EggInv, LastKeys
<1> QED
  BY <1>3, <1>4, <1>5 DEF ControlsInv

\* An event at the end of the queue that does not say the contrary keeps what k will be.
LEMMA AppendKeeps ==
  ASSUME NEW k \in Keys, NEW down \in BOOLEAN, NEW e \in KeyEvent,
         e # [key |-> k, down |-> ~down],
         events \in Seq(KeyEvent), events' = Append(events, e),
         pressedKeys' = pressedKeys, WillBe(k, down)
  PROVE  WillBe(k, down)'
<1>1. /\ Len(events) \in Nat /\ Len(events') = Len(events) + 1
      /\ \A i \in 1..Len(events) : events'[i] = events[i]
      /\ events'[Len(events) + 1] = e
  BY AppendProperties, LenProperties
<1>2. ASSUME NEW i \in Nat, i >= 1, NoneFrom(events, k, ~down, i)
      PROVE  NoneFrom(events', k, ~down, i)
  <2>1. ASSUME NEW j \in i..Len(events')
        PROVE  events'[j] # [key |-> k, down |-> ~down]
    <3>1. (j \in 1..Len(events) /\ j \in i..Len(events)) \/ j = Len(events) + 1
      BY <1>1, <1>2
    <3> QED
      BY <1>1, <1>2, <3>1 DEF NoneFrom
  <2> QED
    BY <2>1 DEF NoneFrom
<1>3. CASE \E i \in 1..Len(events) :
             events[i] = [key |-> k, down |-> down] /\ NoneFrom(events, k, ~down, i + 1)
  <2>1. PICK i \in 1..Len(events) :
          events[i] = [key |-> k, down |-> down] /\ NoneFrom(events, k, ~down, i + 1)
    BY <1>3
  <2>2. i + 1 \in Nat /\ i + 1 >= 1 /\ i \in 1..Len(events')
    BY <1>1
  <2>3. NoneFrom(events', k, ~down, i + 1) /\ events'[i] = [key |-> k, down |-> down]
    BY <1>1, <1>2, <2>1, <2>2
  <2> QED
    BY <2>2, <2>3 DEF WillBe
<1>4. CASE (k \in pressedKeys <=> down) /\ NoneFrom(events, k, ~down, 1)
  BY <1>2, <1>4 DEF WillBe
<1> QED
  BY <1>3, <1>4 DEF WillBe

\* An event at the end of the queue decides what its key will be.
LEMMA AppendDecides ==
  ASSUME NEW k \in Keys, NEW down \in BOOLEAN, events \in Seq(KeyEvent),
         events' = Append(events, [key |-> k, down |-> down])
  PROVE  WillBe(k, down)'
<1> DEFINE e == [key |-> k, down |-> down]
<1>1. e \in KeyEvent /\ events' = Append(events, e)
  BY DEF KeyEvent
<1> HIDE DEF e
<1>2. /\ Len(events) \in Nat /\ Len(events') = Len(events) + 1
      /\ events'[Len(events) + 1] = e
  BY <1>1, AppendProperties, LenProperties
<1>3. Len(events) + 1 \in 1..Len(events')
  BY <1>2
<1>4. NoneFrom(events', k, ~down, Len(events) + 1 + 1)
  BY <1>2 DEF NoneFrom
<1> QED
  BY <1>2, <1>3, <1>4 DEF WillBe, e

\* Serving the first event leaves a key on its way, but for a press that nobody
\* takes because there is no Input.
LEMMA ServeKeeps ==
  ASSUME ControlsTypeOK, KeysInv, ServeKey, NEW k \in Keys, NEW down \in BOOLEAN,
         WillBe(k, down), down => input
  PROVE  WillBe(k, down)'
<1>1. /\ events \in Seq(KeyEvent) /\ events # <<>> /\ events' = Tail(events)
      /\ Len(events) \in Nat
  BY LenProperties DEF ServeKey, ControlsTypeOK
<1>2. /\ events' \in Seq(KeyEvent)
      /\ Len(events') = Len(events) - 1 /\ Len(events') \in Nat
      /\ \A j \in 1..Len(events') : events'[j] = events[j + 1]
  BY <1>1, HeadTailProperties, LenProperties
<1>3. Head(events) = events[1]
  BY <1>1
<1>4. ASSUME NEW i \in 1..Len(events), NoneFrom(events, k, ~down, i + 1)
      PROVE  NoneFrom(events', k, ~down, i)
  <2>1. ASSUME NEW j \in i..Len(events')
        PROVE  events'[j] # [key |-> k, down |-> ~down]
    <3>1. j \in 1..Len(events') /\ j + 1 \in (i + 1)..Len(events)
      BY <1>1, <1>2
    <3> QED
      BY <1>2, <1>4, <3>1 DEF NoneFrom
  <2> QED
    BY <2>1 DEF NoneFrom
<1>5. CASE \E i \in 1..Len(events) :
             events[i] = [key |-> k, down |-> down] /\ NoneFrom(events, k, ~down, i + 1)
  <2>1. PICK i \in 1..Len(events) :
          events[i] = [key |-> k, down |-> down] /\ NoneFrom(events, k, ~down, i + 1)
    BY <1>5
  <2>2. CASE i = 1
    <3>1. Head(events).key = k /\ Head(events).down = down
      BY <1>3, <2>1, <2>2
    <3>2. k \in pressedKeys' <=> down
      <4>1. CASE down
        BY <3>1, <4>1 DEF ServeKey
      <4>2. CASE ~down
        BY <3>1, <4>2 DEF ServeKey, KeysInv
      <4> QED
        BY <4>1, <4>2
    <3>3. NoneFrom(events', k, ~down, 1)
      BY <1>4, <2>1, <2>2
    <3> QED
      BY <3>2, <3>3 DEF WillBe
  <2>3. CASE i # 1
    <3>1. i - 1 \in 1..Len(events') /\ (i - 1) + 1 = i
      BY <1>1, <1>2, <2>3
    <3>2. events'[i - 1] = [key |-> k, down |-> down]
      BY <1>2, <2>1, <3>1
    <3>3. NoneFrom(events', k, ~down, (i - 1) + 1)
      BY <1>4, <2>1, <3>1
    <3> QED
      BY <3>1, <3>2, <3>3 DEF WillBe
  <2> QED
    BY <2>2, <2>3
<1>6. CASE (k \in pressedKeys <=> down) /\ NoneFrom(events, k, ~down, 1)
  <2>1. 1 \in 1..Len(events) /\ NoneFrom(events, k, ~down, 1 + 1)
    BY <1>1, <1>2, <1>6 DEF NoneFrom
  <2>2. NoneFrom(events', k, ~down, 1)
    BY <1>4, <2>1
  <2>3. Head(events) \in KeyEvent /\ Head(events) # [key |-> k, down |-> ~down]
    BY <1>1, <1>3, <1>6, <2>1, HeadTailProperties DEF NoneFrom
  <2>4. Head(events).key = k => Head(events).down = down
    BY <2>3 DEF KeyEvent
  <2>5. k \in pressedKeys' <=> down
    <3>1. CASE down
      BY <1>6, <2>4, <3>1 DEF ServeKey
    <3>2. CASE ~down
      BY <1>6, <2>4, <3>2 DEF ServeKey
    <3> QED
      BY <3>1, <3>2
  <2> QED
    BY <2>2, <2>5 DEF WillBe
<1> QED
  BY <1>5, <1>6 DEF WillBe

-----------------------------------------------------------------------------
LEMMA PressKeepsInv ==
  ASSUME ControlsAssumption, ControlsInv, NEW k \in Keys, Press(k)
  PROVE  ControlsInv'
<1> DEFINE n == Len(KonamiSequence)
           e == [key |-> k, down |-> TRUE]
<1>1. n \in Nat \ {0}
  BY LenProperties DEF ControlsAssumption
<1>2. konamiBuffer' = Slide(konamiBuffer, k) /\ typed' = Append(typed, k)
  BY DEF Press
<1>3. typed' \in Seq(Keys) /\ konamiBuffer' = LastKeys(typed', n)
  <2>1. typed \in Seq(Keys)
    BY DEF ControlsInv, ControlsTypeOK
  <2>2. konamiBuffer = LastKeys(typed, n)
    BY DEF ControlsInv, EggInv
  <2> QED
    BY <1>2, <2>1, <2>2, SlideKeepsLast, AppendProperties
<1>4. konamiBuffer' \in Seq(Keys) /\ Len(konamiBuffer') <= n
  <2>1. /\ LastKeys(typed', n) \in Seq(Keys)
        /\ Len(LastKeys(typed', n)) = IF Len(typed') < n THEN Len(typed') ELSE n
    BY <1>1, <1>3, LastKeysType
  <2>2. Len(typed') \in Nat
    BY <1>3, LenProperties
  <2> QED
    BY <1>1, <1>3, <2>1, <2>2
<1>5. e \in KeyEvent /\ events' = Append(events, e) /\ events' \in Seq(KeyEvent)
  <2>1. e \in KeyEvent /\ events \in Seq(KeyEvent)
    BY DEF KeyEvent, ControlsInv, ControlsTypeOK
  <2> QED
    BY <2>1, AppendProperties DEF Press
<1>6. ControlsTypeOK'
  BY <1>3, <1>4, <1>5 DEF Press, ControlsInv, ControlsTypeOK
<1>7. KeysInv'
  <2>1. ASSUME NEW l \in Keys \ held'
        PROVE  WillBe(l, FALSE)'
    <3>1. l # k /\ l \in Keys \ held /\ pressedKeys' = pressedKeys
      BY <2>1 DEF Press
    <3>2. e # [key |-> l, down |-> ~FALSE]
      BY <3>1
    <3>3. WillBe(l, FALSE) /\ events \in Seq(KeyEvent)
      BY <3>1 DEF ControlsInv, KeysInv, ControlsTypeOK
    <3> QED
      BY <1>5, <3>1, <3>2, <3>3, AppendKeeps
  <2>2. ASSUME NEW l \in held' \ early', input'
        PROVE  WillBe(l, TRUE)'
    <3>1. events \in Seq(KeyEvent) /\ pressedKeys' = pressedKeys /\ input
      BY <2>2 DEF Press, ControlsInv, ControlsTypeOK
    <3>2. CASE l = k
      BY <1>5, <3>1, <3>2, AppendDecides
    <3>3. CASE l # k
      <4>1. l \in held \ early /\ l \in Keys
        BY <2>2, <3>3 DEF Press, ControlsInv, ControlsTypeOK
      <4>2. WillBe(l, TRUE)
        BY <3>1, <4>1 DEF ControlsInv, KeysInv
      <4>3. e # [key |-> l, down |-> ~TRUE]
        BY <3>3
      <4> QED
        BY <1>5, <3>1, <4>1, <4>2, <4>3, AppendKeeps
    <3> QED
      BY <3>2, <3>3
  <2> QED
    BY <2>1, <2>2 DEF Press, ControlsInv, KeysInv
<1>8. EggInv'
  BY <1>3 DEF Press, ControlsInv, EggInv
<1> QED
  BY <1>6, <1>7, <1>8 DEF ControlsInv

LEMMA LiftKeepsInv ==
  ASSUME ControlsInv, NEW k \in Keys, Lift(k)
  PROVE  ControlsInv'
<1> DEFINE e == [key |-> k, down |-> FALSE]
<1>1. e \in KeyEvent /\ events \in Seq(KeyEvent) /\ events' = Append(events, e)
  BY DEF KeyEvent, ControlsInv, ControlsTypeOK, Lift
<1>2. /\ events' \in Seq(KeyEvent) /\ Len(events) \in Nat
      /\ Len(events') = Len(events) + 1
      /\ events'[Len(events) + 1] = e
  BY <1>1, AppendProperties, LenProperties
<1>3. ControlsTypeOK'
  BY <1>2 DEF Lift, ControlsInv, ControlsTypeOK
<1>4. KeysInv'
  <2>1. ASSUME NEW l \in Keys \ held'
        PROVE  WillBe(l, FALSE)'
    <3>1. CASE l = k
      BY <1>1, <3>1, AppendDecides
    <3>2. CASE l # k
      <4>1. l \in Keys \ held /\ pressedKeys' = pressedKeys
        BY <2>1, <3>2 DEF Lift
      <4>2. WillBe(l, FALSE)
        BY <4>1 DEF ControlsInv, KeysInv
      <4>3. e # [key |-> l, down |-> ~FALSE]
        OBVIOUS
      <4> QED
        BY <1>1, <4>1, <4>2, <4>3, AppendKeeps
    <3> QED
      BY <3>1, <3>2
  <2>2. ASSUME NEW l \in held' \ early', input'
        PROVE  WillBe(l, TRUE)'
    <3>1. l # k /\ l \in held \ early /\ l \in Keys /\ input /\ pressedKeys' = pressedKeys
      BY <2>2 DEF Lift, ControlsInv, ControlsTypeOK
    <3>2. WillBe(l, TRUE)
      BY <3>1 DEF ControlsInv, KeysInv
    <3>3. e # [key |-> l, down |-> ~TRUE]
      BY <3>1
    <3> QED
      BY <1>1, <3>1, <3>2, <3>3, AppendKeeps
  <2> QED
    BY <2>1, <2>2 DEF Lift, ControlsInv, KeysInv
<1>5. EggInv'
  BY DEF Lift, ControlsInv, EggInv
<1> QED
  BY <1>3, <1>4, <1>5 DEF ControlsInv

LEMMA ServeKeepsInv ==
  ASSUME ControlsInv, ServeKey
  PROVE  ControlsInv'
<1>1. events \in Seq(KeyEvent) /\ events # <<>> /\ events' = Tail(events)
  BY DEF ServeKey, ControlsInv, ControlsTypeOK
<1>2. Head(events) \in KeyEvent /\ events' \in Seq(KeyEvent)
  BY <1>1, HeadTailProperties
<1>3. pressedKeys' \subseteq Keys
  BY <1>2 DEF ServeKey, KeyEvent, ControlsInv, ControlsTypeOK
<1>4. ControlsTypeOK'
  BY <1>2, <1>3 DEF ServeKey, ControlsInv, ControlsTypeOK
<1>5. KeysInv'
  <2>1. ASSUME NEW l \in Keys \ held'
        PROVE  WillBe(l, FALSE)'
    <3>1. l \in Keys /\ WillBe(l, FALSE)
      BY <2>1 DEF ServeKey, ControlsInv, KeysInv
    <3> QED
      BY <3>1, ServeKeeps DEF ControlsInv
  <2>2. ASSUME NEW l \in held' \ early', input'
        PROVE  WillBe(l, TRUE)'
    <3>1. l \in Keys /\ input /\ WillBe(l, TRUE)
      BY <2>2 DEF ServeKey, ControlsInv, KeysInv, ControlsTypeOK
    <3> QED
      BY <3>1, ServeKeeps DEF ControlsInv
  <2>3. ~input' => pressedKeys' = {}
    BY DEF ServeKey, ControlsInv, KeysInv
  <2> QED
    BY <2>1, <2>2, <2>3 DEF KeysInv
<1>6. EggInv'
  BY DEF ServeKey, ControlsInv, EggInv
<1> QED
  BY <1>4, <1>5, <1>6 DEF ControlsInv

\* A new Input has no key pressed, and neither has none.
LEMMA InputKeepsInv ==
  ASSUME ControlsInv, ResumeInput \/ PauseInput
  PROVE  ControlsInv'
<1>1. ControlsTypeOK'
  BY DEF ResumeInput, PauseInput, ControlsInv, ControlsTypeOK
<1>2. KeysInv'
  <2>1. ASSUME NEW l \in Keys \ held'
        PROVE  WillBe(l, FALSE)'
    <3>1. WillBe(l, FALSE) /\ events' = events /\ pressedKeys' = {}
      BY <2>1 DEF ResumeInput, PauseInput, ControlsInv, KeysInv
    <3> QED
      BY <3>1 DEF WillBe, NoneFrom
  <2>2. input' => held' \ early' = {}
    BY DEF ResumeInput, PauseInput
  <2> QED
    BY <2>1, <2>2 DEF ResumeInput, PauseInput, KeysInv
<1>3. EggInv'
  BY DEF ResumeInput, PauseInput, ControlsInv, EggInv
<1> QED
  BY <1>1, <1>2, <1>3 DEF ControlsInv

LEMMA ControlsStep ==
  ASSUME ControlsAssumption, ControlsInv, [ControlsNext]_controlVars
  PROVE  ControlsInv'
<1>1. ASSUME NEW k \in Keys, Press(k) PROVE ControlsInv'
  BY <1>1, PressKeepsInv
<1>2. ASSUME NEW k \in Keys, Lift(k) PROVE ControlsInv'
  BY <1>2, LiftKeepsInv
<1>3. CASE CloseEgg
  <2>1. ControlsTypeOK'
    BY <1>3 DEF CloseEgg, ControlsInv, ControlsTypeOK
  <2>2. KeysInv'
    BY <1>3 DEF CloseEgg, ControlsInv, KeysInv, WillBe
  <2>3. konamiActivated /\ ~dismissed
    BY <1>3 DEF CloseEgg, ControlsInv, EggInv
  <2>4. EggInv'
    <3>1. CASE konamiActivated' = FALSE /\ dismissed' = dismissed
      BY <1>3, <2>3, <3>1 DEF CloseEgg, ControlsInv, EggInv
    <3>2. CASE konamiActivated' = konamiActivated /\ dismissed' = TRUE
      BY <1>3, <2>3, <3>2 DEF CloseEgg, ControlsInv, EggInv
    <3> QED
      BY <1>3, <3>1, <3>2 DEF CloseEgg
  <2> QED
    BY <2>1, <2>2, <2>4 DEF ControlsInv
<1>4. CASE Finish
  BY <1>4 DEF Finish, ControlsInv, ControlsTypeOK, KeysInv, WillBe, EggInv
<1>5. CASE ServeKey
  BY <1>5, ServeKeepsInv
<1>6. CASE ResumeInput \/ PauseInput
  BY <1>6, InputKeepsInv
<1>7. CASE UNCHANGED controlVars
  BY <1>7 DEF controlVars, ControlsInv, ControlsTypeOK, KeysInv, WillBe, EggInv
<1> QED
  BY <1>1, <1>2, <1>3, <1>4, <1>5, <1>6, <1>7 DEF ControlsNext

LEMMA ControlsInvariance ==
  ASSUME ControlsAssumption
  PROVE  ControlsSpec => []ControlsInv
<1>1. ControlsInit => ControlsInv
  BY ControlsStarts
<1>2. ControlsInv /\ [ControlsNext]_controlVars => ControlsInv'
  BY ControlsStep
<1> QED
  BY <1>1, <1>2, PTL DEF ControlsSpec

-----------------------------------------------------------------------------
\* The types of the buttons' state, with the bound on the buffer of the code.
THEOREM ControlsTypeCorrect ==
  ASSUME ControlsAssumption
  PROVE  ControlsSpec => []ControlsTypeOK
<1>1. ControlsInv => ControlsTypeOK
  BY DEF ControlsInv
<1> QED
  BY <1>1, ControlsInvariance, PTL

\* When the GL thread has served all key events, the keys pressed for the game are
\* those under a finger, however pauses and resumes fall between the events; only a
\* key held since before the last resume may be missing.
THEOREM KeysFollowFingers ==
  ASSUME ControlsAssumption
  PROVE  ControlsSpec => []KeysAsHeld
<1>1. ASSUME ControlsInv, input, events = <<>>, NEW k \in pressedKeys
      PROVE  k \in held
  <2>1. SUFFICES ASSUME k \notin held PROVE FALSE
    OBVIOUS
  <2>2. k \in Keys \ held
    BY <1>1, <2>1 DEF ControlsInv, ControlsTypeOK
  <2>3. WillBe(k, FALSE) /\ Len(events) = 0
    BY <1>1, <2>2 DEF ControlsInv, KeysInv
  <2> QED
    BY <1>1, <2>3 DEF WillBe
<1>2. ASSUME ControlsInv, input, events = <<>>, NEW k \in held \ early
      PROVE  k \in pressedKeys
  <2>1. WillBe(k, TRUE) /\ Len(events) = 0
    BY <1>2 DEF ControlsInv, KeysInv
  <2> QED
    BY <2>1 DEF WillBe
<1>3. ControlsInv => KeysAsHeld
  BY <1>1, <1>2 DEF KeysAsHeld
<1> QED
  BY <1>3, ControlsInvariance, PTL

\* The dialog of the Konami code opens, or fails to, with exactly the presses
\* that complete the code, for every code, unless a dialog was left without its
\* button.
THEOREM CodeRecognised ==
  ASSUME ControlsAssumption
  PROVE  ControlsSpec => EggOnCode
<1> DEFINE Opens == typed' # typed =>
                      (egg' \/ thrown' <=> LastKeys(typed', Len(KonamiSequence)) = KonamiSequence
                                          /\ ~finishing /\ ~dismissed)
<1>1. ASSUME ControlsInv, [ControlsNext]_controlVars
      PROVE  Opens \/ UNCHANGED controlVars
  <2>1. SUFFICES ASSUME typed' # typed PROVE Opens
    OBVIOUS
  <2>2. PICK k \in Keys : Press(k)
    BY <1>1, <2>1 DEF ControlsNext, controlVars, Lift, CloseEgg, Finish, ServeKey,
                      ResumeInput, PauseInput
  <2>3. konamiBuffer' = LastKeys(typed', Len(KonamiSequence))
    BY <1>1, <2>2, PressKeepsInv DEF ControlsInv, EggInv
  <2>4. konamiBuffer' = Slide(konamiBuffer, k) /\ ~egg
    BY <2>2 DEF Press
  <2>5. konamiActivated <=> dismissed
    BY <1>1, <2>4 DEF ControlsInv, EggInv
  <2> QED
    BY <2>2, <2>3, <2>4, <2>5 DEF Press
<1>2. ControlsInv /\ [ControlsNext]_controlVars => [Opens]_controlVars
  BY <1>1
<1> HIDE DEF Opens
<1>3. ControlsSpec => [][Opens]_controlVars
  BY <1>2, ControlsInvariance, PTL DEF ControlsSpec
<1> QED
  BY <1>3 DEF EggOnCode, Opens
=============================================================================
