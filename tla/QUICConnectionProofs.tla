------------------------ MODULE QUICConnectionProofs ------------------------
(***************************************************************************)
(* Proofs about QUICConnection, for connections of every configuration and *)
(* any number of datagrams and stops: each of its invariants.              *)
(*                                                                         *)
(*   LockIsReleased   recvLock is held to verify only                      *)
(*   ClosingTheorem   a connection that closes is watched                  *)
(*   EndIsClosed      stop and a failing start end for good                *)
(*   TypeCorrect      the types, and who may await verifyCallback          *)
(*                                                                         *)
(* Each part below states its own invariant and proves that the steps keep *)
(* it, with the invariants of the parts before it.                         *)
(***************************************************************************)
EXTENDS QUICConnection, TLAPS

-----------------------------------------------------------------------------
(***************************************************************************)
(* The end of a connection is told by two sources that must agree: closedP,*)
(* which start and stop await, and quiche.  closedP is resolved only for a *)
(* quiche connection that has closed, and quiche never leaves that state.  *)
(***************************************************************************)

EndInv ==
    /\ closedP => q = "closed"
    /\ phase \in {"stopped", "failed"} => closedP

\* What recv does with a datagram never reopens a closed connection.
LEMMA DeliverKeepsClosed ==
    ASSUME NEW kind, NEW sends, NEW rest, Deliver(kind, sends, rest), q = "closed"
    PROVE  q' = "closed"
  BY DEF Deliver, Feed, quiche

\* The steps that neither start, stop nor close anything.
LEMMA EndInvKept ==
    ASSUME EndInv, q = "closed" => q' = "closed", closedP' = closedP,
           phase' \in {"stopped", "failed"} => phase' = phase
    PROVE  EndInv'
  BY DEF EndInv

\* Every step keeps the invariant: the ones that resolve closedP or that end
\* start or stop are StartFailed, Stopped, send and TickClosed.
LEMMA EndInvStep == EndInv /\ [Next]_vars => EndInv'
<1> SUFFICES ASSUME EndInv, [Next]_vars
             PROVE  EndInv'
  OBVIOUS
<1>1. CASE Starts
  <2>1. CASE StartRefused \/ StartClient
    BY <2>1, EndInvKept DEF StartRefused, StartClient, promises, quiche
  <2>2. CASE StartServer
    <3>1. PICK kind : /\ Deliver(kind, <<Send("start"), Done("recv")>>, <<>>)
                      /\ phase' = IF kind = "internal" THEN "refused" ELSE "starting"
      BY <2>2 DEF StartServer
    <3>2. q = "closed" => q' = "closed"
      BY <3>1, DeliverKeepsClosed
    <3>3. QED
      BY <2>2, <3>1, <3>2, EndInvKept DEF StartServer
  <2>3. QED
    BY <1>1, <2>1, <2>2 DEF Starts
<1>2. CASE Runs
  <2>1. ASSUME NEW by \in Callers, send(by)
        PROVE  EndInv'
    BY <2>1 DEF send, EndInv, startStop
  <2>2. ASSUME NEW by \in Callers, SendThrows(by) \/ SendRefused(by) \/ OtherDone(by)
        PROVE  EndInv'
    BY <2>2, EndInvKept DEF SendThrows, SendRefused, OtherDone, startStop, promises, quiche
  <2>3. ASSUME NEW of \in {"local", "remote"}, HandleError(of)
        PROVE  EndInv'
    BY <2>3, EndInvKept DEF HandleError, startStop, quiche
  <2>4. CASE RecvDone
    <3>1. q = "closed" => q' = "closed"
      <4>1. CASE queued > 0
        <5>1. PICK kind \in Kinds : Deliver(kind, <<Send("recv")>>, Tail(agenda))
          BY <2>4, <4>1 DEF RecvDone
        <5>2. QED
          BY <5>1, DeliverKeepsClosed
      <4>2. CASE ~ (queued > 0)
        BY <2>4, <4>2 DEF RecvDone, quiche
      <4>3. QED
        BY <4>1, <4>2
    <3>2. QED
      BY <2>4, <3>1, EndInvKept DEF RecvDone, startStop
  <2>5. CASE TickDone
    BY <2>5, EndInvKept DEF TickDone, startStop, promises, quiche
  <2>6. CASE CloseDone
    BY <2>6, EndInvKept DEF CloseDone, promises, quiche
  <2>7. QED
    BY <1>2, <2>1, <2>2, <2>3, <2>4, <2>5, <2>6 DEF Runs
<1>3. CASE Resumes
  <2>1. CASE Started
    BY <2>1, EndInvKept DEF Started, promises, quiche
  <2>2. CASE StartRejected
    BY <2>2, EndInvKept DEF StartRejected, promises, quiche
  <2>3. CASE StartFailed
    BY <2>3 DEF StartFailed, EndInv, promises, quiche
  <2>4. CASE BeginStop
    BY <2>4, EndInvKept DEF BeginStop, promises, quiche
  <2>5. CASE Stopped
    BY <2>5 DEF Stopped, MayEnd, EndInv, promises, quiche
  <2>6. QED
    BY <1>3, <2>1, <2>2, <2>3, <2>4, <2>5 DEF Resumes
<1>4. CASE Verified
  <2>1. PICK by \in Callers, accepts \in BOOLEAN : VerifyDone(by, accepts)
    BY <1>4 DEF Verified
  <2>2. q = "closed" => q' = "closed"
    BY <2>1 DEF VerifyDone, Accept, Reject, CloseQuiche
  <2>3. QED
    BY <2>1, <2>2, EndInvKept DEF VerifyDone, startStop
<1>5. ASSUME NEW kind \in Kinds, recv(kind)
      PROVE  EndInv'
  <2>1. q = "closed" => q' = "closed"
    BY <1>5, DeliverKeepsClosed DEF recv, quiche
  <2>2. QED
    BY <1>5, <2>1, EndInvKept DEF recv, startStop
<1>6. CASE TickClosed
  BY <1>6 DEF TickClosed, EndInv, startStop
<1>7. CASE Tick \/ OtherSend
  BY <1>7, EndInvKept DEF Tick, OtherSend, startStop, promises, quiche
<1>8. CASE StartAborted
  BY <1>8, EndInvKept DEF StartAborted, CloseQuiche, promises
<1>9. ASSUME NEW force \in BOOLEAN, CallStop(force)
      PROVE  EndInv'
  BY <1>9, EndInvKept DEF CallStop, promises, quiche
<1>10. CASE StreamsDestroyed
  BY <1>10, EndInvKept DEF StreamsDestroyed, CloseQuiche, promises
<1>11. CASE UNCHANGED vars
  BY <1>11, EndInvKept DEF vars, startStop, promises, quiche
<1>12. QED
  BY <1>1, <1>2, <1>3, <1>4, <1>5, <1>6, <1>7, <1>8, <1>9, <1>10, <1>11 DEF Next

-----------------------------------------------------------------------------
(***************************************************************************)
(* recvLock.  Whoever holds it is a recv of the stretch that runs, or one  *)
(* whose send awaits verifyCallback, and there is one such recv at most.   *)
(***************************************************************************)

OfRecv == {Send("recv"), Done("recv")}

RecvIn(s) == \E i \in 1 .. Len(s) : s[i] \in OfRecv

RecvOnce(s) ==
    \A i, j \in 1 .. Len(s) : s[i] \in OfRecv /\ s[j] \in OfRecv => i = j

\* Before start nothing has been called, set or awaited.
Fresh == agenda = <<>> /\ ~ locked /\ timer = "none" /\ verifying = {} /\ at = "none"

LockInv ==
    /\ agenda \in Seq(Calls)
    /\ RecvOnce(agenda)
    /\ locked <=> RecvIn(agenda) \/ "recv" \in verifying
    /\ ~ (RecvIn(agenda) /\ "recv" \in verifying)
    /\ phase = "new" => Fresh

LEMMA CallFacts ==
    /\ \A by \in Callers : Send(by) \in Calls /\ Done(by) \in Calls
    /\ \A of \in {"local", "remote"} : Error(of) \in Calls /\ Error(of) \notin OfRecv
    /\ \A by \in Callers : Send(by) \in OfRecv <=> by = "recv"
    /\ \A by \in Callers : Done(by) \in OfRecv <=> by = "recv"
    /\ OfRecv \subseteq Calls
BY DEF Calls, Callers, Send, Done, Error, OfRecv

LEMMA NoCalls == <<>> \in Seq(Calls) /\ RecvOnce(<<>>) /\ ~ RecvIn(<<>>)
  BY DEF RecvOnce, RecvIn

LEMMA OneCall ==
    ASSUME NEW c \in Calls
    PROVE  /\ <<c>> \in Seq(Calls)
           /\ RecvOnce(<<c>>)
           /\ RecvIn(<<c>>) <=> c \in OfRecv
  BY DEF RecvOnce, RecvIn

\* One stretch of calls and then another.
LEMMA Concatenated ==
    ASSUME NEW a \in Seq(Calls), NEW b \in Seq(Calls)
    PROVE  /\ a \o b \in Seq(Calls)
           /\ RecvIn(a \o b) <=> RecvIn(a) \/ RecvIn(b)
           /\ RecvOnce(a) /\ RecvOnce(b) /\ ~ (RecvIn(a) /\ RecvIn(b)) => RecvOnce(a \o b)
<1> DEFINE n == Len(a)
<1> DEFINE t == a \o b
<1>1. /\ t \in Seq(Calls) /\ n \in Nat /\ Len(b) \in Nat /\ Len(t) = n + Len(b)
  OBVIOUS
<1>2. \A i \in 1 .. n : i \in 1 .. Len(t) /\ t[i] = a[i]
  OBVIOUS
<1>3. \A i \in 1 .. Len(b) : i + n \in 1 .. Len(t) /\ t[i + n] = b[i]
  OBVIOUS
<1>4. \A i \in 1 .. Len(t) : \/ i \in 1 .. n /\ t[i] = a[i]
                             \/ i - n \in 1 .. Len(b) /\ t[i] = b[i - n]
  OBVIOUS
<1>5. RecvIn(t) => RecvIn(a) \/ RecvIn(b)
  BY <1>4 DEF RecvIn
<1>6. RecvIn(a) \/ RecvIn(b) => RecvIn(t)
  BY <1>2, <1>3 DEF RecvIn
<1>7. ASSUME RecvOnce(a), RecvOnce(b), ~ (RecvIn(a) /\ RecvIn(b)),
             NEW i \in 1 .. Len(t), NEW j \in 1 .. Len(t), t[i] \in OfRecv, t[j] \in OfRecv
      PROVE  i = j
  <2> HIDE DEF t, n
  <2>1. i \in Nat /\ j \in Nat
    BY <1>1
  <2>2. CASE i \in 1 .. n /\ t[i] = a[i] /\ j \in 1 .. n /\ t[j] = a[j]
    BY <1>7, <2>2 DEF RecvOnce, n
  <2>3. CASE i - n \in 1 .. Len(b) /\ t[i] = b[i - n] /\ j - n \in 1 .. Len(b) /\ t[j] = b[j - n]
    <3>1. i - n = j - n
      BY <1>7, <2>3 DEF RecvOnce
    <3>2. QED
      BY <1>1, <2>1, <3>1
  <2>4. CASE \/ i \in 1 .. n /\ t[i] = a[i] /\ j - n \in 1 .. Len(b) /\ t[j] = b[j - n]
             \/ j \in 1 .. n /\ t[j] = a[j] /\ i - n \in 1 .. Len(b) /\ t[i] = b[i - n]
    <3>1. RecvIn(a) /\ RecvIn(b)
      BY <1>7, <2>4 DEF RecvIn, n
    <3>2. QED
      BY <1>7, <3>1
  <2>5. QED
    BY <1>4, <2>2, <2>3, <2>4
<1>8. QED
  BY <1>1, <1>5, <1>6, <1>7 DEF RecvOnce

\* A stretch of calls is its first one and the others.
LEMMA FirstAndRest ==
    ASSUME NEW s \in Seq(Calls), s # <<>>
    PROVE  /\ Tail(s) \in Seq(Calls) /\ Head(s) \in Calls
           /\ RecvIn(s) <=> Head(s) \in OfRecv \/ RecvIn(Tail(s))
           /\ RecvOnce(s) => /\ RecvOnce(Tail(s))
                             /\ ~ (Head(s) \in OfRecv /\ RecvIn(Tail(s)))
<1> DEFINE t == Tail(s)
<1>1. /\ t \in Seq(Calls) /\ Head(s) \in Calls /\ Len(s) \in Nat
      /\ 1 \in 1 .. Len(s) /\ s[1] = Head(s) /\ Len(t) = Len(s) - 1
  OBVIOUS
<1>2. \A i \in 1 .. Len(t) : i + 1 \in 1 .. Len(s) /\ t[i] = s[i + 1]
  OBVIOUS
<1>3. \A i \in 1 .. Len(s) : i # 1 => i - 1 \in 1 .. Len(t) /\ s[i] = t[i - 1]
  OBVIOUS
<1> HIDE DEF t
<1>4. RecvIn(s) => Head(s) \in OfRecv \/ RecvIn(t)
  BY <1>1, <1>3 DEF RecvIn
<1>5. Head(s) \in OfRecv \/ RecvIn(t) => RecvIn(s)
  BY <1>1, <1>2 DEF RecvIn
<1>6. ASSUME RecvOnce(s), NEW i \in 1 .. Len(t), t[i] \in OfRecv
      PROVE  Head(s) \notin OfRecv
  <2>1. i + 1 \in 1 .. Len(s) /\ s[i + 1] \in OfRecv /\ i + 1 # 1
    BY <1>2, <1>6
  <2>2. QED
    BY <1>1, <1>6, <2>1 DEF RecvOnce
<1>7. ASSUME RecvOnce(s), NEW i \in 1 .. Len(t), NEW j \in 1 .. Len(t),
             t[i] \in OfRecv, t[j] \in OfRecv
      PROVE  i = j
  <2>1. i + 1 = j + 1
    BY <1>2, <1>7 DEF RecvOnce
  <2>2. QED
    BY <2>1
<1>8. QED
  BY <1>1, <1>4, <1>5, <1>6, <1>7 DEF RecvOnce, RecvIn, t

\* The first call of the stretch is done, and the calls pre come instead.
LEMMA InsteadOfFirst ==
    ASSUME NEW s \in Seq(Calls), s # <<>>, RecvOnce(s),
           NEW pre \in Seq(Calls), RecvOnce(pre), RecvIn(pre) => Head(s) \in OfRecv
    PROVE  /\ pre \o Tail(s) \in Seq(Calls)
           /\ RecvOnce(pre \o Tail(s))
           /\ RecvIn(pre \o Tail(s)) <=> RecvIn(pre) \/ (RecvIn(s) /\ Head(s) \notin OfRecv)
<1>1. /\ Tail(s) \in Seq(Calls) /\ RecvOnce(Tail(s))
      /\ RecvIn(s) <=> Head(s) \in OfRecv \/ RecvIn(Tail(s))
      /\ ~ (Head(s) \in OfRecv /\ RecvIn(Tail(s)))
  BY FirstAndRest
<1>2. /\ pre \o Tail(s) \in Seq(Calls)
      /\ RecvIn(pre \o Tail(s)) <=> RecvIn(pre) \/ RecvIn(Tail(s))
      /\ RecvOnce(pre \o Tail(s))
  BY <1>1, Concatenated
<1>3. QED
  BY <1>1, <1>2

\* The calls of a stretch, whatever their order.
Left(s) == {s[i] : i \in 1 .. Len(s)}

LEMMA CallsDiffer ==
    /\ \A x, y : Send(x) # Done(y) /\ Send(x) # Error(y) /\ Done(x) # Error(y)
    /\ \A x, y : Send(x) = Send(y) => x = y
    /\ \A x, y : Done(x) = Done(y) => x = y
    /\ Error("local") # Error("remote")
<1>1. \A x, y : Send(x) # Done(y) /\ Send(x) # Error(y) /\ Done(x) # Error(y)
  BY DEF Send, Done, Error
<1>2. \A x, y : Send(x) = Send(y) => x = y
  <2> TAKE x, y
  <2>1. Send(x).by = x /\ Send(y).by = y
    BY DEF Send
  <2>2. QED
    BY <2>1
<1>3. \A x, y : Done(x) = Done(y) => x = y
  <2> TAKE x, y
  <2>1. Done(x).by = x /\ Done(y).by = y
    BY DEF Done
  <2>2. QED
    BY <2>1
<1>4. Error("local") # Error("remote")
  BY DEF Error
<1>5. QED
  BY <1>1, <1>2, <1>3, <1>4

LEMMA LeftOfNone == Left(<<>>) = {}
  BY DEF Left

LEMMA LeftOfOne == ASSUME NEW c PROVE Left(<<c>>) = {c}
<1>1. Len(<<c>>) = 1 /\ <<c>>[1] = c
  OBVIOUS
<1>2. 1 .. 1 = {1}
  OBVIOUS
<1>3. QED
  BY <1>1, <1>2 DEF Left

LEMMA HeadAndTail ==
    ASSUME NEW c, NEW d
    PROVE  /\ Head(<<c>>) = c /\ Tail(<<c>>) = <<>>
           /\ Head(<<c, d>>) = c /\ Tail(<<c, d>>) = <<d>>
  OBVIOUS

LEMMA LeftOfBoth ==
    ASSUME NEW a \in Seq(Calls), NEW b \in Seq(Calls)
    PROVE  Left(a \o b) = Left(a) \cup Left(b)
<1> DEFINE n == Len(a)
<1> DEFINE t == a \o b
<1>1. /\ n \in Nat /\ Len(b) \in Nat /\ Len(t) = n + Len(b)
  OBVIOUS
<1>2. \A i \in 1 .. n : i \in 1 .. Len(t) /\ t[i] = a[i]
  OBVIOUS
<1>3. \A i \in 1 .. Len(b) : i + n \in 1 .. Len(t) /\ t[i + n] = b[i]
  OBVIOUS
<1>4. \A i \in 1 .. Len(t) : \/ i \in 1 .. n /\ t[i] = a[i]
                             \/ i - n \in 1 .. Len(b) /\ t[i] = b[i - n]
  OBVIOUS
<1>5. ASSUME NEW c \in Left(t)
      PROVE  c \in Left(a) \cup Left(b)
  BY <1>4 DEF Left
<1>6. ASSUME NEW c \in Left(a) \cup Left(b)
      PROVE  c \in Left(t)
  BY <1>2, <1>3 DEF Left
<1>7. QED
  BY <1>5, <1>6

LEMMA LeftOfFirst ==
    ASSUME NEW s \in Seq(Calls), s # <<>>
    PROVE  Left(s) = {Head(s)} \cup Left(Tail(s)) /\ Tail(s) \in Seq(Calls)
<1> DEFINE h == <<Head(s)>>
<1>1. h \in Seq(Calls) /\ Tail(s) \in Seq(Calls) /\ s = h \o Tail(s)
  OBVIOUS
<1>2. Left(h) = {Head(s)}
  BY LeftOfOne
<1> HIDE DEF h
<1>3. QED
  BY <1>1, <1>2, LeftOfBoth

\* The first call of the stretch is done, and the calls pre come instead.
LEMMA LeftInstead ==
    ASSUME LockInv, agenda # <<>>, NEW pre \in Seq(Calls), agenda' = pre \o Tail(agenda)
    PROVE  /\ Left(agenda) = {Head(agenda)} \cup Left(Tail(agenda))
           /\ Left(agenda') = Left(pre) \cup Left(Tail(agenda))
  BY LeftOfFirst, LeftOfBoth DEF LockInv

\* What follows when recv is done with a datagram: a send, and in start its end too.
NextSends == {<<Send("recv")>>, <<Send("start"), Done("recv")>>}

\* recv, under the lock, leaves its own calls in front of the rest: it tells
\* of an error, or is cut short, or sends.
LEMMA DeliverCalls ==
    ASSUME NEW kind, NEW sends \in NextSends, NEW rest \in Seq(Calls),
           Deliver(kind, sends, rest)
    PROVE  \E pre \in Seq(Calls) :
              /\ agenda' = pre \o rest /\ RecvOnce(pre) /\ RecvIn(pre)
              /\ \/ /\ q = "open" /\ kind = "bad"
                    /\ Left(pre) = {Error("local"), Done("recv")}
                 \/ /\ ~ (q = "open" /\ kind = "bad")
                    /\ Left(pre) = {Done("recv")} /\ cutShort'
                 \/ /\ ~ Thrown(kind) /\ pre = sends
                    /\ \/ Left(pre) = {Send("recv")}
                       \/ Left(pre) = {Send("start"), Done("recv")}
<1>1. /\ Error("local") \in Calls /\ Error("local") \notin OfRecv
      /\ Done("recv") \in Calls /\ Done("recv") \in OfRecv
      /\ Send("recv") \in Calls /\ Send("recv") \in OfRecv
      /\ Send("start") \in Calls /\ Send("start") \notin OfRecv
  BY CallFacts DEF OfRecv, Callers
<1> DEFINE told == <<Error("local")>>
<1> DEFINE done == <<Done("recv")>>
<1> DEFINE next == <<Send("recv")>>
<1> DEFINE first == <<Send("start")>>
<1>2. /\ told \in Seq(Calls) /\ RecvOnce(told) /\ ~ RecvIn(told) /\ Left(told) = {Error("local")}
      /\ done \in Seq(Calls) /\ RecvOnce(done) /\ RecvIn(done) /\ Left(done) = {Done("recv")}
  BY <1>1, OneCall, LeftOfOne
<1>3. /\ next \in Seq(Calls) /\ RecvOnce(next) /\ RecvIn(next) /\ Left(next) = {Send("recv")}
      /\ first \in Seq(Calls) /\ RecvOnce(first) /\ ~ RecvIn(first)
      /\ Left(first) = {Send("start")}
  BY <1>1, OneCall, LeftOfOne
<1>4. sends = next \/ sends = first \o done
  BY DEF NextSends
<1>5. \/ /\ q = "open" /\ kind = "bad"
         /\ agenda' = (told \o done) \o rest
      \/ /\ ~ (q = "open" /\ kind = "bad")
         /\ agenda' = done \o rest /\ cutShort'
      \/ /\ ~ Thrown(kind) /\ agenda' = sends \o rest
  <2>1. CASE Thrown(kind) /\ kind = "bad"
    BY <2>1 DEF Deliver, Fail, Thrown
  <2>2. CASE Thrown(kind) /\ kind # "bad"
    <3>1. <<>> \o done = done
      OBVIOUS
    <3>2. /\ agenda' = (<<>> \o done) \o rest /\ kind = "internal"
          /\ cutShort' = (cutShort \/ kind = "internal")
      BY <2>2 DEF Deliver, Fail, Thrown
    <3>3. QED
      BY <3>1, <3>2
  <2>3. CASE ~ Thrown(kind)
    BY <2>3 DEF Deliver, Process, Thrown
  <2>4. QED
    BY <2>1, <2>2, <2>3
<1> HIDE DEF told, done, next, first
<1> DEFINE fails == told \o done
<1> DEFINE starts == first \o done
<1>6. /\ fails \in Seq(Calls) /\ RecvOnce(fails) /\ RecvIn(fails)
      /\ Left(fails) = {Error("local")} \cup {Done("recv")}
      /\ starts \in Seq(Calls) /\ RecvOnce(starts) /\ RecvIn(starts)
      /\ Left(starts) = {Send("start")} \cup {Done("recv")}
  <2>1. /\ told \o done \in Seq(Calls) /\ RecvOnce(told \o done) /\ RecvIn(told \o done)
        /\ Left(told \o done) = Left(told) \cup Left(done)
    BY <1>2, Concatenated, LeftOfBoth, Zenon
  <2>2. /\ first \o done \in Seq(Calls) /\ RecvOnce(first \o done) /\ RecvIn(first \o done)
        /\ Left(first \o done) = Left(first) \cup Left(done)
    BY <1>2, <1>3, Concatenated, LeftOfBoth, Zenon
  <2>3. QED
    BY <1>2, <1>3, <2>1, <2>2, Zenon
<1> HIDE DEF fails, starts
<1>7. CASE q = "open" /\ kind = "bad" /\ agenda' = fails \o rest
  BY <1>6, <1>7
<1>8. CASE ~ (q = "open" /\ kind = "bad") /\ agenda' = done \o rest /\ cutShort'
  BY <1>2, <1>8
<1>9. CASE ~ Thrown(kind) /\ agenda' = sends \o rest
  <2>1. \/ sends = next
        \/ sends = starts
    BY <1>4 DEF starts
  <2>2. QED
    BY <1>3, <1>6, <1>9, <2>1
<1>10. QED
  BY <1>5, <1>7, <1>8, <1>9 DEF fails

\* It keeps recvLock for them.
LEMMA DeliverCallsRecv ==
    ASSUME NEW kind, NEW sends \in NextSends, NEW rest \in Seq(Calls),
           RecvOnce(rest), ~ RecvIn(rest), Deliver(kind, sends, rest)
    PROVE  agenda' \in Seq(Calls) /\ RecvOnce(agenda') /\ RecvIn(agenda')
<1>1. PICK pre \in Seq(Calls) : agenda' = pre \o rest /\ RecvOnce(pre) /\ RecvIn(pre)
  BY DeliverCalls, Zenon
<1>2. /\ pre \o rest \in Seq(Calls) /\ RecvOnce(pre \o rest)
      /\ RecvIn(pre \o rest)
  BY <1>1, Concatenated, Zenon
<1>3. QED
  BY <1>1, <1>2, Zenon

\* A throw leaves the end of recv, or nothing, in front of the rest.
LEMMA UnwindCalls ==
    ASSUME NEW by \in Callers, Unwind(by)
    PROVE  \E pre \in Seq(Calls) :
              /\ agenda' = pre \o (IF agenda = <<>> THEN <<>> ELSE Tail(agenda))
              /\ RecvOnce(pre) /\ (RecvIn(pre) <=> by = "recv")
              /\ Left(pre) = IF by = "recv" THEN {Done("recv")} ELSE {}
<1>1. CASE by = "recv"
  <2> DEFINE pre == <<Done("recv")>>
  <2>1. pre \in Seq(Calls) /\ RecvOnce(pre) /\ RecvIn(pre) /\ Left(pre) = {Done("recv")}
    BY CallFacts, OneCall, LeftOfOne DEF Callers
  <2>2. agenda' = pre \o (IF agenda = <<>> THEN <<>> ELSE Tail(agenda))
    BY <1>1 DEF Unwind
  <2> HIDE DEF pre
  <2>3. QED
    BY <1>1, <2>1, <2>2
<1>2. CASE by # "recv"
  BY <1>2, NoCalls, LeftOfNone DEF Unwind
<1>3. QED
  BY <1>1, <1>2

\* The steps that neither take recvLock nor give it back.
LEMMA LockKept ==
    ASSUME LockInv, phase' # "new", locked' = locked,
           agenda' \in Seq(Calls), RecvOnce(agenda'),
           \/ /\ RecvIn(agenda') <=> RecvIn(agenda)
              /\ "recv" \in verifying' <=> "recv" \in verifying
           \/ /\ RecvIn(agenda') <=> "recv" \in verifying
              /\ "recv" \in verifying' <=> RecvIn(agenda)
    PROVE  LockInv'
  BY DEF LockInv

\* The handlers that start where none runs call nothing of recv's.
LEMMA LockKeptFromQuiet ==
    ASSUME LockInv, agenda = <<>>, phase' # "new", locked' = locked, verifying' = verifying,
           \/ agenda' = <<>>
           \/ \E c \in Calls : c \notin OfRecv /\ agenda' = <<c>>
    PROVE  LockInv'
<1>1. agenda' \in Seq(Calls) /\ RecvOnce(agenda') /\ ~ RecvIn(agenda')
  BY NoCalls, OneCall
<1>2. QED
  BY <1>1, NoCalls, LockKept

\* One call of the stretch is done, and others that are no recv's come instead.
LEMMA LockKeptInStretch ==
    ASSUME LockInv, agenda # <<>>, Head(agenda) \notin OfRecv,
           phase' # "new", locked' = locked, verifying' = verifying,
           \/ agenda' = Tail(agenda)
           \/ \E c \in Calls : c \notin OfRecv /\ agenda' = <<c>> \o Tail(agenda)
    PROVE  LockInv'
<1>1. agenda \in Seq(Calls) /\ RecvOnce(agenda)
  BY DEF LockInv
<1>2. /\ agenda' \in Seq(Calls) /\ RecvOnce(agenda')
      /\ RecvIn(agenda') <=> RecvIn(agenda)
  <2>1. CASE agenda' = Tail(agenda)
    BY <1>1, <2>1, FirstAndRest
  <2>2. ASSUME NEW c \in Calls, c \notin OfRecv, agenda' = <<c>> \o Tail(agenda)
        PROVE  /\ agenda' \in Seq(Calls) /\ RecvOnce(agenda')
               /\ RecvIn(agenda') <=> RecvIn(agenda)
    <3> DEFINE pre == <<c>>
    <3>1. pre \in Seq(Calls) /\ RecvOnce(pre) /\ ~ RecvIn(pre)
      BY <2>2, OneCall
    <3> HIDE DEF pre
    <3>2. agenda' = pre \o Tail(agenda)
      BY <2>2 DEF pre
    <3>3. QED
      BY <1>1, <3>1, <3>2, InsteadOfFirst
  <2>3. QED
    BY <2>1, <2>2
<1>3. QED
  BY <1>1, <1>2, LockKept

\* The errors that send may dispatch before it is done.
LEMMA ErrorsAreNotRecv ==
    ASSUME NEW c, c = <<>> \/ c = <<Error("remote")>>
    PROVE  c \in Seq(Calls) /\ RecvOnce(c) /\ ~ RecvIn(c)
<1>1. Error("remote") \in Calls /\ Error("remote") \notin OfRecv
  BY CallFacts
<1>2. QED
  BY <1>1, NoCalls, OneCall

\* send goes on to its end, or awaits verifyCallback: recv holds the lock.
LEMMA SendKeepsLock ==
    ASSUME LockInv, NEW by \in Callers, send(by)
    PROVE  LockInv'
<1>1. /\ agenda \in Seq(Calls) /\ RecvOnce(agenda) /\ agenda # <<>> /\ Head(agenda) = Send(by)
      /\ phase' # "new" /\ locked' = locked
      /\ Head(agenda) \in OfRecv <=> by = "recv"
  BY CallFacts DEF LockInv, Fresh, send, startStop
<1>2. CASE verifying' = verifying \cup {by} /\ agenda' = Tail(agenda)
  <2>1. /\ agenda' \in Seq(Calls) /\ RecvOnce(agenda')
        /\ RecvIn(agenda) <=> by = "recv" \/ RecvIn(agenda')
        /\ ~ (by = "recv" /\ RecvIn(agenda'))
    BY <1>1, <1>2, FirstAndRest
  <2>2. CASE by = "recv"
    <3>1. "recv" \notin verifying
      BY <2>1, <2>2 DEF LockInv
    <3>2. QED
      BY <1>1, <1>2, <2>1, <2>2, <3>1, LockKept
  <2>3. CASE by # "recv"
    BY <1>1, <1>2, <2>1, <2>3, LockKept
  <2>4. QED
    BY <2>2, <2>3
<1>3. ASSUME NEW idle, idle = <<>> \/ idle = <<Error("remote")>>,
             NEW peer, peer = <<>> \/ peer = <<Error("remote")>>,
             agenda' = idle \o peer \o <<Done(by)>> \o Tail(agenda), verifying' = verifying
      PROVE  LockInv'
  <2> DEFINE errors == idle \o peer
  <2> DEFINE done == <<Done(by)>>
  <2>1. /\ idle \in Seq(Calls) /\ RecvOnce(idle) /\ ~ RecvIn(idle)
        /\ peer \in Seq(Calls) /\ RecvOnce(peer) /\ ~ RecvIn(peer)
    BY <1>3, ErrorsAreNotRecv
  <2>2. errors \in Seq(Calls) /\ RecvOnce(errors) /\ ~ RecvIn(errors)
    BY <2>1, Concatenated
  <2>3. done \in Seq(Calls) /\ RecvOnce(done) /\ (RecvIn(done) <=> by = "recv")
    BY CallFacts, OneCall
  <2>4. agenda' = (errors \o done) \o Tail(agenda)
    BY <1>3
  <2> HIDE DEF errors, done
  <2> DEFINE pre == errors \o done
  <2>5. pre \in Seq(Calls) /\ RecvOnce(pre) /\ (RecvIn(pre) <=> by = "recv")
    BY <2>2, <2>3, Concatenated
  <2> HIDE DEF pre
  <2>6. /\ pre \o Tail(agenda) \in Seq(Calls) /\ RecvOnce(pre \o Tail(agenda))
        /\ RecvIn(pre \o Tail(agenda)) <=> by = "recv" \/ RecvIn(agenda)
    BY <1>1, <2>5, InsteadOfFirst
  <2>7. by = "recv" => RecvIn(agenda)
    BY <1>1, FirstAndRest
  <2>8. QED
    BY <1>1, <1>3, <2>4, <2>6, <2>7, LockKept DEF pre
<1>4. QED
  <2> DEFINE flushed == IF q = "closing" THEN "draining" ELSE q
  <2> DEFINE idle == IF flushed = "closed" /\ timedOut THEN <<Error("remote")>> ELSE <<>>
  <2> DEFINE peer == IF peerError /\ phase # "stopping" THEN <<Error("remote")>> ELSE <<>>
  <2>1. /\ idle = <<>> \/ idle = <<Error("remote")>>
        /\ peer = <<>> \/ peer = <<Error("remote")>>
    OBVIOUS
  <2>2. \/ verifying' = verifying \cup {by} /\ agenda' = Tail(agenda)
        \/ /\ agenda' = idle \o peer \o <<Done(by)>> \o Tail(agenda)
           /\ verifying' = verifying
    BY DEF send
  <2> HIDE DEF idle, peer
  <2>3. QED
    BY <1>2, <1>3, <2>1, <2>2

\* recv is done, and the lock is free or the next recv's.
LEMMA RecvDoneKeepsLock ==
    ASSUME LockInv, RecvDone
    PROVE  LockInv'
<1>1. /\ agenda \in Seq(Calls) /\ RecvOnce(agenda) /\ agenda # <<>>
      /\ Head(agenda) \in OfRecv
      /\ phase' # "new" /\ verifying' = verifying
  BY CallFacts DEF LockInv, Fresh, RecvDone, startStop, Callers
<1>2. /\ Tail(agenda) \in Seq(Calls) /\ RecvOnce(Tail(agenda))
      /\ RecvIn(agenda) /\ ~ RecvIn(Tail(agenda))
  BY <1>1, FirstAndRest
<1>3. locked /\ "recv" \notin verifying
  BY <1>2 DEF LockInv
<1>4. CASE queued > 0
  <2>1. PICK kind \in Kinds : Deliver(kind, <<Send("recv")>>, Tail(agenda))
    BY <1>4 DEF RecvDone
  <2>2. agenda' \in Seq(Calls) /\ RecvOnce(agenda') /\ RecvIn(agenda')
    BY <1>2, <2>1, DeliverCallsRecv DEF NextSends
  <2>3. locked' = locked
    BY <1>4 DEF RecvDone
  <2>4. QED
    BY <1>1, <1>2, <2>2, <2>3, LockKept
<1>5. CASE ~ (queued > 0)
  <2>1. locked' = FALSE /\ agenda' = Tail(agenda)
    BY <1>5 DEF RecvDone
  <2>2. QED
    BY <1>1, <1>2, <1>3, <2>1 DEF LockInv
<1>6. QED
  BY <1>4, <1>5

\* A recv that finds the lock free takes it for its own call.
LEMMA RecvTakesLock ==
    ASSUME LockInv, agenda = <<>>, ~ locked, NEW kind, NEW sends \in NextSends,
           Deliver(kind, sends, <<>>), locked' = TRUE, verifying' = verifying,
           phase' # "new"
    PROVE  LockInv'
<1>1. agenda' \in Seq(Calls) /\ RecvOnce(agenda') /\ RecvIn(agenda')
  BY NoCalls, DeliverCallsRecv
<1>2. "recv" \notin verifying
  BY DEF LockInv
<1>3. QED
  BY <1>1, <1>2 DEF LockInv

\* verifyCallback answers: a recv that awaited it goes on, with the lock.
LEMMA VerifyDoneKeepsLock ==
    ASSUME LockInv, NEW by \in Callers, NEW accepts \in BOOLEAN, VerifyDone(by, accepts)
    PROVE  LockInv'
<1>1. /\ agenda = <<>> /\ by \in verifying /\ verifying' = verifying \ {by}
      /\ phase' # "new" /\ locked' = locked
  BY DEF VerifyDone, LockInv, Fresh, startStop
<1> DEFINE done == <<Done(by)>>
<1>2. done \in Seq(Calls) /\ RecvOnce(done) /\ (RecvIn(done) <=> by = "recv")
  BY CallFacts, OneCall
<1>3. ASSUME NEW of \in {"local", "remote"}, agenda' = <<Error(of), Done(by)>>
      PROVE  agenda' \in Seq(Calls) /\ RecvOnce(agenda') /\ (RecvIn(agenda') <=> by = "recv")
  <2> DEFINE told == <<Error(of)>>
  <2>1. told \in Seq(Calls) /\ RecvOnce(told) /\ ~ RecvIn(told)
    BY CallFacts, OneCall
  <2>2. agenda' = told \o done
    BY <1>3
  <2> HIDE DEF told, done
  <2>3. QED
    BY <1>2, <2>1, <2>2, Concatenated
<1>4. ASSUME Unwind(by)
      PROVE  agenda' \in Seq(Calls) /\ RecvOnce(agenda') /\ (RecvIn(agenda') <=> by = "recv")
  <2>1. PICK pre \in Seq(Calls) : agenda' = pre \o <<>> /\ RecvOnce(pre)
                                 /\ (RecvIn(pre) <=> by = "recv")
    BY <1>1, <1>4, UnwindCalls
  <2>2. QED
    BY <2>1
<1>5. \/ agenda' = done
      \/ \E of \in {"local", "remote"} : agenda' = <<Error(of), Done(by)>>
      \/ Unwind(by)
  BY DEF VerifyDone, Accept, Reject
<1>6. agenda' \in Seq(Calls) /\ RecvOnce(agenda') /\ (RecvIn(agenda') <=> by = "recv")
  BY <1>2, <1>3, <1>4, <1>5
<1>7. ~ RecvIn(agenda)
  BY <1>1, NoCalls
<1>8. QED
  BY <1>1, <1>6, <1>7, LockKept DEF LockInv

\* Every step keeps the invariant of recvLock.
LEMMA LockInvStep == LockInv /\ [Next]_vars => LockInv'
<1> SUFFICES ASSUME LockInv, [Next]_vars
             PROVE  LockInv'
  OBVIOUS
<1>1. CASE Starts
  <2>1. phase = "new" /\ agenda = <<>> /\ ~ locked /\ phase' # "new" /\ verifying' = verifying
    BY <1>1 DEF Starts, StartRefused, StartClient, StartServer, work, LockInv, Fresh
  <2>2. CASE StartRefused
    BY <2>1, <2>2, LockKeptFromQuiet DEF StartRefused, work
  <2>3. CASE StartClient
    <3>1. Send("start") \in Calls /\ Send("start") \notin OfRecv
      BY CallFacts DEF Callers
    <3>2. QED
      BY <2>1, <2>3, <3>1, LockKeptFromQuiet DEF StartClient
  <2>4. CASE StartServer
    <3>1. PICK kind : Deliver(kind, <<Send("start"), Done("recv")>>, <<>>)
      BY <2>4 DEF StartServer
    <3>2. QED
      BY <2>1, <2>4, <3>1, RecvTakesLock DEF StartServer, NextSends
  <2>5. QED
    BY <1>1, <2>2, <2>3, <2>4 DEF Starts
<1>2. CASE Runs
  <2>1. ASSUME NEW by \in Callers, send(by)
        PROVE  LockInv'
    BY <2>1, SendKeepsLock
  <2>2. ASSUME NEW by \in Callers, SendRefused(by) \/ SendThrows(by)
        PROVE  LockInv'
    <3>1. /\ agenda \in Seq(Calls) /\ RecvOnce(agenda) /\ agenda # <<>>
          /\ Head(agenda) \in OfRecv <=> by = "recv"
          /\ phase' # "new" /\ locked' = locked /\ verifying' = verifying
      BY <2>2, CallFacts DEF LockInv, Fresh, SendRefused, SendThrows, startStop
    <3>2. PICK pre \in Seq(Calls) : /\ agenda' = pre \o Tail(agenda)
                                    /\ RecvOnce(pre) /\ (RecvIn(pre) <=> by = "recv")
      <4>1. CASE SendRefused(by)
        <5>1. Done(by) \in Calls /\ (Done(by) \in OfRecv <=> by = "recv")
          BY CallFacts
        <5>2. <<Done(by)>> \in Seq(Calls) /\ RecvOnce(<<Done(by)>>)
              /\ (RecvIn(<<Done(by)>>) <=> by = "recv")
          BY <5>1, OneCall
        <5>3. agenda' = <<Done(by)>> \o Tail(agenda)
          BY <4>1 DEF SendRefused
        <5>4. QED
          BY <5>2, <5>3
      <4>2. CASE SendThrows(by)
        BY <3>1, <4>2, UnwindCalls DEF SendThrows
      <4>3. QED
        BY <2>2, <4>1, <4>2
    <3>3. /\ agenda' \in Seq(Calls) /\ RecvOnce(agenda')
          /\ RecvIn(agenda') <=> by = "recv" \/ (RecvIn(agenda) /\ by # "recv")
      BY <3>1, <3>2, InsteadOfFirst
    <3>4. by = "recv" => RecvIn(agenda)
      BY <3>1, FirstAndRest
    <3>5. QED
      BY <3>1, <3>3, <3>4, LockKept
  <2>3. ASSUME NEW by \in Callers, OtherDone(by)
        PROVE  LockInv'
    <3>1. Head(agenda) \notin OfRecv /\ phase' # "new"
      BY <2>3, CallFacts DEF OtherDone, startStop, LockInv, Fresh
    <3>2. QED
      BY <2>3, <3>1, LockKeptInStretch DEF OtherDone, startStop
  <2>4. ASSUME NEW of \in {"local", "remote"}, HandleError(of)
        PROVE  LockInv'
    <3>1. Head(agenda) \notin OfRecv /\ phase' # "new"
      BY <2>4, CallFacts DEF HandleError, startStop, LockInv, Fresh
    <3>2. /\ Send("close") \in Calls /\ Send("close") \notin OfRecv
          /\ Done("close") \in Calls /\ Done("close") \notin OfRecv
      BY CallFacts DEF Callers
    <3>3. \/ agenda' = Tail(agenda)
          \/ agenda' = <<Send("close")>> \o Tail(agenda)
          \/ agenda' = <<Done("close")>> \o Tail(agenda)
      BY <2>4 DEF HandleError, AfterClose
    <3>4. QED
      BY <2>4, <3>1, <3>2, <3>3, LockKeptInStretch DEF HandleError, startStop
  <2>5. CASE RecvDone
    BY <2>5, RecvDoneKeepsLock
  <2>6. CASE TickDone
    <3>1. Head(agenda) \notin OfRecv /\ phase' # "new"
      BY <2>6, CallFacts DEF TickDone, Callers, startStop, LockInv, Fresh
    <3>2. QED
      BY <2>6, <3>1, LockKeptInStretch DEF TickDone, startStop
  <2>7. CASE CloseDone
    <3>1. Head(agenda) \notin OfRecv /\ phase' # "new"
      BY <2>7, CallFacts DEF CloseDone, Callers, LockInv, Fresh
    <3>2. QED
      BY <2>7, <3>1, LockKeptInStretch DEF CloseDone
  <2>8. QED
    BY <1>2, <2>1, <2>2, <2>3, <2>4, <2>5, <2>6, <2>7 DEF Runs
<1>3. CASE Resumes
  <2>1. /\ agenda = <<>> /\ agenda' = agenda /\ locked' = locked /\ verifying' = verifying
        /\ phase' # "new"
    BY <1>3 DEF Resumes, Started, StartRejected, StartFailed, BeginStop, Stopped, work,
                LockInv, Fresh
  <2>2. QED
    BY <2>1, LockKeptFromQuiet
<1>4. CASE Verified
  BY <1>4, VerifyDoneKeepsLock DEF Verified
<1>5. ASSUME NEW kind \in Kinds, recv(kind)
      PROVE  LockInv'
  <2>1. agenda = <<>> /\ phase' # "new" /\ verifying' = verifying
    BY <1>5 DEF recv, Quiet, startStop
  <2>2. CASE locked
    BY <1>5, <2>1, <2>2, LockKeptFromQuiet DEF recv
  <2>3. CASE ~ locked
    BY <1>5, <2>1, <2>3, RecvTakesLock DEF recv, NextSends
  <2>4. QED
    BY <2>2, <2>3
<1>6. CASE TickClosed \/ Tick \/ OtherSend \/ StartAborted \/ StreamsDestroyed
  <2>1. /\ agenda = <<>> /\ locked' = locked /\ verifying' = verifying
        /\ phase' # "new"
    BY <1>6 DEF TickClosed, Tick, OtherSend, StartAborted, StreamsDestroyed, Quiet,
                startStop, LockInv, Fresh
  <2>2. /\ \A of \in {"local", "remote"} : Error(of) \in Calls \ OfRecv
        /\ Send("timer") \in Calls \ OfRecv
        /\ Send("other") \in Calls \ OfRecv
    BY CallFacts DEF Callers
  <2>3. \/ agenda' = <<>>
        \/ \E c \in Calls : c \notin OfRecv /\ agenda' = <<c>>
    BY <1>6, <2>2 DEF TickClosed, Tick, OtherSend, StartAborted, StreamsDestroyed
  <2>4. QED
    BY <2>1, <2>3, LockKeptFromQuiet
<1>7. ASSUME NEW force \in BOOLEAN, CallStop(force)
      PROVE  LockInv'
  <2>1. /\ agenda = <<>> /\ agenda' = agenda /\ locked' = locked /\ verifying' = verifying
        /\ phase' # "new"
    BY <1>7 DEF CallStop, Quiet, work
  <2>2. QED
    BY <2>1, LockKeptFromQuiet
<1>8. CASE UNCHANGED vars
  BY <1>8 DEF vars, startStop, work, LockInv, Fresh
<1>9. QED
  BY <1>1, <1>2, <1>3, <1>4, <1>5, <1>6, <1>7, <1>8 DEF Next

(***************************************************************************)
(* Between handlers recvLock is held exactly while a recv awaits the       *)
(* verification of the peer: on no path, error or not, does recv end and   *)
(* leave the datagrams behind it waiting.                                  *)
(***************************************************************************)
THEOREM LockIsReleased == Spec => []LockHeldToVerify
<1>1. Init => LockInv
  BY NoCalls DEF Init, LockInv, Fresh
<1>2. LockInv /\ [Next]_vars => LockInv'
  BY LockInvStep
<1>3. LockInv => LockHeldToVerify
  BY NoCalls DEF LockInv, LockHeldToVerify
<1>4. QED
  BY <1>1, <1>2, <1>3, PTL DEF Spec

-----------------------------------------------------------------------------
(***************************************************************************)
(* The closing of a connection.  The parts of the invariant say of a       *)
(* handler at any of its calls what ClosingIsWatched says between the      *)
(* handlers: which of the calls that are left flushes the close, resolves  *)
(* closedP or sets up the timer.                                           *)
(***************************************************************************)

Sends(cs) == \E by \in Callers : Send(by) \in cs

\* An error that closes, or its handler, comes only after the close.
Told(cs) == closeHeard \/ Error("local") \in cs => q # "open"

\* The errors that do not close are of a connection the peer or time closed.
Remote(cs) == peerError \/ Error("remote") \in cs => q = "draining" \/ closedP

\* A timer whose handler runs: the handler is not over.
Settles(cs) ==
    timer = "settling" => Send("timer") \in cs \/ Done("timer") \in cs \/ "timer" \in verifying

\* What was closed here is still to be sent, by a call or the handler of the
\* error, unless a throw took that away.
Flushes(cs) ==
    q \in {"closing", "closed"} /\ ~ cutShort =>
        closedP \/ Sends(cs) \/ (~ closeHeard /\ Error("local") \in cs)

\* What drains has a timer, or a call that will set it up, unless a throw took
\* that away.
Drains(cs) ==
    q = "draining" /\ ~ cutShort =>
        Sends(cs) \/ Done("timer") \in cs \/ timer = "armed" \/ "timer" \in verifying

Parts(cs) == Told(cs) /\ Remote(cs) /\ Settles(cs) /\ Flushes(cs) /\ Drains(cs)

WatchInv ==
    /\ timer \in {"none", "armed", "settling", "settled"}
    /\ q \in {"open", "closing", "draining", "closed"}
    /\ Parts(Left(agenda))

\* What recv does with a datagram: its send or its error takes care of it.
LEMMA DeliverWatches ==
    ASSUME WatchInv, NEW kind \in Kinds, NEW sends \in NextSends, NEW rest \in Seq(Calls),
           Deliver(kind, sends, rest),
           Left(agenda) \subseteq {Done("recv")} \cup Left(rest), Left(rest) \subseteq Left(agenda),
           UNCHANGED <<closedP, closeHeard, timer, verifying>>
    PROVE  WatchInv'
<1> DEFINE Rest == Left(rest)
<1> USE CallsDiffer
<1>1. PICK pre \in Seq(Calls) :
         /\ agenda' = pre \o rest /\ RecvOnce(pre) /\ RecvIn(pre)
         /\ \/ /\ q = "open" /\ kind = "bad"
               /\ Left(pre) = {Error("local"), Done("recv")}
            \/ /\ ~ (q = "open" /\ kind = "bad")
               /\ Left(pre) = {Done("recv")} /\ cutShort'
            \/ /\ ~ Thrown(kind) /\ pre = sends
               /\ \/ Left(pre) = {Send("recv")}
                  \/ Left(pre) = {Send("start"), Done("recv")}
  BY DeliverCalls, Zenon
<1>2. Left(agenda') = Left(pre) \cup Rest
  BY <1>1, LeftOfBoth
<1>3. CASE q = "open" /\ kind = "bad"
  <2>0. Left(pre) = {Error("local"), Done("recv")}
    BY <1>1, <1>3, Zenon DEF Thrown
  <2>1. Left(agenda') = {Error("local"), Done("recv")} \cup Rest
    BY <1>2, <2>0
  <2>2. q' \in {"closing", "closed"} /\ ~ peerError'
    BY <1>3 DEF Deliver, Feed, CloseQuiche
  <2>3. ~ closeHeard /\ Error("remote") \in Rest => closedP
    BY <1>3 DEF WatchInv, Parts, Told, Remote
  <2>4. Parts(Left(agenda))'
    BY <1>3, <2>1, <2>2, <2>3 DEF WatchInv, Parts, Told, Remote, Settles, Flushes, Drains
  <2>5. QED
    BY <2>2, <2>4 DEF WatchInv
<1>4. CASE ~ (q = "open" /\ kind = "bad")
  <2>1. \/ Left(pre) = {Done("recv")} /\ cutShort'
        \/ Left(pre) = {Send("recv")}
        \/ Left(pre) = {Send("start"), Done("recv")}
    BY <1>1, <1>4
  <2>2. /\ Error("local") \notin Left(pre) /\ Error("remote") \notin Left(pre)
        /\ cutShort' \/ Sends(Left(pre))
    BY <2>1 DEF Sends, Callers
  <2>3. cutShort' \/ Sends(Left(agenda'))
    BY <1>2, <2>2 DEF Sends
  <2>4. \/ q # "open" /\ q' = q /\ peerError' = peerError
        \/ q = "open" /\ q' = q /\ peerError' = peerError
        \/ q = "open" /\ q' = "open" /\ ~ peerError'
        \/ q = "open" /\ q' = "draining"
    BY <1>4 DEF Deliver, Feed, quiche
  <2>5. Told(Left(agenda))' /\ Remote(Left(agenda))' /\ Settles(Left(agenda))'
    BY <1>2, <2>2, <2>4 DEF WatchInv, Parts, Told, Remote, Settles
  <2>6. Flushes(Left(agenda))' /\ Drains(Left(agenda))'
    BY <2>3 DEF Flushes, Drains
  <2>7. q' \in {"open", "closing", "draining", "closed"}
    BY <2>4 DEF WatchInv
  <2>8. QED
    BY <2>5, <2>6, <2>7 DEF WatchInv, Parts
<1>5. QED
  BY <1>3, <1>4

\* send flushes, sets the timer and resolves closedP.
LEMMA SendWatches ==
    ASSUME LockInv, EndInv, WatchInv, NEW by \in Callers, send(by)
    PROVE  WatchInv'
<1> USE CallsDiffer
<1>1. /\ agenda \in Seq(Calls) /\ agenda # <<>> /\ Head(agenda) = Send(by)
      /\ closeHeard' = closeHeard /\ peerError' = peerError
    BY DEF LockInv, send
<1> DEFINE T == Left(Tail(agenda))
<1>2. Left(agenda) = {Send(by)} \cup T
  BY <1>1, LeftOfFirst
<1>3. /\ q' = IF q = "closing" THEN "draining" ELSE q
      /\ closedP' = (closedP \/ q' = "closed")
      /\ q' = "draining" => timer' \in {"armed", "settling"}
      /\ timer' = "settling" => timer = "settling"
      /\ timer' \in {"none", "armed", "settling", "settled"}
  BY DEF send, NoTimeout, TimerAfterSend, WatchInv
<1>4. CASE q = "open" /\ verifying' = verifying \cup {by} /\ agenda' = Tail(agenda)
  <2>1. Left(agenda') = T
    BY <1>4
  <2>2. Parts(Left(agenda))'
    BY <1>1, <1>2, <1>3, <1>4, <2>1
       DEF WatchInv, Parts, Told, Remote, Settles, Flushes, Drains
  <2>3. QED
    BY <1>3, <1>4, <2>2 DEF WatchInv
<1>5. ASSUME NEW errors \in Seq(Calls), Left(errors) \subseteq {Error("remote")},
             Error("remote") \in Left(errors) => peerError \/ closedP',
             agenda' = (errors \o <<Done(by)>>) \o Tail(agenda), verifying' = verifying
      PROVE  WatchInv'
  <2> DEFINE done == <<Done(by)>>
  <2>1. done \in Seq(Calls) /\ Left(done) = {Done(by)}
    BY CallFacts, LeftOfOne
  <2>2. agenda' = (errors \o done) \o Tail(agenda)
    BY <1>5
  <2> HIDE DEF done
  <2> DEFINE pre == errors \o done
  <2>3. pre \in Seq(Calls) /\ Left(pre) = Left(errors) \cup {Done(by)}
    BY <2>1, Concatenated, LeftOfBoth
  <2> HIDE DEF pre
  <2>4. agenda' = pre \o Tail(agenda)
    BY <2>2 DEF pre
  <2>5. Left(agenda') = Left(errors) \cup {Done(by)} \cup T
    BY <1>1, <2>3, <2>4, LeftInstead
  <2> HIDE DEF T
  <2>6. Told(Left(agenda))'
    BY <1>1, <1>2, <1>3, <1>5, <2>5 DEF WatchInv, Parts, Told
  <2>7. Remote(Left(agenda))'
    BY <1>1, <1>2, <1>3, <1>5, <2>5 DEF WatchInv, Parts, Remote, EndInv
  <2>8. Settles(Left(agenda))'
    BY <1>1, <1>2, <1>3, <1>5, <2>5 DEF WatchInv, Parts, Settles
  <2>9. Flushes(Left(agenda))'
    BY <1>1, <1>2, <1>3, <1>5, <2>5 DEF Flushes
  <2>10. Drains(Left(agenda))'
    BY <1>3, <2>8 DEF Drains, Settles, Sends, Callers
  <2>11. QED
    BY <1>3, <2>6, <2>7, <2>8, <2>9, <2>10 DEF WatchInv, Parts
<1>6. QED
  <2> DEFINE flushed == IF q = "closing" THEN "draining" ELSE q
  <2> DEFINE idle == IF flushed = "closed" /\ timedOut THEN <<Error("remote")>> ELSE <<>>
  <2> DEFINE peer == IF peerError /\ phase # "stopping" THEN <<Error("remote")>> ELSE <<>>
  <2>1. /\ idle \in Seq(Calls) /\ Left(idle) \subseteq {Error("remote")}
        /\ peer \in Seq(Calls) /\ Left(peer) \subseteq {Error("remote")}
        /\ Error("remote") \in Left(idle) => flushed = "closed"
        /\ Error("remote") \in Left(peer) => peerError
    BY CallFacts, LeftOfNone, LeftOfOne, NoCalls, OneCall
  <2>2. \/ q' = "open" /\ verifying' = verifying \cup {by} /\ agenda' = Tail(agenda)
        \/ /\ agenda' = idle \o peer \o <<Done(by)>> \o Tail(agenda)
           /\ verifying' = verifying
    BY DEF send, MustVerify
  <2>3. q' = flushed
    BY DEF send
  <2> HIDE DEF idle, peer
  <2> DEFINE errors == idle \o peer
  <2>4. /\ errors \in Seq(Calls) /\ Left(errors) \subseteq {Error("remote")}
        /\ Error("remote") \in Left(errors) => flushed = "closed" \/ peerError
    BY <2>1, Concatenated, LeftOfBoth
  <2>5. CASE agenda' = idle \o peer \o <<Done(by)>> \o Tail(agenda) /\ verifying' = verifying
    <3>1. agenda' = (errors \o <<Done(by)>>) \o Tail(agenda)
      BY <2>5
    <3> HIDE DEF errors
    <3>2. QED
      BY <1>3, <1>5, <2>3, <2>4, <2>5, <3>1
  <2>6. CASE q' = "open" /\ verifying' = verifying \cup {by} /\ agenda' = Tail(agenda)
    BY <1>3, <1>4, <2>6
  <2>7. QED
    BY <2>2, <2>5, <2>6

\* A call ends that was neither a send nor the timer's handler, nor an error.
LEMMA DoneWatches ==
    ASSUME LockInv, WatchInv, agenda # <<>>, NEW by, by # "timer", Head(agenda) = Done(by),
           agenda' = Tail(agenda),
           UNCHANGED <<q, peerError, closedP, closeHeard, cutShort, timer, verifying>>
    PROVE  WatchInv'
<1> DEFINE T == Left(Tail(agenda))
<1>1. Left(agenda) = {Done(by)} \cup T /\ Left(agenda') = T
  BY LeftOfFirst DEF LockInv
<1> HIDE DEF T
<1>2. /\ Send("timer") # Done(by) /\ Done("timer") # Done(by) /\ Error("local") # Done(by)
      /\ \A c \in Callers : Send(c) # Done(by)
  BY CallsDiffer
<1>3. Parts(Left(agenda))'
  BY <1>1, <1>2 DEF WatchInv, Parts, Told, Remote, Settles, Flushes, Drains, Sends
<1>4. QED
  BY <1>3 DEF WatchInv

\* A handler starts, with quiche as it was: it has nothing to take care of.
LEMMA QuietWatches ==
    ASSUME WatchInv, agenda = <<>>,
           \/ agenda' = <<>>
           \/ \E by \in Callers : agenda' = <<Send(by)>>,
           UNCHANGED <<q, peerError, closedP, closeHeard, cutShort, verifying>>,
           \/ timer' = timer
           \/ /\ timer' = "settling" /\ agenda' = <<Send("timer")>>
              /\ q \in {"open", "closing"}
    PROVE  WatchInv'
<1>1. Left(agenda) = {}
  BY LeftOfNone
<1>2. /\ Error("local") \notin Left(agenda') /\ Error("remote") \notin Left(agenda')
      /\ agenda' = <<Send("timer")>> => Send("timer") \in Left(agenda')
      /\ agenda' = <<>> => Left(agenda') = {}
  BY LeftOfNone, LeftOfOne, CallsDiffer
<1>3. Parts(Left(agenda))'
  BY <1>1, <1>2 DEF WatchInv, Parts, Told, Remote, Settles, Flushes, Drains, Sends
<1>4. QED
  BY <1>3 DEF WatchInv

\* quiche is closed here, and the error dispatched, unless it is closing already.
LEMMA CloseWatches ==
    ASSUME EndInv, WatchInv, agenda = <<>>, CloseQuiche,
           \/ agenda' = <<Error("local")>>
           \/ agenda' = <<>> /\ q # "open",
           UNCHANGED <<peerError, closedP, closeHeard, cutShort, timer, verifying>>
    PROVE  WatchInv'
<1>1. Left(agenda) = {}
  BY LeftOfNone
<1>2. /\ Left(agenda') = {Error("local")} \/ (Left(agenda') = {} /\ q # "open")
      /\ q = "open" => Error("local") \in Left(agenda')
      /\ Error("remote") \notin Left(agenda')
  BY LeftOfNone, LeftOfOne, CallsDiffer
<1>3. IF q = "open" THEN q' \in {"closing", "closed"} ELSE q' = q
  BY DEF CloseQuiche
<1>4. Parts(Left(agenda))'
  BY <1>1, <1>2, <1>3
     DEF WatchInv, Parts, Told, Remote, Settles, Flushes, Drains, Sends, EndInv
<1>5. QED
  BY <1>3, <1>4 DEF WatchInv

\* The handler of an error has the close flushed, or is of one that is known.
LEMMA ErrorWatches ==
    ASSUME LockInv, EndInv, WatchInv, NEW of \in {"local", "remote"}, HandleError(of)
    PROVE  WatchInv'
<1> DEFINE T == Left(Tail(agenda))
<1>1. /\ agenda # <<>> /\ Head(agenda) = Error(of) /\ closeHeard'
      /\ UNCHANGED <<q, peerError, closedP, cutShort, timer, verifying>>
  BY DEF HandleError, quiche
<1>2. Left(agenda) = {Error(of)} \cup T /\ Tail(agenda) \in Seq(Calls)
  BY <1>1, LeftOfFirst DEF LockInv
<1>3. q # "open"
  BY <1>2 DEF WatchInv, Parts, Told, Remote, EndInv
<1>4. /\ Send("timer") # Error(of) /\ Done("timer") # Error(of)
      /\ \A by \in Callers : Send(by) # Error(of)
  BY CallsDiffer
<1>5. CASE closeHeard
  <2>1. Left(agenda') = T
    BY <1>5 DEF HandleError
  <2> HIDE DEF T
  <2>2. Parts(Left(agenda))'
    BY <1>1, <1>2, <1>3, <1>4, <1>5, <2>1
       DEF WatchInv, Parts, Told, Remote, Settles, Flushes, Drains, Sends
  <2>3. QED
    BY <1>1, <2>2 DEF WatchInv
<1>6. ASSUME NEW c \in Calls, agenda' = <<c>> \o Tail(agenda),
             c # Error("remote"), of = "remote" \/ \E by \in Callers : c = Send(by)
      PROVE  WatchInv'
  <2> DEFINE pre == <<c>>
  <2>1. pre \in Seq(Calls) /\ Left(pre) = {c}
    BY LeftOfOne
  <2> HIDE DEF pre
  <2>2. Left(agenda') = {c} \cup T
    BY <1>2, <1>6, <2>1, LeftOfBoth DEF pre
  <2>3. of = "remote" => q = "draining" \/ closedP
    BY <1>2 DEF WatchInv, Parts, Remote
  <2>4. of # "remote" => Sends({c} \cup T)
    BY <1>6 DEF Sends
  <2> HIDE DEF T
  <2>5. Told(Left(agenda))' /\ Remote(Left(agenda))' /\ Settles(Left(agenda))'
    BY <1>1, <1>2, <1>3, <1>4, <1>6, <2>2 DEF WatchInv, Parts, Told, Remote, Settles
  <2>6. Flushes(Left(agenda))'
    BY <1>1, <1>3, <2>2, <2>3, <2>4 DEF Flushes
  <2>7. Drains(Left(agenda))'
    BY <1>1, <1>2, <1>4, <2>2 DEF WatchInv, Parts, Drains, Sends
  <2>8. QED
    BY <1>1, <2>5, <2>6, <2>7 DEF WatchInv, Parts
<1>7. CASE ~ closeHeard
  <2>1. /\ of = "local" => agenda' = <<Send("close")>> \o Tail(agenda)
        /\ of = "remote" => agenda' = <<Done("close")>> \o Tail(agenda)
    BY <1>7 DEF HandleError, AfterClose
  <2>2. "close" \in Callers
    BY DEF Callers
  <2>3. QED
    BY <1>6, <2>1, <2>2, CallFacts, CallsDiffer
<1>8. QED
  BY <1>5, <1>7

\* verifyCallback answers: a rejected peer is closed, with the error that says so.
LEMMA VerifyWatches ==
    ASSUME EndInv, WatchInv, NEW by \in Callers, NEW accepts \in BOOLEAN, VerifyDone(by, accepts)
    PROVE  WatchInv'
<1> DEFINE done == <<Done(by)>>
<1>1. /\ Left(agenda) = {} /\ verifying' = verifying \ {by}
      /\ UNCHANGED <<closedP, closeHeard, peerError>>
  BY LeftOfNone DEF VerifyDone
<1>2. /\ Done(by) # Error("local") /\ Done(by) # Error("remote") /\ Error("local") # Error("remote")
      /\ \A of \in {"local", "remote"}, x \in Callers : Send(x) # Error(of) /\ Send(x) # Done(by)
  BY CallsDiffer
<1>3. done \in Seq(Calls) /\ Left(done) = {Done(by)}
  BY CallFacts, LeftOfOne
<1>4. ASSUME NEW of \in {"local", "remote"}
      PROVE  Left(<<Error(of), Done(by)>>) = {Error(of), Done(by)}
  <2> DEFINE told == <<Error(of)>>
  <2>1. told \in Seq(Calls) /\ Left(told) = {Error(of)} /\ <<Error(of), Done(by)>> = told \o done
    BY CallFacts, LeftOfOne
  <2> HIDE DEF told, done
  <2>2. Left(told \o done) = Left(told) \cup Left(done)
    BY <1>3, <2>1, LeftOfBoth
  <2>3. QED
    BY <1>3, <2>1, <2>2
<1>5. CASE accepts /\ ~ Unwind(by)
  <2>1. /\ q' = q /\ UNCHANGED <<timer, cutShort>>
        /\ Left(agenda') = {Done(by)} \/ (Left(agenda') = {Error("remote"), Done(by)} /\ peerError)
    BY <1>3, <1>4, <1>5 DEF VerifyDone, Accept
  <2>2. Parts(Left(agenda))'
    BY <1>1, <1>2, <2>1 DEF WatchInv, Parts, Told, Remote, Settles, Flushes, Drains, Sends
  <2>3. QED
    BY <1>1, <2>1, <2>2 DEF WatchInv
<1>6. CASE ~ accepts
  <2>1. /\ IF q = "open" THEN q' \in {"closing", "closed"} ELSE q' = q
        /\ Left(agenda') = {Error("local"), Done(by)}
        /\ UNCHANGED <<timer, cutShort>>
    BY <1>4, <1>6 DEF VerifyDone, Reject, CloseQuiche
  <2>2. Parts(Left(agenda))'
    BY <1>1, <1>2, <2>1 DEF WatchInv, Parts, Told, Remote, Settles, Flushes, Drains, Sends, EndInv
  <2>3. QED
    BY <1>1, <2>1, <2>2 DEF WatchInv
<1>7. CASE accepts /\ Unwind(by)
  <2>1. q' = q /\ agenda = <<>>
    BY <1>7 DEF VerifyDone, Accept
  <2>2. PICK pre \in Seq(Calls) : /\ agenda' = pre \o <<>>
                                 /\ Left(pre) \subseteq {Done("recv")}
    BY <1>7, <2>1, UnwindCalls
  <2>3. Left(agenda') \subseteq {Done("recv")}
    BY <2>2
  <2>4. Error("local") \notin Left(agenda') /\ Error("remote") \notin Left(agenda')
    BY <2>3, CallsDiffer
  <2>5. /\ cutShort' /\ timer' \in {"none", "armed", "settling", "settled"}
        /\ timer' = "settling" => timer = "settling" /\ by # "timer"
    BY <1>7 DEF Unwind, TimerAfterTick, WatchInv
  <2>6. Parts(Left(agenda))'
    BY <1>1, <2>1, <2>4, <2>5 DEF WatchInv, Parts, Told, Remote, Settles, Flushes, Drains
  <2>7. QED
    BY <2>1, <2>5, <2>6 DEF WatchInv
<1>8. QED
  BY <1>5, <1>6, <1>7

\* The timer's handler ends: it has set the timer up, for what drains always.
LEMMA TickDoneWatches ==
    ASSUME LockInv, WatchInv, TickDone
    PROVE  WatchInv'
<1> DEFINE T == Left(Tail(agenda))
<1>1. /\ agenda # <<>> /\ Head(agenda) = Done("timer") /\ agenda' = Tail(agenda)
      /\ UNCHANGED <<q, peerError, closedP, closeHeard, cutShort, verifying>>
      /\ timer' \in {"none", "armed", "settled"}
      /\ q = "draining" => timer' = "armed"
  BY DEF TickDone, promises, quiche, NoTimeout, TimerAfterTick, WatchInv
<1>2. Left(agenda) = {Done("timer")} \cup T /\ Left(agenda') = T
  BY <1>1, LeftOfFirst DEF LockInv
<1> HIDE DEF T
<1>3. /\ Error("local") # Done("timer") /\ Error("remote") # Done("timer")
      /\ \A by \in Callers : Send(by) # Done("timer")
  BY CallsDiffer
<1>4. Parts(Left(agenda))'
  BY <1>1, <1>2, <1>3 DEF WatchInv, Parts, Told, Remote, Settles, Flushes, Drains, Sends
<1>5. QED
  BY <1>1, <1>4 DEF WatchInv

\* A send that is refused would have had nothing to flush: closedP is resolved.
LEMMA RefusedWatches ==
    ASSUME LockInv, EndInv, WatchInv, NEW by \in Callers, SendRefused(by)
    PROVE  WatchInv'
<1> DEFINE T == Left(Tail(agenda))
<1> DEFINE done == <<Done(by)>>
<1>1. /\ agenda # <<>> /\ Head(agenda) = Send(by) /\ agenda' = done \o Tail(agenda)
      /\ UNCHANGED <<q, peerError, closedP, closeHeard, cutShort, timer, verifying>>
      /\ closedP /\ q = "closed"
  BY DEF SendRefused, promises, quiche, EndInv
<1>2. done \in Seq(Calls) /\ Left(done) = {Done(by)}
  BY CallFacts, LeftOfOne
<1> HIDE DEF done
<1>3. Left(agenda) = {Send(by)} \cup T /\ Left(agenda') = {Done(by)} \cup T
  BY <1>1, <1>2, LeftInstead
<1> HIDE DEF T
<1>4. /\ Done(by) # Error("local") /\ Done(by) # Error("remote")
      /\ Send("timer") = Send(by) => by = "timer"
      /\ Send(by) # Done("timer")
  BY CallsDiffer
<1>5. Parts(Left(agenda))'
  BY <1>1, <1>3, <1>4 DEF WatchInv, Parts, Told, Remote, Settles, Flushes, Drains
<1>6. QED
  BY <1>1, <1>5 DEF WatchInv

\* A send that throws leaves its caller; the timer whose handler it was is settled.
LEMMA ThrowsWatches ==
    ASSUME LockInv, WatchInv, NEW by \in Callers, SendThrows(by)
    PROVE  WatchInv'
<1> DEFINE T == Left(Tail(agenda))
<1>1. /\ agenda # <<>> /\ Head(agenda) = Send(by) /\ cutShort'
      /\ UNCHANGED <<q, peerError, closedP, closeHeard, verifying>>
      /\ timer' \in {"none", "armed", "settling", "settled"}
      /\ timer' = "settling" => timer = "settling" /\ by # "timer"
  BY DEF SendThrows, Unwind, TimerAfterTick, WatchInv, quiche
<1>2. PICK pre \in Seq(Calls) : /\ agenda' = pre \o Tail(agenda)
                               /\ Left(pre) \subseteq {Done("recv")}
  BY <1>1, UnwindCalls DEF SendThrows
<1>3. Left(agenda) = {Send(by)} \cup T /\ Left(agenda') = Left(pre) \cup T
  BY <1>1, <1>2, LeftInstead
<1> HIDE DEF T
<1>4. /\ Done("recv") # Error("local") /\ Done("recv") # Error("remote")
      /\ Send("timer") = Send(by) => by = "timer"
      /\ Send(by) # Done("timer")
  BY CallsDiffer
<1>5. Parts(Left(agenda))'
  BY <1>1, <1>2, <1>3, <1>4 DEF WatchInv, Parts, Told, Remote, Settles, Flushes, Drains
<1>6. QED
  BY <1>1, <1>5 DEF WatchInv

\* quiche closes by the timer, which resolves closedP.
LEMMA TickClosedWatches ==
    ASSUME WatchInv, TickClosed
    PROVE  WatchInv'
<1>1. /\ q' = "closed" /\ closedP' /\ timer' = "settled"
  BY DEF TickClosed
<1>2. Parts(Left(agenda))'
  BY <1>1 DEF Parts, Told, Remote, Settles, Flushes, Drains
<1>3. QED
  BY <1>1, <1>2 DEF WatchInv

\* The steps that leave the calls and quiche alone.
LEMMA WatchKept ==
    ASSUME WatchInv,
           UNCHANGED <<agenda, q, peerError, closedP, closeHeard, cutShort, timer, verifying>>
    PROVE  WatchInv'
  BY DEF WatchInv, Parts, Told, Remote, Settles, Flushes, Drains, Sends

\* Every step keeps the invariant.
LEMMA WatchInvStep == LockInv /\ EndInv /\ WatchInv /\ [Next]_vars => WatchInv'
<1> SUFFICES ASSUME LockInv, EndInv, WatchInv, [Next]_vars
             PROVE  WatchInv'
  OBVIOUS
<1>1. CASE Starts
  <2>1. phase = "new" /\ agenda = <<>> /\ verifying = {}
    BY <1>1 DEF Starts, StartRefused, StartClient, StartServer, LockInv, Fresh
  <2>2. CASE StartRefused \/ StartClient
    BY <2>1, <2>2, QuietWatches DEF StartRefused, StartClient, promises, work, quiche, Callers
  <2>3. CASE StartServer
    <3>1. PICK kind \in {"data", "close", "bad", "internal"} :
             Deliver(kind, <<Send("start"), Done("recv")>>, <<>>)
      BY <2>3 DEF StartServer
    <3>2. kind \in Kinds /\ Left(agenda) = {} /\ Left(<<>>) = {} /\ <<>> \in Seq(Calls)
      BY <2>1, LeftOfNone, NoCalls DEF Kinds
    <3>3. QED
      BY <2>3, <3>1, <3>2, DeliverWatches DEF StartServer, NextSends
  <2>4. QED
    BY <1>1, <2>2, <2>3 DEF Starts
<1>2. CASE Runs
  <2>1. ASSUME NEW by \in Callers, send(by)
        PROVE  WatchInv'
    BY <2>1, SendWatches
  <2>2. ASSUME NEW by \in Callers, SendRefused(by) \/ SendThrows(by)
        PROVE  WatchInv'
    BY <2>2, RefusedWatches, ThrowsWatches
  <2>3. ASSUME NEW by \in Callers, OtherDone(by)
        PROVE  WatchInv'
    BY <2>3, DoneWatches DEF OtherDone, promises, quiche
  <2>4. ASSUME NEW of \in {"local", "remote"}, HandleError(of)
        PROVE  WatchInv'
    BY <2>4, ErrorWatches
  <2>5. CASE RecvDone
    <3>1. CASE queued > 0
      <4>1. PICK kind \in Kinds : Deliver(kind, <<Send("recv")>>, Tail(agenda))
        BY <2>5, <3>1 DEF RecvDone
      <4>2. agenda # <<>> /\ Head(agenda) = Done("recv")
        BY <2>5 DEF RecvDone
      <4>3. /\ Left(agenda) = {Done("recv")} \cup Left(Tail(agenda))
            /\ Tail(agenda) \in Seq(Calls)
        BY <4>2, LeftOfFirst DEF LockInv
      <4>4. QED
        BY <2>5, <4>1, <4>3, DeliverWatches DEF RecvDone, NextSends
    <3>2. CASE ~ (queued > 0)
      BY <2>5, <3>2, DoneWatches DEF RecvDone, quiche
    <3>3. QED
      BY <3>1, <3>2
  <2>6. CASE TickDone
    BY <2>6, TickDoneWatches
  <2>7. CASE CloseDone
    BY <2>7, DoneWatches DEF CloseDone, promises, quiche
  <2>8. QED
    BY <1>2, <2>1, <2>2, <2>3, <2>4, <2>5, <2>6, <2>7 DEF Runs
<1>3. CASE Resumes
  BY <1>3, WatchKept DEF Resumes, Started, StartRejected, StartFailed, BeginStop, Stopped,
                         work, promises, quiche
<1>4. CASE Verified
  BY <1>4, VerifyWatches DEF Verified
<1>5. ASSUME NEW kind \in Kinds, recv(kind)
      PROVE  WatchInv'
  <2>1. agenda = <<>> /\ Left(agenda) = {} /\ Left(<<>>) = {} /\ <<>> \in Seq(Calls)
    BY <1>5, LeftOfNone, NoCalls DEF recv, Quiet
  <2>2. CASE locked
    BY <1>5, <2>2, WatchKept DEF recv, quiche
  <2>3. CASE ~ locked
    BY <1>5, <2>1, <2>3, DeliverWatches DEF recv, NextSends
  <2>4. QED
    BY <2>2, <2>3
<1>6. CASE TickClosed
  BY <1>6, TickClosedWatches
<1>7. CASE Tick
  BY <1>7, QuietWatches DEF Tick, Quiet, promises, quiche, Callers
<1>8. CASE OtherSend
  BY <1>8, QuietWatches DEF OtherSend, Quiet, promises, quiche, Callers
<1>9. CASE StartAborted
  BY <1>9, CloseWatches DEF StartAborted, Quiet, promises
<1>10. CASE StreamsDestroyed
  BY <1>10, CloseWatches DEF StreamsDestroyed, Quiet, promises
<1>11. ASSUME NEW force \in BOOLEAN, CallStop(force)
       PROVE  WatchInv'
  BY <1>11, WatchKept DEF CallStop, work, promises, quiche
<1>12. CASE UNCHANGED vars
  BY <1>12, WatchKept DEF vars, work, promises, quiche
<1>13. QED
  BY <1>1, <1>2, <1>3, <1>4, <1>5, <1>6, <1>7, <1>8, <1>9, <1>10, <1>11, <1>12 DEF Next

(***************************************************************************)
(* Between handlers, a connection that quiche has left, however that came  *)
(* about, has told its peer and has resolved closedP or has a timer that   *)
(* will: neither stop nor a failing start waits for what nobody does.      *)
(* Only a recv or send that threw can leave it otherwise, and until the    *)
(* next send.                                                              *)
(***************************************************************************)
THEOREM ClosingTheorem == Spec => []ClosingIsWatched
<1> DEFINE Inv == LockInv /\ EndInv /\ WatchInv
<1>1. Init => Inv
  <2>1. Init => WatchInv
    BY LeftOfNone DEF Init, WatchInv, Parts, Told, Remote, Settles, Flushes, Drains
  <2>2. QED
    BY <2>1, NoCalls DEF Init, EndInv, LockInv, Fresh
<1>2. Inv /\ [Next]_vars => Inv'
  BY LockInvStep, EndInvStep, WatchInvStep
<1>3. Inv => ClosingIsWatched
  BY LeftOfNone DEF EndInv, WatchInv, Parts, Flushes, Drains, Sends, ClosingIsWatched
<1>4. QED
  BY <1>1, <1>2, <1>3, PTL DEF Spec

-----------------------------------------------------------------------------
(***************************************************************************)
(* The start that throws before it waits.  Until start has sent, nothing   *)
(* has been done to the connection: quiche is open or the peer closed it,  *)
(* and nobody has set a timer or awaits anything.                          *)
(***************************************************************************)

Answers == {Done(by) : by \in Callers} \cup {Error("local"), Error("remote"), Send("recv")}

LEMMA AnswersDiffer == \A x : x # "recv" => Send(x) \notin Answers
  BY CallsDiffer DEF Answers

\* recv adds its own calls to the stretch.
LEMMA DeliverAdds ==
    ASSUME NEW kind, NEW rest \in Seq(Calls), Deliver(kind, <<Send("recv")>>, rest)
    PROVE  Left(agenda') \subseteq Answers \cup Left(rest)
<1>1. Send("recv") \in Answers /\ Error("local") \in Answers /\ Done("recv") \in Answers
  BY DEF Callers, Answers
<1>2. PICK pre \in Seq(Calls) :
         /\ agenda' = pre \o rest
         /\ \/ Left(pre) = {Error("local"), Done("recv")}
            \/ Left(pre) = {Done("recv")}
            \/ pre = <<Send("recv")>>
  BY DeliverCalls DEF NextSends
<1>3. Left(pre) \subseteq Answers
  BY <1>1, <1>2, LeftOfOne
<1>4. Left(agenda') = Left(pre) \cup Left(rest)
  BY <1>2, LeftOfBoth
<1>5. QED
  BY <1>3, <1>4

\* send adds the errors it may dispatch, and its own end.
LEMMA SendAdds ==
    ASSUME LockInv, NEW by \in Callers, send(by)
    PROVE  Left(agenda') \subseteq Answers \cup Left(Tail(agenda))
<1> DEFINE flushed == IF q = "closing" THEN "draining" ELSE q
<1> DEFINE idle == IF flushed = "closed" /\ timedOut THEN <<Error("remote")>> ELSE <<>>
<1> DEFINE peer == IF peerError /\ phase # "stopping" THEN <<Error("remote")>> ELSE <<>>
<1> DEFINE done == <<Done(by)>>
<1>1. /\ idle \in Seq(Calls) /\ Left(idle) \subseteq Answers
      /\ peer \in Seq(Calls) /\ Left(peer) \subseteq Answers
      /\ done \in Seq(Calls) /\ Left(done) \subseteq Answers
  BY CallFacts, LeftOfNone, LeftOfOne, NoCalls, OneCall DEF Answers
<1>2. /\ agenda \in Seq(Calls) /\ agenda # <<>>
      /\ agenda' = Tail(agenda) \/ agenda' = ((idle \o peer) \o done) \o Tail(agenda)
  BY DEF send, LockInv
<1> HIDE DEF idle, peer, done
<1> DEFINE errors == idle \o peer
<1>3. errors \in Seq(Calls) /\ Left(errors) = Left(idle) \cup Left(peer)
  BY <1>1, Concatenated, LeftOfBoth
<1> HIDE DEF errors
<1> DEFINE pre == errors \o done
<1>4. pre \in Seq(Calls) /\ Left(pre) = Left(errors) \cup Left(done)
  BY <1>1, <1>3, Concatenated, LeftOfBoth
<1>5. agenda' = Tail(agenda) \/ agenda' = pre \o Tail(agenda)
  BY <1>2 DEF errors
<1> HIDE DEF pre
<1>6. CASE agenda' = pre \o Tail(agenda)
  <2>1. Left(agenda') = Left(pre) \cup Left(Tail(agenda))
    BY <1>2, <1>4, <1>6, LeftInstead
  <2>2. QED
    BY <1>1, <1>3, <1>4, <2>1
<1>7. QED
  BY <1>5, <1>6

\* The calls of the stretch add what they answer, or the send of the close.
LEMMA RunsAdd ==
    ASSUME LockInv, EndInv, WatchInv, Runs
    PROVE  /\ agenda # <<>>
           /\ \/ Left(agenda') \subseteq Answers \cup Left(Tail(agenda))
              \/ /\ Left(agenda') \subseteq {Send("close")} \cup Left(Tail(agenda))
                 /\ q # "open"
<1>1. ASSUME NEW by \in Callers, send(by)
      PROVE  Left(agenda') \subseteq Answers \cup Left(Tail(agenda))
  BY <1>1, SendAdds
<1>2. ASSUME NEW c \in Answers \cup {Send("close")}, agenda # <<>>,
             agenda' = <<c>> \o Tail(agenda)
      PROVE  Left(agenda') = {c} \cup Left(Tail(agenda))
  <2> DEFINE pre == <<c>>
  <2>1. c \in Calls
    BY CallFacts DEF Answers, Callers
  <2>2. pre \in Seq(Calls) /\ Left(pre) = {c} /\ agenda' = pre \o Tail(agenda)
    BY <1>2, <2>1, LeftOfOne
  <2> HIDE DEF pre
  <2>3. QED
    BY <1>2, <2>2, LeftInstead
<1>3. ASSUME NEW by \in Callers, SendRefused(by) \/ OtherDone(by)
      PROVE  Left(agenda') \subseteq Answers \cup Left(Tail(agenda))
  <2>1. Done(by) \in Answers
    BY DEF Answers
  <2>2. agenda # <<>> /\ (agenda' = Tail(agenda) \/ agenda' = <<Done(by)>> \o Tail(agenda))
    BY <1>3 DEF SendRefused, OtherDone
  <2>3. QED
    BY <1>2, <2>1, <2>2
<1>4. ASSUME NEW of \in {"local", "remote"}, HandleError(of)
      PROVE  \/ Left(agenda') \subseteq Answers \cup Left(Tail(agenda))
             \/ Left(agenda') \subseteq {Send("close")} \cup Left(Tail(agenda)) /\ q # "open"
  <2>1. agenda # <<>> /\ Head(agenda) = Error(of) /\ Done("close") \in Answers
    BY <1>4 DEF HandleError, Answers, Callers
  <2>2. Error(of) \in Left(agenda)
    BY <2>1, LeftOfFirst DEF LockInv
  <2>3. q # "open"
    BY <2>2 DEF WatchInv, Parts, Told, Remote, EndInv
  <2>4. \/ agenda' = Tail(agenda)
        \/ agenda' = <<Send("close")>> \o Tail(agenda)
        \/ agenda' = <<Done("close")>> \o Tail(agenda)
    BY <1>4 DEF HandleError, AfterClose
  <2>5. QED
    BY <1>2, <2>1, <2>3, <2>4
<1>5. ASSUME NEW by \in Callers, SendThrows(by)
      PROVE  Left(agenda') \subseteq Answers \cup Left(Tail(agenda))
  <2>1. agenda # <<>>
    BY <1>5 DEF SendThrows
  <2>2. PICK pre \in Seq(Calls) : /\ agenda' = pre \o Tail(agenda)
                                 /\ Left(pre) \subseteq {Done("recv")}
    BY <1>5, <2>1, UnwindCalls DEF SendThrows
  <2>3. Left(agenda') = Left(pre) \cup Left(Tail(agenda))
    BY <2>1, <2>2, LeftInstead
  <2>4. Done("recv") \in Answers
    BY DEF Answers, Callers
  <2>5. QED
    BY <2>2, <2>3, <2>4
<1>6. CASE RecvDone
  <2>1. Tail(agenda) \in Seq(Calls)
    BY <1>6, LeftOfFirst DEF RecvDone, LockInv
  <2>2. QED
    BY <1>6, <2>1, DeliverAdds DEF RecvDone
<1>7. CASE TickDone \/ CloseDone
  BY <1>7 DEF TickDone, CloseDone
<1>8. agenda # <<>>
  BY DEF Runs, send, SendThrows, SendRefused, OtherDone, HandleError, RecvDone, TickDone,
         CloseDone
<1>9. QED
  BY <1>1, <1>3, <1>4, <1>5, <1>6, <1>7, <1>8 DEF Runs

\* verifyCallback's answer adds them, too.
LEMMA VerifyAdds ==
    ASSUME NEW by \in Callers, NEW accepts \in BOOLEAN, VerifyDone(by, accepts)
    PROVE  Left(agenda') \subseteq Answers
<1>1. /\ Done(by) \in Answers /\ Error("local") \in Answers /\ Error("remote") \in Answers
      /\ Done("recv") \in Answers
  BY DEF Answers, Callers
<1>2. ASSUME NEW of
      PROVE  Left(<<Error(of), Done(by)>>) \subseteq {Error(of), Done(by)}
  BY DEF Left
<1>3. \/ agenda' = <<Done(by)>>
      \/ \E of \in {"local", "remote"} : agenda' = <<Error(of), Done(by)>>
      \/ agenda = <<>> /\ Unwind(by)
  BY DEF VerifyDone, Accept, Reject
<1>4. CASE agenda = <<>> /\ Unwind(by)
  <2>1. PICK pre \in Seq(Calls) : agenda' = pre \o <<>> /\ Left(pre) \subseteq {Done("recv")}
    BY <1>4, UnwindCalls
  <2>2. QED
    BY <1>1, <2>1
<1>5. QED
  BY <1>1, <1>2, <1>3, <1>4, LeftOfOne

Untouched == ~ closedP /\ timer = "none" /\ verifying = {} /\ queued = 0

StartInv ==
    /\ phase = "new" => Untouched /\ q = "open" /\ ~ established
    /\ phase = "refused" =>
          /\ Untouched /\ q = "open"
          /\ agenda \in {<<>>, <<Done("recv")>>}
          /\ at = "none"
    /\ Send("start") \in Left(agenda) =>
          /\ Untouched /\ q \in {"open", "draining"} /\ ~ established
          /\ agenda \in {<<Send("start")>>, <<Send("start"), Done("recv")>>}
          /\ phase = "starting"

\* A start that has sent, or that something answered, is not of this kind.
LEMMA StartKept ==
    ASSUME phase' \notin {"new", "refused"}, Send("start") \notin Left(agenda')
    PROVE  StartInv'
  BY DEF StartInv

\* The first datagram of a server leads to the send of start, or to none.
LEMMA StartServerKeepsStart == LockInv /\ StartInv /\ StartServer => StartInv'
<1> SUFFICES ASSUME LockInv, StartInv, StartServer
             PROVE  StartInv'
  OBVIOUS
<1>1. PICK kind \in {"data", "close", "bad", "internal"} :
         /\ Deliver(kind, <<Send("start"), Done("recv")>>, <<>>)
         /\ phase' = IF kind = "internal" THEN "refused" ELSE "starting"
         /\ at' = IF kind = "internal" THEN "none" ELSE "secure"
  BY DEF StartServer
<1>2. /\ Untouched /\ Untouched' /\ q = "open" /\ ~ established
  BY DEF StartServer, StartInv, Untouched
<1>3. CASE kind = "internal"
  <2>1. quiche' = quiche /\ agenda' = (<<>> \o <<Done("recv")>>) \o <<>>
    BY <1>1, <1>2, <1>3 DEF Deliver, Feed, Fail, Thrown
  <2>2. agenda' = <<Done("recv")>>
    BY <2>1
  <2>3. Send("start") \notin Left(agenda')
    BY <2>2, LeftOfOne, CallsDiffer
  <2>4. QED
    BY <1>1, <1>2, <1>3, <2>1, <2>2, <2>3 DEF StartInv, quiche
<1>4. CASE kind # "internal"
  <2>1. phase' = "starting"
    BY <1>1, <1>4
  <2>2. PICK pre \in Seq(Calls) :
           /\ agenda' = pre \o <<>>
           /\ \/ kind = "bad" /\ Left(pre) = {Error("local"), Done("recv")}
              \/ Left(pre) = {Done("recv")}
              \/ ~ Thrown(kind) /\ pre = <<Send("start"), Done("recv")>>
    BY <1>1, NoCalls, DeliverCalls DEF NextSends
  <2>3. agenda' = pre
    BY <2>2
  <2>4. CASE Send("start") \notin Left(pre)
    BY <2>1, <2>3, <2>4, StartKept
  <2>5. CASE Send("start") \in Left(pre)
    <3>1. ~ Thrown(kind) /\ agenda' = <<Send("start"), Done("recv")>>
      BY <2>2, <2>3, <2>5, CallsDiffer
    <3>2. kind \in {"data", "close"}
      BY <1>2, <3>1 DEF Thrown
    <3>3. q' \in {"open", "draining"} /\ established' = FALSE
      BY <1>1, <1>2, <3>2 DEF Deliver, Feed
    <3>4. QED
      BY <1>2, <2>1, <3>1, <3>3 DEF StartInv
  <2>6. QED
    BY <2>4, <2>5
<1>5. QED
  BY <1>3, <1>4

\* The calls of a stretch: the send of start comes first, and throws or is done.
LEMMA RunsKeepStart == LockInv /\ EndInv /\ WatchInv /\ StartInv /\ Runs => StartInv'
<1> SUFFICES ASSUME LockInv, EndInv, WatchInv, StartInv, Runs
             PROVE  StartInv'
  OBVIOUS
<1> USE CallsDiffer
<1>1. agenda # <<>> /\ phase # "new" /\ agenda \in Seq(Calls)
  BY RunsAdd DEF LockInv, Fresh
<1>2. Left(agenda) = {Head(agenda)} \cup Left(Tail(agenda))
  BY <1>1, LeftOfFirst
<1>3. phase' = phase \/ SendThrows("start")
  BY DEF Runs, send, SendThrows, SendRefused, OtherDone, HandleError, RecvDone, TickDone,
         CloseDone, startStop
<1>4. CASE phase = "refused"
  <2>0. agenda = <<Done("recv")>>
    BY <1>1, <1>4, Zenon DEF StartInv
  <2>1. agenda = <<Done("recv")>> /\ Head(agenda) = Done("recv") /\ Tail(agenda) = <<>>
    BY <2>0, HeadAndTail, Zenon
  <2>2. RecvDone
    BY <2>1 DEF Runs, send, SendThrows, SendRefused, OtherDone, HandleError, TickDone, CloseDone
  <2>3. /\ agenda' = <<>> /\ Untouched' /\ q' = "open" /\ at' = "none" /\ phase' = "refused"
    BY <1>4, <2>1, <2>2 DEF RecvDone, StartInv, Untouched, quiche, startStop
  <2>4. QED
    BY <2>3, LeftOfNone DEF StartInv
<1>5. CASE phase # "refused" /\ Send("start") \notin Left(agenda)
  <2>1. phase' = phase
    BY <1>2, <1>3, <1>5 DEF SendThrows
  <2>2. Send("start") \notin Left(agenda')
    BY <1>2, <1>5, RunsAdd, AnswersDiffer
  <2>3. QED
    BY <1>1, <1>5, <2>1, <2>2, StartKept
<1>6. CASE phase # "refused" /\ Send("start") \in Left(agenda)
  <2>1. /\ Untouched /\ q \in {"open", "draining"} /\ phase = "starting"
        /\ agenda \in {<<Send("start")>>, <<Send("start"), Done("recv")>>}
    BY <1>6 DEF StartInv
  <2>2. Head(agenda) = Send("start") /\ Tail(agenda) \in {<<>>, <<Done("recv")>>}
    <3>1. CASE agenda = <<Send("start")>>
      BY <3>1, HeadAndTail, Zenon
    <3>2. CASE agenda = <<Send("start"), Done("recv")>>
      BY <3>2, HeadAndTail, Zenon
    <3>3. QED
      BY <2>1, <3>1, <3>2, Zenon
  <2>3. Send("start") \notin Left(Tail(agenda))
    <3>1. Send("start") \notin Left(<<>>) /\ Send("start") \notin Left(<<Done("recv")>>)
      <4>1. Left(<<>>) = {} /\ Left(<<Done("recv")>>) = {Done("recv")}
        BY LeftOfNone, LeftOfOne, Zenon
      <4>2. QED
        BY <4>1
    <3>2. QED
      BY <2>2, <3>1, Zenon
  <2>4. Send("start") \notin Left(agenda')
    BY <2>3, RunsAdd, AnswersDiffer
  <2>5. CASE phase' = phase
    BY <2>1, <2>4, <2>5, StartKept
  <2>6. CASE SendThrows("start")
    <3>1. agenda' = <<>> \o Tail(agenda) /\ timer' = timer /\ phase' = "refused"
      BY <1>1, <2>6 DEF SendThrows, Unwind
    <3>2. agenda' \in {<<>>, <<Done("recv")>>}
      BY <2>2, <3>1
    <3>3. Untouched' /\ q' = "open" /\ at' = "none"
      BY <2>1, <2>6, <3>1 DEF SendThrows, Untouched, quiche
    <3>4. QED
      BY <2>4, <3>1, <3>2, <3>3 DEF StartInv
  <2>7. QED
    BY <1>3, <2>5, <2>6
<1>7. QED
  BY <1>4, <1>5, <1>6

\* Every step keeps the invariant: a refused start leaves nothing to go on.
LEMMA StartInvStep ==
    LockInv /\ EndInv /\ WatchInv /\ StartInv /\ [Next]_vars => StartInv'
<1> SUFFICES ASSUME LockInv, EndInv, WatchInv, StartInv, [Next]_vars
             PROVE  StartInv'
  OBVIOUS
<1>1. Left(<<>>) = {} /\ Send("start") \notin Answers
  BY LeftOfNone, AnswersDiffer
<1>2. phase = "new" => agenda = <<>> /\ at = "none"
  BY DEF LockInv, Fresh
<1>3. CASE StartRefused
  BY <1>1, <1>2, <1>3 DEF StartRefused, StartInv, Untouched, promises, work, quiche
<1>4. CASE StartClient
  BY <1>4 DEF StartClient, StartInv, Untouched, promises, quiche
<1>5. CASE StartServer
  BY <1>5, StartServerKeepsStart
<1>6. CASE Runs
  BY <1>6, RunsKeepStart
<1>7. CASE Resumes
  <2>1. agenda' = <<>> /\ phase' \notin {"new", "refused"}
    BY <1>2, <1>7 DEF Resumes, Started, StartRejected, StartFailed, BeginStop, Stopped,
                      StartInv, work
  <2>2. QED
    BY <1>1, <2>1, StartKept
<1>8. CASE Verified
  <2>1. PICK by \in Callers, accepts \in BOOLEAN : VerifyDone(by, accepts)
    BY <1>8 DEF Verified
  <2>2. phase' \notin {"new", "refused"}
    BY <2>1 DEF VerifyDone, StartInv, Untouched, startStop
  <2>3. QED
    BY <1>1, <2>1, <2>2, VerifyAdds, StartKept
<1>9. ASSUME NEW kind \in Kinds, recv(kind)
      PROVE  StartInv'
  <2>1. phase' \notin {"new", "refused"} /\ agenda = <<>>
    BY <1>9 DEF recv, Quiet, startStop
  <2>2. Left(agenda') \subseteq Answers
    BY <1>1, <1>9, <2>1, NoCalls, DeliverAdds DEF recv
  <2>3. QED
    BY <1>1, <2>1, <2>2, StartKept
<1>10. CASE TickClosed \/ Tick \/ OtherSend \/ StartAborted \/ StreamsDestroyed
  <2>1. phase' \notin {"new", "refused"}
    BY <1>2, <1>10 DEF TickClosed, Tick, OtherSend, StartAborted, StreamsDestroyed,
                       StartInv, Untouched, startStop
  <2>2. \/ agenda' = <<>> \/ agenda' = <<Send("timer")>> \/ agenda' = <<Send("other")>>
        \/ \E of \in {"local", "remote"} : agenda' = <<Error(of)>>
    BY <1>10 DEF TickClosed, Tick, OtherSend, StartAborted, StreamsDestroyed
  <2>3. Send("start") \notin Left(agenda')
    BY <1>1, <2>2, LeftOfOne, CallsDiffer
  <2>4. QED
    BY <2>1, <2>3, StartKept
<1>11. ASSUME NEW force \in BOOLEAN, CallStop(force)
       PROVE  StartInv'
  BY <1>1, <1>11, StartKept DEF CallStop, Quiet, work
<1>12. CASE UNCHANGED vars
  BY <1>12 DEF vars, startStop, work, promises, quiche, StartInv, Untouched
<1>13. QED
  BY <1>3, <1>4, <1>5, <1>6, <1>7, <1>8, <1>9, <1>10, <1>11, <1>12 DEF Next, Starts

(***************************************************************************)
(* When stop returns or a start that waited throws, quiche has closed:     *)
(* nothing the peer sends or a timer does can concern the connection any   *)
(* more.  A start that throws at once, or whose first send or recv throws, *)
(* leaves quiche open, but no timer and no verification behind.            *)
(***************************************************************************)
THEOREM EndIsClosed == Spec => []EndsOnlyClosed
<1> DEFINE Inv == LockInv /\ EndInv /\ WatchInv /\ StartInv
<1>1. Init => Inv
  <2>1. Init => WatchInv
    BY LeftOfNone DEF Init, WatchInv, Parts, Told, Remote, Settles, Flushes, Drains
  <2>2. Init => StartInv
    BY LeftOfNone DEF Init, StartInv, Untouched
  <2>3. QED
    BY <2>1, <2>2, NoCalls DEF Init, EndInv, LockInv, Fresh
<1>2. Inv /\ [Next]_vars => Inv'
  BY LockInvStep, EndInvStep, WatchInvStep, StartInvStep
<1>3. Inv => EndsOnlyClosed
  BY DEF EndInv, StartInv, Untouched, EndsOnlyClosed
<1>4. QED
  BY <1>1, <1>2, <1>3, PTL DEF Spec

-----------------------------------------------------------------------------
(***************************************************************************)
(* The types.  That only recv and the timer may await verifyCallback is    *)
(* more than a type: the sends of start, of streams and of the close are   *)
(* made when there is nothing to verify, or nothing left to verify.        *)
(***************************************************************************)

Unverifying(cs) ==
    /\ Send("other") \in cs => secure
    /\ Send("close") \in cs => q # "open"

SecureInv ==
    /\ secureP = "resolved" => secure
    /\ phase \in {"running", "stopping"} => secure
    /\ Unverifying(Left(agenda))

\* What no step takes back.
Kept ==
    /\ secure => secure'
    /\ secureP' = "resolved" => secureP = "resolved" \/ secure'
    /\ q # "open" => q' # "open"

LEMMA DeliverKeeps ==
    ASSUME NEW kind, NEW sends, NEW rest, Deliver(kind, sends, rest)
    PROVE  Kept
<1>1. q # "open" => q' # "open"
  BY DEF Deliver, Feed, quiche
<1>2. secure => secure'
  BY DEF Deliver, Fail, Process
<1>3. secureP' = "resolved" => secureP = "resolved" \/ secure'
  BY DEF Deliver, Fail, Process
<1>4. QED
  BY <1>1, <1>2, <1>3 DEF Kept

LEMMA RunsKeep ==
    ASSUME Runs
    PROVE  Kept /\ phase' \in {phase, "refused"}
<1>1. ASSUME NEW by \in Callers, send(by)
      PROVE  Kept /\ phase' \in {phase, "refused"}
  BY <1>1 DEF send, Kept, startStop
<1>2. ASSUME NEW by \in Callers, SendThrows(by) \/ SendRefused(by) \/ OtherDone(by)
      PROVE  Kept /\ phase' \in {phase, "refused"}
  BY <1>2 DEF SendThrows, SendRefused, OtherDone, Kept, startStop, promises, quiche
<1>3. ASSUME NEW of \in {"local", "remote"}, HandleError(of)
      PROVE  Kept /\ phase' \in {phase, "refused"}
  BY <1>3 DEF HandleError, Kept, startStop, quiche
<1>4. CASE RecvDone
  <2>1. phase' \in {phase, "refused"}
    BY <1>4 DEF RecvDone, startStop
  <2>2. CASE queued > 0
    BY <1>4, <2>1, <2>2, DeliverKeeps DEF RecvDone
  <2>3. CASE ~ (queued > 0)
    BY <1>4, <2>1, <2>3 DEF RecvDone, Kept, quiche
  <2>4. QED
    BY <2>2, <2>3
<1>5. CASE TickDone \/ CloseDone
  <2>1. UNCHANGED <<promises, quiche>> /\ phase' \in {phase, "refused"}
    BY <1>5 DEF TickDone, CloseDone, startStop
  <2>2. QED
    BY <2>1 DEF Kept, promises, quiche
<1>6. QED
  BY <1>1, <1>2, <1>3, <1>4, <1>5 DEF Runs

\* A handler starts where none ran, with calls of which none is a special send.
LEMMA SecureKeptFromQuiet ==
    ASSUME SecureInv, Kept,
           phase' \in {"running", "stopping"} => secure \/ phase \in {"running", "stopping"},
           \A x \in {"other", "close"} : Send(x) \notin Left(agenda')
    PROVE  SecureInv'
  BY DEF SecureInv, Unverifying, Kept

\* Every step keeps the invariant of the verification.
LEMMA SecureInvStep ==
    LockInv /\ EndInv /\ WatchInv /\ SecureInv /\ [Next]_vars => SecureInv'
<1> SUFFICES ASSUME LockInv, EndInv, WatchInv, SecureInv, [Next]_vars
             PROVE  SecureInv'
  OBVIOUS
<1>1. Left(<<>>) = {}
  BY LeftOfNone
<1>2. \A x \in {"start", "other", "close"} : Send(x) \notin Answers
  BY AnswersDiffer
<1>3. CASE StartRefused \/ StartClient
  <2>1. agenda = <<>>
    BY <1>3 DEF StartRefused, StartClient, LockInv, Fresh
  <2>2. /\ agenda' = <<Send("start")>> \/ agenda' = <<>>
        /\ Kept /\ phase' \in {"refused", "starting"}
    <3>1. phase' \in {"refused", "starting"} /\ agenda' \in {agenda, <<Send("start")>>}
      BY <1>3 DEF StartRefused, StartClient, work
    <3>2. UNCHANGED <<secure, secureP, q>>
      BY <1>3, Zenon DEF StartRefused, StartClient, promises, quiche
    <3>3. Kept
      BY <3>2, Zenon DEF Kept
    <3>4. QED
      BY <2>1, <3>1, <3>3
  <2>3. Send("other") \notin Left(agenda') /\ Send("close") \notin Left(agenda')
    BY <1>1, <2>2, LeftOfOne, CallsDiffer
  <2>4. QED
    BY <2>2, <2>3, SecureKeptFromQuiet
<1>4. CASE StartServer
  <2>1. PICK kind : Deliver(kind, <<Send("start"), Done("recv")>>, <<>>)
    BY <1>4 DEF StartServer
  <2>2. phase' \in {"refused", "starting"} /\ Kept
    BY <1>4, <2>1, DeliverKeeps DEF StartServer
  <2>3. PICK pre \in Seq(Calls) :
           /\ agenda' = pre \o <<>>
           /\ \/ Left(pre) = {Error("local"), Done("recv")}
              \/ Left(pre) = {Done("recv")}
              \/ Left(pre) = {Send("recv")}
              \/ Left(pre) = {Send("start"), Done("recv")}
    BY <2>1, NoCalls, DeliverCalls DEF NextSends
  <2>4. Send("other") \notin Left(agenda') /\ Send("close") \notin Left(agenda')
    <3>1. pre \o <<>> = pre
      OBVIOUS
    <3>2. Left(agenda') \subseteq {Error("local"), Done("recv"), Send("recv"), Send("start")}
      BY <2>3, <3>1
    <3>3. QED
      BY <3>2, CallsDiffer
  <2>5. QED
    BY <2>2, <2>4, SecureKeptFromQuiet
<1>5. CASE Runs
  <2> DEFINE T == Left(Tail(agenda))
  <2>1. agenda # <<>> /\ Kept /\ phase' \in {phase, "refused"}
    BY <1>5, RunsAdd, RunsKeep
  <2>2. T \subseteq Left(agenda)
    BY <2>1, LeftOfFirst DEF LockInv
  <2> HIDE DEF T
  <2>3. \/ Left(agenda') \subseteq Answers \cup T
        \/ Left(agenda') \subseteq {Send("close")} \cup T /\ q # "open"
    BY <1>5, RunsAdd DEF T
  <2>4. Send("other") # Send("close")
    BY CallsDiffer
  <2>5. /\ Send("other") \in Left(agenda') => Send("other") \in Left(agenda)
        /\ Send("close") \in Left(agenda') => Send("close") \in Left(agenda) \/ q # "open"
    BY <1>2, <2>2, <2>3, <2>4
  <2>6. QED
    BY <2>1, <2>5 DEF SecureInv, Unverifying, Kept
<1>6. CASE Resumes
  <2>1. /\ agenda = <<>> /\ UNCHANGED <<promises, work, quiche>>
        /\ phase' \in {"running", "stopping"} =>
             secureP = "resolved" \/ phase \in {"running", "stopping"}
    BY <1>6 DEF Resumes, Started, StartRejected, StartFailed, BeginStop, Stopped
  <2>2. Kept /\ agenda' = <<>>
    BY <2>1 DEF Kept, promises, work, quiche
  <2>3. QED
    BY <1>1, <2>1, <2>2, SecureKeptFromQuiet DEF SecureInv
<1>7. CASE Verified
  <2>1. PICK by \in Callers, accepts \in BOOLEAN : VerifyDone(by, accepts)
    BY <1>7 DEF Verified
  <2>2. Kept /\ phase' = phase
    BY <2>1 DEF VerifyDone, Accept, Reject, CloseQuiche, Kept, startStop
  <2>3. QED
    BY <1>2, <2>1, <2>2, VerifyAdds, SecureKeptFromQuiet
<1>8. ASSUME NEW kind \in Kinds, recv(kind)
      PROVE  SecureInv'
  <2>1. agenda = <<>> /\ phase' = phase
    BY <1>8 DEF recv, Quiet, startStop
  <2>2. CASE locked
    BY <1>1, <1>8, <2>1, <2>2, SecureKeptFromQuiet DEF recv, Kept, quiche
  <2>3. CASE ~ locked
    <3>1. Deliver(kind, <<Send("recv")>>, <<>>)
      BY <1>8, <2>3 DEF recv
    <3>2. Left(agenda') \subseteq Answers /\ Kept
      BY <1>1, <3>1, NoCalls, DeliverAdds, DeliverKeeps
    <3>3. QED
      BY <1>2, <2>1, <3>2, SecureKeptFromQuiet
  <2>4. QED
    BY <2>2, <2>3
<1>9. CASE OtherSend
  <2>1. Left(agenda') = {Send("other")} /\ phase \in {"running", "stopping"} /\ phase' = phase
    BY <1>9, LeftOfOne DEF OtherSend, startStop
  <2>2. Send("close") \notin Left(agenda')
    BY <2>1, CallsDiffer
  <2>3. QED
    BY <1>9, <2>1, <2>2 DEF OtherSend, SecureInv, Unverifying, promises, quiche
<1>10. CASE TickClosed \/ Tick \/ StartAborted \/ StreamsDestroyed
  <2>1. Kept /\ phase' = phase
    BY <1>10 DEF TickClosed, Tick, StartAborted, StreamsDestroyed, CloseQuiche, Kept,
                 startStop, promises, quiche
  <2>2. \/ agenda' = <<>> \/ agenda' = <<Send("timer")>>
        \/ \E of \in {"local", "remote"} : agenda' = <<Error(of)>>
    BY <1>10 DEF TickClosed, Tick, StartAborted, StreamsDestroyed
  <2>3. \A x \in {"other", "close"} : Send(x) \notin Left(agenda')
    BY <1>1, <2>2, LeftOfOne, CallsDiffer
  <2>4. QED
    BY <2>1, <2>3, SecureKeptFromQuiet
<1>11. ASSUME NEW force \in BOOLEAN, CallStop(force)
       PROVE  SecureInv'
  <2>1. agenda' = <<>> /\ Kept /\ phase' = phase
    BY <1>11 DEF CallStop, Quiet, Kept, work, promises, quiche
  <2>2. QED
    BY <1>1, <2>1, SecureKeptFromQuiet
<1>12. CASE UNCHANGED vars
  BY <1>12 DEF vars, startStop, work, promises, quiche, SecureInv, Unverifying
<1>13. QED
  BY <1>3, <1>4, <1>5, <1>6, <1>7, <1>8, <1>9, <1>10, <1>11, <1>12 DEF Next, Starts

\* What TypeOK says beside the parts that LockInv and WatchInv have.
OwnTypes ==
    /\ config \in Configs
    /\ phase \in Phases
    /\ at \in Awaits
    /\ stops \in Seq(BOOLEAN)
    /\ forced \in BOOLEAN
    /\ aborted \in BOOLEAN

PromiseTypes ==
    /\ secure \in BOOLEAN
    /\ secureP \in {"pending", "resolved", "rejected"}
    /\ closedP \in BOOLEAN
    /\ closeHeard \in BOOLEAN
    /\ missed \in BOOLEAN
    /\ cutShort \in BOOLEAN

PeerTypes ==
    /\ received \in BOOLEAN
    /\ established \in BOOLEAN
    /\ peerError \in BOOLEAN
    /\ timedOut \in BOOLEAN

WaitTypes ==
    /\ locked \in BOOLEAN
    /\ verifying \subseteq {"recv", "timer"}

\* The datagrams that wait have arrived.
CountTypes ==
    /\ queued \in Nat /\ arrived \in Nat
    /\ queued <= arrived /\ arrived <= MaxDatagrams

Types == OwnTypes /\ PromiseTypes /\ PeerTypes /\ WaitTypes /\ CountTypes

OwnSame == UNCHANGED <<config, phase, at, stops, forced, aborted>>
PromisesSame == UNCHANGED <<secure, secureP, closedP, closeHeard, missed, cutShort>>
PeerSame == UNCHANGED <<received, established, peerError, timedOut>>
WaitSame == UNCHANGED <<locked, verifying>>
CountSame == UNCHANGED <<queued, arrived>>

LEMMA Same ==
    /\ OwnTypes /\ OwnSame => OwnTypes'
    /\ PromiseTypes /\ PromisesSame => PromiseTypes'
    /\ PeerTypes /\ PeerSame => PeerTypes'
    /\ WaitTypes /\ WaitSame => WaitTypes'
    /\ CountTypes /\ CountSame => CountTypes'
<1>1. OwnTypes /\ OwnSame => OwnTypes'
  BY DEF OwnTypes, OwnSame
<1>2. PromiseTypes /\ PromisesSame => PromiseTypes'
  BY DEF PromiseTypes, PromisesSame
<1>3. PeerTypes /\ PeerSame => PeerTypes'
  BY DEF PeerTypes, PeerSame
<1>4. WaitTypes /\ WaitSame => WaitTypes'
  BY DEF WaitTypes, WaitSame
<1>5. CountTypes /\ CountSame => CountTypes'
  BY DEF CountTypes, CountSame
<1>6. QED
  BY <1>1, <1>2, <1>3, <1>4, <1>5

\* The steps that leave all of it alone.
LEMMA TypesSame ==
    ASSUME Types, OwnSame, PromisesSame, PeerSame, WaitSame, CountSame
    PROVE  Types'
  BY Same DEF Types

LEMMA DeliverTypes ==
    ASSUME PromiseTypes, PeerTypes, NEW kind, NEW sends, NEW rest, Deliver(kind, sends, rest),
           UNCHANGED <<closedP, closeHeard, missed>>
    PROVE  PromiseTypes' /\ PeerTypes'
<1>1. PeerTypes'
  <2>1. CASE q # "open" \/ kind = "internal"
    BY <2>1, Same DEF Deliver, Feed, PeerSame, quiche
  <2>2. CASE q = "open" /\ kind # "internal"
    <3>1. /\ established' = (established \/ kind \in {"handshake", "handshake+close"})
          /\ peerError' = (kind \in {"close", "handshake+close"})
          /\ received' = (received \/ kind # "bad")
          /\ timedOut' = timedOut
      BY <2>2 DEF Deliver, Feed
    <3>2. QED
      BY <3>1 DEF PeerTypes
  <2>3. QED
    BY <2>1, <2>2
<1>2. cutShort' \in BOOLEAN
  BY DEF Deliver, Fail, Process, PromiseTypes
<1>3. CASE Thrown(kind)
  BY <1>1, <1>2, <1>3 DEF Deliver, Fail, PromiseTypes
<1>4. CASE ~ Thrown(kind)
  <2>1. /\ secure' = (secure \/ (established' /\ ~ HasVerifyCallback))
        /\ secureP' = IF secure' /\ secureP = "pending" THEN "resolved" ELSE secureP
    BY <1>4 DEF Deliver, Process
  <2>2. QED
    BY <1>1, <1>2, <2>1 DEF PromiseTypes
<1>5. QED
  BY <1>1, <1>3, <1>4

\* Who awaits verifyCallback: not the sends that SecureInv is about.
LEMMA SendVerifies ==
    ASSUME LockInv, StartInv, SecureInv, NEW by \in Callers, send(by), verifying' # verifying
    PROVE  verifying' = verifying \cup {by} /\ by \in {"recv", "timer"}
<1>1. /\ verifying' = verifying \cup {by} /\ ~ secure /\ established /\ q = "open"
      /\ agenda # <<>> /\ Head(agenda) = Send(by)
  BY DEF send, MustVerify
<1>2. Send(by) \in Left(agenda)
  BY <1>1, LeftOfFirst DEF LockInv
<1>3. by \notin {"start", "other", "close"}
  BY <1>1, <1>2 DEF StartInv, SecureInv, Unverifying
<1>4. QED
  BY <1>1, <1>3 DEF Callers

\* The calls of stop that wait are a sequence, whichever end changes.
LEMMA StopsAreSeq ==
    ASSUME NEW S, NEW s \in Seq(S)
    PROVE  /\ \A e \in S : Append(s, e) \in Seq(S)
           /\ s # <<>> => Tail(s) \in Seq(S) /\ Head(s) \in S
  OBVIOUS

LEMMA RunsTypes == LockInv /\ StartInv /\ SecureInv /\ Types /\ Runs => Types'
<1> SUFFICES ASSUME LockInv, StartInv, SecureInv, Types, Runs
             PROVE  Types'
  OBVIOUS
<1>1. ASSUME NEW by \in Callers, send(by)
      PROVE  Types'
  <2>1. verifying' \subseteq {"recv", "timer"} /\ locked' = locked
    BY <1>1, SendVerifies DEF send, Types, WaitTypes
  <2>2. WaitTypes'
    BY <2>1 DEF Types, WaitTypes
  <2>3. /\ OwnSame /\ PeerSame /\ CountSame
        /\ UNCHANGED <<secure, secureP, closeHeard, missed>>
    BY <1>1 DEF send, OwnSame, PeerSame, CountSame, startStop
  <2>4. closedP' \in BOOLEAN /\ cutShort' = FALSE
    BY <1>1 DEF send, Types, PromiseTypes
  <2>5. PromiseTypes'
    BY <2>3, <2>4 DEF Types, PromiseTypes
  <2>6. QED
    BY <2>2, <2>3, <2>5, Same DEF Types
<1>2. ASSUME NEW by \in Callers, SendRefused(by) \/ OtherDone(by)
      PROVE  Types'
  <2>1. OwnSame /\ PromisesSame /\ PeerSame /\ WaitSame /\ CountSame
    BY <1>2 DEF SendRefused, OtherDone, OwnSame, PromisesSame, PeerSame, WaitSame, CountSame,
                startStop, promises, quiche
  <2>2. QED
    BY <2>1, TypesSame
<1>3. ASSUME NEW of \in {"local", "remote"}, HandleError(of)
      PROVE  Types'
  <2>1. OwnSame /\ PeerSame /\ WaitSame /\ CountSame
        /\ UNCHANGED <<secure, closedP, cutShort>>
    BY <1>3 DEF HandleError, OwnSame, PeerSame, WaitSame, CountSame, startStop, quiche
  <2>2. secureP' \in {"pending", "resolved", "rejected"}
    BY <1>3 DEF HandleError, Types, PromiseTypes
  <2>3. closeHeard' = TRUE /\ (missed' = missed \/ missed' = (secure /\ phase = "starting"))
    BY <1>3 DEF HandleError
  <2>4. PromiseTypes'
    BY <2>1, <2>2, <2>3 DEF Types, PromiseTypes
  <2>5. QED
    BY <2>1, <2>4, Same DEF Types
<1>4. CASE RecvDone
  <2>1. OwnSame
    BY <1>4 DEF RecvDone, OwnSame, startStop
  <2>2. CASE queued > 0
    <3>1. PromiseTypes' /\ PeerTypes'
      BY <1>4, <2>2, DeliverTypes DEF RecvDone, Types
    <3>2. WaitSame
      BY <1>4, <2>2 DEF RecvDone, WaitSame
    <3>3. queued' = queued - 1 /\ arrived' = arrived
      BY <1>4, <2>2 DEF RecvDone
    <3>4. CountTypes'
      BY <2>2, <3>3, ConnectionAssumption DEF Types, CountTypes
    <3>5. QED
      BY <2>1, <3>1, <3>2, <3>4, Same DEF Types
  <2>3. CASE ~ (queued > 0)
    <3>1. PromisesSame /\ PeerSame /\ CountSame
      BY <1>4, <2>3 DEF RecvDone, PromisesSame, PeerSame, CountSame, quiche
    <3>2. locked' = FALSE /\ verifying' = verifying
      BY <1>4, <2>3 DEF RecvDone
    <3>3. WaitTypes'
      BY <3>2 DEF Types, WaitTypes
    <3>4. QED
      BY <2>1, <3>1, <3>3, Same DEF Types
  <2>4. QED
    BY <2>2, <2>3
<1>5. CASE TickDone
  <2>1. OwnSame /\ PromisesSame /\ PeerSame /\ WaitSame /\ CountSame
    BY <1>5 DEF TickDone, OwnSame, PromisesSame, PeerSame, WaitSame, CountSame,
                startStop, promises, quiche
  <2>2. QED
    BY <2>1, TypesSame
<1>6. CASE CloseDone
  <2>1. /\ PromisesSame /\ PeerSame /\ WaitSame /\ CountSame
        /\ UNCHANGED <<config, phase, at, forced, aborted>>
    BY <1>6 DEF CloseDone, PromisesSame, PeerSame, WaitSame, CountSame, promises, quiche
  <2>2. stops' = Append(stops, TRUE) \/ stops' = stops
    BY <1>6 DEF CloseDone, MustStop
  <2>3. stops' \in Seq(BOOLEAN)
    BY <2>2, StopsAreSeq DEF Types, OwnTypes
  <2>4. OwnTypes'
    BY <2>1, <2>3 DEF Types, OwnTypes
  <2>5. QED
    BY <2>1, <2>4, Same DEF Types
<1>7. ASSUME NEW by \in Callers, SendThrows(by)
      PROVE  Types'
  <2>1. /\ PeerSame /\ WaitSame /\ CountSame
        /\ UNCHANGED <<config, stops, forced, aborted, secure, secureP, closedP, closeHeard>>
        /\ phase' \in {phase, "refused"} /\ at' \in {at, "none"}
        /\ missed' = (missed \/ by = "close") /\ cutShort' = TRUE
    BY <1>7 DEF SendThrows, Unwind, PeerSame, WaitSame, CountSame, quiche
  <2>2. OwnTypes' /\ PromiseTypes'
    BY <2>1 DEF Types, OwnTypes, PromiseTypes, Phases, Awaits
  <2>3. QED
    BY <2>1, <2>2, Same DEF Types
<1>8. QED
  BY <1>1, <1>2, <1>3, <1>4, <1>5, <1>6, <1>7 DEF Runs

LEMMA TypesStep == LockInv /\ StartInv /\ SecureInv /\ Types /\ [Next]_vars => Types'
<1> SUFFICES ASSUME LockInv, StartInv, SecureInv, Types, [Next]_vars
             PROVE  Types'
  OBVIOUS
<1>1. CASE StartRefused \/ StartClient \/ OtherSend \/ Tick
  <2>1. PromisesSame /\ PeerSame /\ WaitSame /\ CountSame
    BY <1>1 DEF StartRefused, StartClient, OtherSend, Tick, PromisesSame, PeerSame, WaitSame,
                CountSame, promises, work, quiche
  <2>2. /\ UNCHANGED <<config, stops, forced>> /\ aborted' \in {aborted, TRUE, FALSE}
        /\ phase' \in {phase, "refused", "starting"} /\ at' \in {at, "secure"}
    BY <1>1 DEF StartRefused, StartClient, OtherSend, Tick, startStop
  <2>3. OwnTypes'
    BY <2>2 DEF Types, OwnTypes, Phases, Awaits
  <2>4. QED
    BY <2>1, <2>3, Same DEF Types
<1>2. CASE StartServer
  <2>1. PromiseTypes' /\ PeerTypes'
    BY <1>2, DeliverTypes DEF StartServer, Types
  <2>2. /\ CountSame /\ UNCHANGED <<config, stops, forced, aborted, verifying>>
        /\ phase' \in {"refused", "starting"} /\ at' \in {"none", "secure"} /\ locked' = TRUE
    BY <1>2 DEF StartServer, CountSame
  <2>3. OwnTypes' /\ WaitTypes'
    BY <2>2 DEF Types, OwnTypes, WaitTypes, Phases, Awaits
  <2>4. QED
    BY <2>1, <2>2, <2>3, Same DEF Types
<1>3. CASE Runs
  BY <1>3, RunsTypes
<1>4. CASE Resumes
  <2>1. PromisesSame /\ PeerSame /\ WaitSame /\ CountSame
    BY <1>4 DEF Resumes, Started, StartRejected, StartFailed, BeginStop, Stopped,
                PromisesSame, PeerSame, WaitSame, CountSame, promises, work, quiche
  <2>2. /\ UNCHANGED <<config, aborted>>
        /\ phase' \in {phase, "running", "failed", "stopping", "stopped"}
        /\ at' \in {at, "none", "closed", "streams"}
    BY <1>4 DEF Resumes, Started, StartRejected, StartFailed, BeginStop, Stopped
  <2>3. \/ UNCHANGED <<stops, forced>>
        \/ /\ stops # <<>> /\ stops' = Tail(stops)
           /\ \/ forced' = forced
              \/ forced' = (Head(stops) \/ q \in {"draining", "closed"})
    BY <1>4 DEF Resumes, Started, StartRejected, StartFailed, BeginStop, Stopped
  <2>4. stops' \in Seq(BOOLEAN)
    <3>1. stops' = stops \/ (stops # <<>> /\ stops' = Tail(stops))
      BY <2>3
    <3>2. QED
      BY <3>1, StopsAreSeq DEF Types, OwnTypes
  <2>5. forced' \in BOOLEAN
    BY <2>3 DEF Types, OwnTypes
  <2>6. OwnTypes'
    BY <2>2, <2>4, <2>5 DEF Types, OwnTypes, Phases, Awaits
  <2>7. QED
    BY <2>1, <2>6, Same DEF Types
<1>5. CASE Verified
  <2>1. PICK by \in Callers, accepts \in BOOLEAN : VerifyDone(by, accepts)
    BY <1>5 DEF Verified
  <2>2. /\ OwnSame /\ PeerSame /\ CountSame
        /\ UNCHANGED <<closedP, closeHeard, missed, locked>>
        /\ verifying' = verifying \ {by}
    BY <2>1 DEF VerifyDone, OwnSame, PeerSame, CountSame, startStop
  <2>3. WaitTypes'
    BY <2>2 DEF Types, WaitTypes
  <2>4. /\ secure' = TRUE \/ secure' = secure
        /\ secureP' \in {secureP, "resolved"}
        /\ cutShort' \in {cutShort, TRUE}
    BY <2>1 DEF VerifyDone, Accept, Reject, Unwind
  <2>5. PromiseTypes'
    BY <2>2, <2>4 DEF Types, PromiseTypes
  <2>6. QED
    BY <2>2, <2>3, <2>5, Same DEF Types
<1>6. ASSUME NEW kind \in Kinds, recv(kind)
      PROVE  Types'
  <2>1. /\ OwnSame /\ verifying' = verifying
        /\ arrived < MaxDatagrams /\ arrived' = arrived + 1
        /\ queued' = queued + 1 \/ queued' = queued
    BY <1>6 DEF recv, OwnSame, startStop
  <2>2. CountTypes'
    BY <2>1, ConnectionAssumption DEF Types, CountTypes
  <2>3. CASE locked
    <3>1. PromisesSame /\ PeerSame /\ WaitSame
      BY <1>6, <2>3 DEF recv, PromisesSame, PeerSame, WaitSame, quiche
    <3>2. QED
      BY <2>1, <2>2, <3>1, Same DEF Types
  <2>4. CASE ~ locked
    <3>1. PromiseTypes' /\ PeerTypes'
      BY <1>6, <2>4, DeliverTypes DEF recv, Types
    <3>2. locked' = TRUE
      BY <1>6, <2>4 DEF recv
    <3>3. WaitTypes'
      BY <2>1, <3>2 DEF Types, WaitTypes
    <3>4. QED
      BY <2>1, <2>2, <3>1, <3>3, Same DEF Types
  <2>5. QED
    BY <2>3, <2>4
<1>7. CASE TickClosed
  <2>1. /\ OwnSame /\ WaitSame /\ CountSame
        /\ UNCHANGED <<secure, secureP, closeHeard, missed, cutShort, received, established,
                       peerError>>
    BY <1>7 DEF TickClosed, OwnSame, WaitSame, CountSame, startStop
  <2>2. closedP' = TRUE /\ timedOut' = (timedOut \/ q \in {"open", "closing"})
    BY <1>7 DEF TickClosed
  <2>3. PromiseTypes' /\ PeerTypes'
    BY <2>1, <2>2 DEF Types, PromiseTypes, PeerTypes
  <2>4. QED
    BY <2>1, <2>3, Same DEF Types
<1>8. CASE StartAborted \/ StreamsDestroyed
  <2>1. /\ PromisesSame /\ PeerSame /\ WaitSame /\ CountSame
        /\ UNCHANGED <<config, phase, stops, forced>>
        /\ at' = "closed" /\ aborted' \in {aborted, TRUE}
    BY <1>8 DEF StartAborted, StreamsDestroyed, PromisesSame, PeerSame, WaitSame, CountSame,
                promises
  <2>2. OwnTypes'
    BY <2>1 DEF Types, OwnTypes, Awaits
  <2>3. QED
    BY <2>1, <2>2, Same DEF Types
<1>9. ASSUME NEW force \in BOOLEAN, CallStop(force)
      PROVE  Types'
  <2>1. /\ PromisesSame /\ PeerSame /\ WaitSame /\ CountSame
        /\ UNCHANGED <<config, phase, at, forced, aborted>>
        /\ stops' = Append(stops, force)
    BY <1>9 DEF CallStop, PromisesSame, PeerSame, WaitSame, CountSame, promises, work, quiche
  <2>2. stops' \in Seq(BOOLEAN)
    BY <2>1, StopsAreSeq DEF Types, OwnTypes
  <2>3. OwnTypes'
    BY <2>1, <2>2 DEF Types, OwnTypes
  <2>4. QED
    BY <2>1, <2>3, Same DEF Types
<1>10. CASE UNCHANGED vars
  <2>1. OwnSame /\ PromisesSame /\ PeerSame /\ WaitSame /\ CountSame
    BY <1>10 DEF vars, OwnSame, PromisesSame, PeerSame, WaitSame, CountSame,
                 startStop, promises, work, quiche
  <2>2. QED
    BY <2>1, TypesSame
<1>11. QED
  BY <1>1, <1>2, <1>3, <1>4, <1>5, <1>6, <1>7, <1>8, <1>9, <1>10 DEF Next, Starts

(***************************************************************************)
(* Every variable has its type; above all, nobody but recv and the timer's *)
(* handler awaits verifyCallback.                                          *)
(***************************************************************************)
THEOREM TypeCorrect == Spec => []TypeOK
<1> DEFINE Inv == LockInv /\ EndInv /\ WatchInv /\ StartInv /\ SecureInv /\ Types
<1>1. Init => Inv
  <2> SUFFICES ASSUME Init PROVE Inv
    OBVIOUS
  <2>1. WatchInv
    BY LeftOfNone DEF Init, WatchInv, Parts, Told, Remote, Settles, Flushes, Drains
  <2>2. StartInv /\ SecureInv
    BY LeftOfNone DEF Init, StartInv, Untouched, SecureInv, Unverifying
  <2>3. LockInv /\ EndInv
    BY NoCalls DEF Init, EndInv, LockInv, Fresh
  <2>4. stops \in Seq(BOOLEAN)
    BY DEF Init
  <2>5. OwnTypes
    BY <2>4 DEF Init, OwnTypes, Phases, Awaits
  <2>6. PromiseTypes /\ PeerTypes /\ WaitTypes
    BY DEF Init, PromiseTypes, PeerTypes, WaitTypes
  <2>7. CountTypes
    BY ConnectionAssumption DEF Init, CountTypes
  <2>8. QED
    BY <2>1, <2>2, <2>3, <2>5, <2>6, <2>7 DEF Types
<1>2. Inv /\ [Next]_vars => Inv'
  BY LockInvStep, EndInvStep, WatchInvStep, StartInvStep, SecureInvStep, TypesStep
<1>3. Inv => TypeOK
  <2> SUFFICES ASSUME Inv PROVE TypeOK
    OBVIOUS
  <2>1. queued \in 0 .. MaxDatagrams /\ arrived \in 0 .. MaxDatagrams
    BY ConnectionAssumption DEF Types, CountTypes
  <2>2. QED
    BY <2>1 DEF LockInv, WatchInv, Types, OwnTypes, PromiseTypes, PeerTypes, WaitTypes, TypeOK
<1>4. QED
  BY <1>1, <1>2, <1>3, PTL DEF Spec

=============================================================================
