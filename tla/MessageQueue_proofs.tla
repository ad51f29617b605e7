------------------------ MODULE MessageQueue_proofs ------------------------
(***************************************************************************)
(* Proof that the senders and the exter helper implement MessageQueue, for *)
(* any number of senders and messages and any size of the pipe, as long as *)
(* native2amiga_install ran once and the machine has not been reset.       *)
(***************************************************************************)
EXTENDS ExterServer_proofs

Messages == [from : Senders, seq : Nat]
Deliveries == [from : Senders, seq : Nat, whole : {TRUE}]

Writing(r) == r.at \in {"write", "full"}

(* The item the helper read last.  Between two messages, it is as if it    *)
(* had just read the last item of the last message delivered.              *)
Before ==
  IF exter.at = "args" THEN [exter.msg EXCEPT !.part = exter.got]
  ELSE [from |-> None, seq |-> 0, part |-> 2, len |-> 2, num |-> Len(delivered)]

(* The item written last. *)
Last == IF pending = <<>> THEN Before ELSE pending[Len(pending)]

(* Item j is the one after item i. *)
Follows(i, j) ==
  \/ i.part = i.len /\ j.part = 1 /\ j.num = i.num + 1
  \/ /\ i.part # i.len /\ j.part = i.part + 1
     /\ j.from = i.from /\ j.seq = i.seq /\ j.len = i.len /\ j.num = i.num

(* Item i was written last: its message is whole, the n-th, and nobody has *)
(* begun another, or the sender among w that writes it is there.           *)
Ends(i, w, n) ==
  \/ i.part = i.len /\ i.num = n /\ \A s \in Senders : Writing(w[s]) => w[s].part = 1
  \/ /\ i.part # i.len /\ i.num = n + 1
     /\ i.from \in Senders /\ Writing(w[i.from])
     /\ w[i.from].seq = i.seq /\ w[i.from].len = i.len /\ w[i.from].part = i.part + 1

ArgsInv ==
  exter.at = "args" =>
    /\ exter.whole = TRUE /\ exter.need = exter.msg.len /\ exter.got \in 1 .. exter.need - 1
    /\ exter.msg.part = 1 /\ exter.msg.num = Len(delivered) + 1
CompleteInv ==
  \A k \in 1 .. Len(pending) : pending[k].part = pending[k].len =>
    /\ pending[k].num \in 1 .. Len(log)
    /\ log[pending[k].num].from = pending[k].from /\ log[pending[k].num].seq = pending[k].seq
ChainInv ==
  /\ \A k \in 1 .. Len(pending) - 1 : Follows(pending[k], pending[k + 1])
  /\ pending # <<>> => Follows(Before, pending[1])
  /\ Ends(Last, sender, Len(log))
NoReset == resets = [count |-> 0, busy |-> FALSE, cut |-> FALSE]

QInv ==
  /\ IInv /\ NoReset /\ ArgsInv /\ CompleteInv /\ ChainInv
  /\ delivered \in Seq(Deliveries) /\ Len(delivered) <= Len(log)

-----------------------------------------------------------------------------
(* What a sequence holds from position d + 1 on. *)
Window(q, d) == [k \in 1 .. Len(q) - d |-> q[d + k]]

LEMMA WindowIsSeq ==
  ASSUME NEW S, NEW q \in Seq(S), NEW d \in Nat, d <= Len(q)
  PROVE  /\ Window(q, d) \in Seq(S) /\ Len(Window(q, d)) = Len(q) - d
         /\ \A k \in 1 .. Len(q) - d : Window(q, d)[k] = q[d + k]
<1>1. Len(q) - d \in Nat /\ q \in [1 .. Len(q) -> S] /\ Len(q) \in Nat
  BY LenProperties
<1>2. \A k \in 1 .. Len(q) - d : q[d + k] \in S
  BY <1>1, ElementOfSeq
<1>3. Window(q, d) \in [1 .. Len(q) - d -> S]
  BY <1>2 DEF Window
<1>4. Window(q, d) \in Seq(S)
  BY <1>1, <1>3
<1> QED
  BY <1>1, <1>3, <1>4 DEF Window

LEMMA WindowAppend ==
  ASSUME NEW S, NEW q \in Seq(S), NEW d \in Nat, d <= Len(q), NEW e \in S
  PROVE  Window(Append(q, e), d) = Append(Window(q, d), e)
<1>1. /\ Append(q, e) \in Seq(S) /\ Len(Append(q, e)) = Len(q) + 1 /\ Len(q) \in Nat
      /\ \A i \in 1 .. Len(q) : Append(q, e)[i] = q[i]
      /\ Append(q, e)[Len(q) + 1] = e
  BY AppendProperties, LenProperties
<1>2. /\ Window(q, d) \in Seq(S) /\ Len(Window(q, d)) = Len(q) - d
      /\ \A k \in 1 .. Len(q) - d : Window(q, d)[k] = q[d + k]
  BY WindowIsSeq
<1>3. /\ Window(Append(q, e), d) \in Seq(S)
      /\ Len(Window(Append(q, e), d)) = Len(q) + 1 - d
      /\ \A k \in 1 .. Len(q) + 1 - d : Window(Append(q, e), d)[k] = Append(q, e)[d + k]
  <2> DEFINE r == Append(q, e)
  <2>1. r \in Seq(S) /\ Len(r) = Len(q) + 1 /\ d <= Len(r)
    BY <1>1
  <2> HIDE DEF r
  <2>2. /\ Window(r, d) \in Seq(S) /\ Len(Window(r, d)) = Len(r) - d
        /\ \A k \in 1 .. Len(r) - d : Window(r, d)[k] = r[d + k]
    BY <2>1, WindowIsSeq
  <2> QED
    BY <2>1, <2>2 DEF r
<1>4. /\ Append(Window(q, d), e) \in Seq(S)
      /\ Len(Append(Window(q, d), e)) = Len(q) - d + 1
      /\ \A k \in 1 .. Len(q) - d : Append(Window(q, d), e)[k] = Window(q, d)[k]
      /\ Append(Window(q, d), e)[Len(q) - d + 1] = e
  BY <1>2, AppendProperties
<1>5. \A k \in 1 .. Len(q) + 1 - d : Window(Append(q, e), d)[k] = Append(Window(q, d), e)[k]
  <2> TAKE k \in 1 .. Len(q) + 1 - d
  <2>1. CASE k = Len(q) + 1 - d
    <3>1. d + k = Len(q) + 1 /\ k = Len(q) - d + 1
      BY <1>1, <2>1
    <3> QED
      BY <1>1, <1>3, <1>4, <3>1
  <2>2. CASE k # Len(q) + 1 - d
    <3>1. k \in 1 .. Len(q) - d /\ d + k \in 1 .. Len(q)
      BY <1>1, <2>2
    <3> QED
      BY <1>1, <1>2, <1>3, <1>4, <3>1
  <2> QED
    BY <2>1, <2>2
<1>6. Len(Window(Append(q, e), d)) = Len(Append(Window(q, d), e))
  BY <1>1, <1>3, <1>4
<1> HIDE DEF Window
<1> QED
  BY <1>3, <1>4, <1>5, <1>6, SeqEqual

LEMMA WindowTail ==
  ASSUME NEW S, NEW q \in Seq(S), NEW d \in Nat, d + 1 <= Len(q)
  PROVE  /\ Window(q, d) # <<>> /\ Head(Window(q, d)) = q[d + 1]
         /\ Window(q, d + 1) = Tail(Window(q, d))
<1>0. Len(q) \in Nat
  BY LenProperties
<1>1. /\ Window(q, d) \in Seq(S) /\ Len(Window(q, d)) = Len(q) - d
      /\ \A k \in 1 .. Len(q) - d : Window(q, d)[k] = q[d + k]
  <2>1. d <= Len(q)
    BY <1>0
  <2> QED
    BY <2>1, WindowIsSeq
<1>2. /\ Window(q, d + 1) \in Seq(S) /\ Len(Window(q, d + 1)) = Len(q) - (d + 1)
      /\ \A k \in 1 .. Len(q) - (d + 1) : Window(q, d + 1)[k] = q[d + 1 + k]
  BY <1>0, WindowIsSeq
<1>3. Window(q, d) # <<>>
  BY <1>0, <1>1, EmptySeq
<1>4. Head(Window(q, d)) = q[d + 1]
  <2>1. Head(Window(q, d)) = Window(q, d)[1]
    BY <1>1, <1>3
  <2> QED
    BY <1>0, <1>1, <2>1
<1>5. /\ Tail(Window(q, d)) \in Seq(S) /\ Len(Tail(Window(q, d))) = Len(q) - d - 1
      /\ \A k \in 1 .. Len(q) - d - 1 : Tail(Window(q, d))[k] = Window(q, d)[k + 1]
  BY <1>1, <1>3, HeadTailProperties
<1>6. \A k \in 1 .. Len(q) - (d + 1) : Window(q, d + 1)[k] = Tail(Window(q, d))[k]
  <2> TAKE k \in 1 .. Len(q) - (d + 1)
  <2>1. k + 1 \in 1 .. Len(q) - d /\ k \in 1 .. Len(q) - d - 1 /\ d + (k + 1) = d + 1 + k
    BY <1>0
  <2> QED
    BY <1>1, <1>2, <1>5, <2>1
<1>7. Len(Window(q, d + 1)) = Len(Tail(Window(q, d)))
  BY <1>0, <1>2, <1>5
<1>8. Window(q, d + 1) = Tail(Window(q, d))
  BY <1>2, <1>5, <1>6, <1>7, SeqEqual
<1> QED
  BY <1>3, <1>4, <1>8

-----------------------------------------------------------------------------
(* One sender at a time. *)
LEMMA OneHolder ==
  ASSUME IInv, Installs = 1, NEW s \in Senders, sender[s].at # "idle"
  PROVE  n2asem = 0 /\ \A t \in Senders : sender[t].at # "idle" => t = s
<1>1. IsFiniteSet(Holders) /\ HolderInv /\ s \in Holders
  BY ExterAssumption, FS_Subset DEF IInv, Holders
<1>2. Cardinality(Holders) \in Nat /\ Cardinality(Holders) # 0
  BY <1>1, FS_CardinalityType, FS_EmptySet
<1>3. Cardinality(Holders) = 1 /\ n2asem = 0
  BY <1>1, <1>2 DEF HolderInv
<1>4. PICK x : Holders = {x}
  BY <1>1, <1>3, FS_Singleton
<1>5. \A t \in Senders : sender[t].at # "idle" => t \in Holders
  BY DEF Holders
<1> QED
  BY <1>1, <1>3, <1>4, <1>5

(* Until the first reset. *)
LEMMA NoResetStep ==
  ASSUME NoReset, resets'.count = 0, [Next]_vars
  PROVE  NoReset' /\ ~ ResetBegin /\ ~ ResetEnd
<1>1. ~ ResetBegin
  BY DEF ResetBegin, NoReset
<1>2. ~ ResetEnd
  BY DEF ResetEnd, NoReset
<1>3. resets' = resets
  BY <1>1, <1>2 DEF Next, SenderStep, ExterStep, HandlerStep, ThreadStep, NativeSemWait, PipeFull,
    WriteItem, RequestInt, InterruptServer, ExterWakes, HelperBusy, HelperEnter, HelperCommand,
    HelperArgument, ExterActs, HelperUnit, HelperEnd, Vsync, SendPacket, HandlerPacket,
    HandlerRefuses, HandlerDummy, HandlerScan, ThreadRead, ThreadCount, ThreadMark, ThreadRequest, vars
<1> QED
  BY <1>1, <1>2, <1>3 DEF NoReset

LEMMA PendingPositions ==
  ASSUME IInv
  PROVE  /\ pending \in Seq(Items) /\ Len(pending) \in Nat /\ Len(log) \in Nat
         /\ \A k \in 1 .. Len(pending) : pending[k] \in Items
         /\ pending # <<>> <=> Len(pending) > 0
<1>1. pending \in Seq(Items) /\ log \in Seq(Messages)
  BY DEF IInv, Types, PipeTypes, Messages
<1>2. Len(pending) \in Nat /\ Len(log) \in Nat
  BY <1>1, LenProperties
<1>3. pending # <<>> <=> Len(pending) > 0
  BY <1>1, <1>2, EmptySeq
<1> QED
  BY <1>1, <1>2, <1>3, ElementOfSeq

(* The helper takes the first item. *)
LEMMA ShiftStep ==
  ASSUME QInv, pending # <<>>, pending' = Tail(pending), sender' = sender, log' = log,
         \/ Before' = pending[1]
         \/ /\ Before'.part = Before'.len /\ pending[1].part = pending[1].len
            /\ Before'.num = pending[1].num
  PROVE  CompleteInv' /\ ChainInv'
<1>1. /\ pending \in Seq(Items) /\ Len(pending) \in Nat /\ Len(pending) > 0
      /\ \A k \in 1 .. Len(pending) : pending[k] \in Items
  BY PendingPositions DEF QInv
<1>2. /\ pending' \in Seq(Items) /\ Len(pending') = Len(pending) - 1
      /\ \A k \in 1 .. Len(pending) - 1 : pending'[k] = pending[k + 1]
  BY <1>1, HeadTailProperties
<1>3. pending' = <<>> <=> Len(pending) = 1
  BY <1>1, <1>2, EmptySeq
<1>4. \A x : Follows(pending[1], x) => Follows(Before', x)
  BY DEF Follows
<1>5. \A w, n : Ends(pending[1], w, n) => Ends(Before', w, n)
  BY DEF Ends
<1>6. /\ \A k \in 1 .. Len(pending) - 1 : Follows(pending[k], pending[k + 1])
      /\ Ends(pending[Len(pending)], sender, Len(log))
  BY DEF QInv, ChainInv, Last
<1>7. CompleteInv'
  <2>1. \A k \in 1 .. Len(pending) - 1 : k + 1 \in 1 .. Len(pending)
    BY <1>1
  <2> QED
    BY <1>2, <2>1 DEF QInv, CompleteInv
<1>8. \A k \in 1 .. Len(pending') - 1 : Follows(pending'[k], pending'[k + 1])
  <2>1. \A k \in 1 .. Len(pending) - 1 - 1 :
          k \in 1 .. Len(pending) - 1 /\ k + 1 \in 1 .. Len(pending) - 1
    BY <1>1
  <2> QED
    BY <1>2, <1>6, <2>1
<1>9. pending' # <<>> => Follows(Before', pending'[1])
  <2> SUFFICES ASSUME Len(pending) # 1 PROVE Follows(Before', pending'[1])
    BY <1>3
  <2>1. 1 \in 1 .. Len(pending) - 1 /\ 1 + 1 = 2
    BY <1>1
  <2>2. pending'[1] = pending[2] /\ Follows(pending[1], pending[2])
    BY <1>2, <1>6, <2>1
  <2> QED
    BY <1>4, <2>2
<1>10. Ends(Last', sender', Len(log'))
  <2>1. CASE Len(pending) = 1
    <3>1. Last' = Before'
      BY <1>3, <2>1 DEF Last
    <3>2. Ends(pending[1], sender, Len(log))
      BY <1>6, <2>1
    <3> QED
      BY <1>5, <3>1, <3>2
  <2>2. CASE Len(pending) # 1
    <3>1. Len(pending) - 1 \in 1 .. Len(pending) - 1 /\ Len(pending) - 1 + 1 = Len(pending)
      <4>1. \A n \in Nat : n > 0 /\ n # 1 => n - 1 \in 1 .. n - 1 /\ n - 1 + 1 = n
        OBVIOUS
      <4> QED
        BY <1>1, <2>2, <4>1
    <3>2. Last' = pending'[Len(pending) - 1]
      BY <1>2, <1>3, <2>2 DEF Last
    <3>3. Last' = pending[Len(pending)]
      BY <1>2, <3>1, <3>2
    <3> QED
      BY <1>6, <3>3
  <2> QED
    BY <2>1, <2>2
<1> QED
  BY <1>7, <1>8, <1>9, <1>10 DEF ChainInv

(* A sender writes an item. *)
LEMMA WriteStep ==
  ASSUME QInv, Installs = 1, NEW s \in Senders, WriteItem(s)
  PROVE  CompleteInv' /\ ChainInv' /\ Len(log') >= Len(log)
<1> DEFINE j == [from |-> s, seq |-> sender[s].seq, part |-> sender[s].part,
                 len |-> sender[s].len, num |-> Len(log) + 1]
           n == Len(log)
           c == Len(pending)
<1>1. /\ pending \in Seq(Items) /\ c \in Nat /\ n \in Nat /\ (pending # <<>> <=> c > 0)
      /\ log \in Seq(Messages)
  BY PendingPositions DEF QInv, IInv, Types, PipeTypes, Messages
<1>2. SenderTypes /\ sender[s].at \in {"write", "full"} /\ sender[s].part \in 1 .. sender[s].len
      /\ sender[s].len \in 2 .. 4 /\ sender[s].seq \in Nat
  BY DEF QInv, IInv, Types, SenderTypes, InMessage, WriteItem, SenderRecord
<1>3. pending' = Append(pending, j) /\ Before' = Before
  BY DEF WriteItem, Before, extvars
<1>4. j \in Items /\ j.from = s /\ j.seq = sender[s].seq /\ j.part = sender[s].part
      /\ j.len = sender[s].len /\ j.num = n + 1
  BY <1>1, <1>2 DEF Items
<1>5. /\ \A t \in Senders : t # s => sender'[t] = sender[t] /\ ~ Writing(sender[t])
      /\ sender'[s].seq = j.seq /\ sender'[s].len = j.len /\ sender'[s].part = j.part + 1
      /\ sender'[s].at = IF j.part = j.len THEN "request" ELSE "write"
  <2>1. sender[s] = [at |-> sender[s].at, seq |-> sender[s].seq, len |-> sender[s].len,
                     part |-> sender[s].part]
    BY <1>2 DEF SenderTypes, SenderRecord
  <2>2. sender' = [sender EXCEPT ![s].part = sender[s].part + 1,
                     ![s].at = IF sender[s].part = sender[s].len THEN "request" ELSE "write"]
    BY DEF WriteItem
  <2>3. \A t \in Senders : t # s => sender'[t] = sender[t]
    BY <1>2, <2>2 DEF SenderTypes
  <2>4. \A t \in Senders : t # s => ~ Writing(sender[t])
    BY <1>2, OneHolder DEF QInv, Writing
  <2>5. /\ sender'[s].seq = sender[s].seq /\ sender'[s].len = sender[s].len
        /\ sender'[s].part = sender[s].part + 1
    BY <1>2, <2>1, <2>2 DEF SenderTypes, SenderRecord
  <2>6. sender'[s].at = IF sender[s].part = sender[s].len THEN "request" ELSE "write"
    BY <1>2, <2>1, <2>2 DEF SenderTypes, SenderRecord
  <2> QED
    BY <1>4, <2>3, <2>4, <2>5, <2>6
<1>6. /\ j.part = j.len => log' = Append(log, [from |-> s, seq |-> j.seq])
      /\ j.part # j.len => log' = log
  BY <1>4 DEF WriteItem
<1>7. [from |-> s, seq |-> j.seq] \in Messages
  BY <1>2, <1>4 DEF Messages
<1>8. Ends(Last, sender, n)
  BY DEF QInv, ChainInv
<1>9. Writing(sender[s])
  BY <1>2 DEF Writing
<1>10. /\ pending' \in Seq(Items) /\ Len(pending') = c + 1 /\ pending' # <<>>
       /\ \A k \in 1 .. c : pending'[k] = pending[k]
       /\ pending'[c + 1] = j
  BY <1>1, <1>3, <1>4, AppendProperties
<1> HIDE DEF j
<1>11. Follows(Last, j)
  BY <1>4, <1>5, <1>8, <1>9 DEF Follows, Ends
<1>12. /\ j.part = j.len => Len(log') = n + 1 /\ log'[n + 1] = [from |-> s, seq |-> j.seq]
       /\ j.part # j.len => Len(log') = n
       /\ \A k \in 1 .. n : log'[k] = log[k]
  BY <1>1, <1>6, <1>7, AppendProperties
<1> HIDE DEF n, c
<1>13. Ends(j, sender', Len(log'))
  <2>1. CASE j.part = j.len
    <3>1. ~ Writing(sender'[s])
      BY <1>5, <2>1 DEF Writing
    <3>2. \A t \in Senders : ~ Writing(sender'[t])
      BY <1>5, <3>1
    <3> QED
      BY <1>4, <1>12, <2>1, <3>2 DEF Ends
  <2>2. CASE j.part # j.len
    <3>1. Writing(sender'[s])
      BY <1>5, <2>2 DEF Writing
    <3> QED
      BY <1>4, <1>5, <1>12, <2>2, <3>1 DEF Ends
  <2> QED
    BY <2>1, <2>2
<1>14. Last' = j
  BY <1>10 DEF Last
<1>15. pending' # <<>> => Follows(Before', pending'[1])
  <2>1. CASE c = 0
    <3>1. pending'[1] = j /\ Last = Before
      BY <1>1, <1>10, <2>1 DEF Last
    <3> QED
      BY <1>3, <1>11, <3>1
  <2>2. CASE c # 0
    <3>1. pending'[1] = pending[1] /\ pending # <<>>
      BY <1>1, <1>10, <2>2
    <3> QED
      BY <1>3, <3>1 DEF QInv, ChainInv
  <2> QED
    BY <2>1, <2>2
<1>16. \A k \in 1 .. Len(pending') - 1 : Follows(pending'[k], pending'[k + 1])
  <2> SUFFICES ASSUME NEW k \in 1 .. c PROVE Follows(pending'[k], pending'[k + 1])
    BY <1>1, <1>10
  <2>1. CASE k = c
    <3>1. pending'[k] = Last /\ pending'[k + 1] = j
      BY <1>1, <1>10, <2>1 DEF Last, c
    <3> QED
      BY <1>11, <3>1
  <2>2. CASE k # c
    <3>1. k \in 1 .. c - 1 /\ k + 1 \in 1 .. c
      BY <1>1, <2>2
    <3>2. Follows(pending[k], pending[k + 1])
      BY <3>1 DEF QInv, ChainInv, c
    <3> QED
      BY <1>10, <3>1, <3>2
  <2> QED
    BY <2>1, <2>2
<1>17. CompleteInv'
  <2> SUFFICES ASSUME NEW k \in 1 .. Len(pending'), pending'[k].part = pending'[k].len
               PROVE  /\ pending'[k].num \in 1 .. Len(log')
                      /\ log'[pending'[k].num].from = pending'[k].from
                      /\ log'[pending'[k].num].seq = pending'[k].seq
    BY DEF CompleteInv
  <2>0. Len(log') \in Nat /\ Len(log') >= n
    BY <1>1, <1>12
  <2>1. CASE k = c + 1
    BY <1>1, <1>4, <1>10, <1>12, <2>1
  <2>2. CASE k # c + 1
    <3>1. k \in 1 .. c /\ pending'[k] = pending[k]
      BY <1>1, <1>10, <2>2
    <3>2. /\ pending[k].num \in 1 .. n
          /\ log[pending[k].num].from = pending[k].from /\ log[pending[k].num].seq = pending[k].seq
      BY <3>1 DEF QInv, CompleteInv, c, n
    <3>3. pending[k].num \in 1 .. Len(log')
      BY <1>1, <2>0, <3>2
    <3> QED
      BY <1>12, <3>1, <3>2, <3>3
  <2> QED
    BY <2>1, <2>2
<1>18. Len(log') >= Len(log)
  BY <1>1, <1>12 DEF n
<1> QED
  BY <1>13, <1>14, <1>15, <1>16, <1>17, <1>18 DEF ChainInv

(* The other steps move no item. *)
LEMMA StillStep ==
  ASSUME QInv, pending' = pending, log' = log, Before' = Before,
         Ends(Last, sender, Len(log)) => Ends(Last, sender', Len(log))
  PROVE  CompleteInv' /\ ChainInv'
  BY DEF QInv, CompleteInv, ChainInv, Last

(* The helper reads a command: the first item of the next message. *)
LEMMA CommandStep ==
  ASSUME QInv, HelperCommand
  PROVE  CompleteInv' /\ ChainInv' /\ ArgsInv' /\ delivered' = delivered
<1>1. /\ exter.at = "scan" /\ pending # <<>> /\ pending' = Tail(pending)
      /\ sender' = sender /\ log' = log /\ delivered' = delivered
  BY DEF HelperCommand, senders
<1>2. pending[1] \in Items /\ Head(pending) = pending[1]
  <2>1. pending \in Seq(Items) /\ Len(pending) \in Nat /\ Len(pending) > 0
    BY <1>1, PendingPositions DEF QInv
  <2> QED
    BY <2>1, ElementOfSeq
<1>3. Len(delivered) \in Nat
  BY LenProperties DEF QInv
<1>4. pending[1].part = 1 /\ pending[1].num = Len(delivered) + 1
  BY <1>1 DEF QInv, ChainInv, Follows, Before
<1>5. pending[1].len \in 2 .. 4
  BY <1>2 DEF Items
<1>6. exter' = [exter EXCEPT !.at = "args", !.msg = pending[1], !.got = 1,
                             !.need = pending[1].len, !.whole = pending[1].part = 1]
  <2>1. PICK need \in IF Head(pending).part = 1 THEN {Head(pending).len} ELSE 1 .. 4 :
          exter' = [exter EXCEPT !.at = IF need = 1 THEN "scan" ELSE "args",
                      !.msg = Head(pending), !.got = 1, !.need = need,
                      !.whole = Head(pending).part = 1]
    BY DEF HelperCommand
  <2>2. need = pending[1].len /\ need # 1
    BY <1>2, <1>4, <1>5, <2>1
  <2> QED
    BY <1>2, <2>1, <2>2
<1>7. ExterRecord(exter)
  BY DEF QInv, IInv, Types, ExterTypes
<1>8. /\ exter'.at = "args" /\ exter'.msg = pending[1] /\ exter'.got = 1
      /\ exter'.need = pending[1].len /\ exter'.whole = (pending[1].part = 1)
  BY <1>6, <1>7 DEF ExterRecord
<1>9. exter'.whole = TRUE
  BY <1>4, <1>8, Zenon
<1>10. ArgsInv'
  BY <1>1, <1>4, <1>5, <1>8, <1>9 DEF ArgsInv
<1>11. Before' = pending[1]
  BY <1>2, <1>4, <1>8 DEF Before, Items
<1> QED
  BY <1>1, <1>10, <1>11, ShiftStep

(* The helper reads an argument, and with the last one delivers what was   *)
(* sent next.                                                              *)
LEMMA ArgumentStep ==
  ASSUME QInv, HelperArgument
  PROVE  /\ CompleteInv' /\ ChainInv' /\ ArgsInv' /\ sender' = sender /\ log' = log
         /\ \/ delivered' = delivered
            \/ /\ Len(delivered) + 1 \in 1 .. Len(log)
               /\ delivered' = Append(delivered, [from |-> log[Len(delivered) + 1].from,
                                                  seq |-> log[Len(delivered) + 1].seq,
                                                  whole |-> TRUE])
<1>1. /\ exter.at = "args" /\ pending # <<>> /\ pending' = Tail(pending)
      /\ sender' = sender /\ log' = log
  BY DEF HelperArgument, senders
<1>2. pending[1] \in Items /\ Head(pending) = pending[1] /\ 1 \in 1 .. Len(pending)
  <2>1. pending \in Seq(Items) /\ Len(pending) \in Nat /\ Len(pending) > 0
    BY <1>1, PendingPositions DEF QInv
  <2> QED
    BY <2>1, ElementOfSeq
<1>3. Len(delivered) \in Nat
  BY LenProperties DEF QInv
<1>4. ExterRecord(exter) /\ exter.msg \in Items /\ exter.got \in Nat /\ exter.need \in Nat
  BY <1>1 DEF QInv, IInv, Types, ExterTypes
<1>5. /\ exter.whole = TRUE /\ exter.need = exter.msg.len /\ exter.got \in 1 .. exter.need - 1
      /\ exter.msg.part = 1 /\ exter.msg.num = Len(delivered) + 1
  BY <1>1 DEF QInv, ArgsInv
<1>6. /\ pending[1].part = exter.got + 1 /\ pending[1].from = exter.msg.from
      /\ pending[1].seq = exter.msg.seq /\ pending[1].len = exter.msg.len
      /\ pending[1].num = exter.msg.num
  <2>1. Before = [exter.msg EXCEPT !.part = exter.got]
    BY <1>1 DEF Before
  <2>2. /\ Before.part = exter.got /\ Before.from = exter.msg.from /\ Before.seq = exter.msg.seq
        /\ Before.len = exter.msg.len /\ Before.num = exter.msg.num
    BY <1>4, <2>1 DEF Items
  <2>3. Follows(Before, pending[1])
    BY <1>1 DEF QInv, ChainInv
  <2>4. Before.part # Before.len
    BY <1>4, <1>5, <2>2 DEF Items
  <2> QED
    BY <2>2, <2>3, <2>4 DEF Follows
<1>7. pending[1] = [exter.msg EXCEPT !.part = exter.got + 1]
  BY <1>2, <1>4, <1>6 DEF Items
<1> DEFINE whole == exter.whole /\ pending[1] = [exter.msg EXCEPT !.part = exter.got + 1]
           at == IF exter.got + 1 = exter.need THEN "act" ELSE "args"
<1>8. whole = TRUE
  BY <1>5, <1>7, Zenon
<1>9. exter' = [exter EXCEPT !.got = exter.got + 1, !.whole = whole, !.at = at]
  BY <1>2 DEF HelperArgument
<1>10. delivered' = IF exter.got + 1 # exter.need THEN delivered
                    ELSE Append(delivered, [from |-> exter.msg.from, seq |-> exter.msg.seq,
                                            whole |-> whole])
  BY <1>2 DEF HelperArgument
<1> HIDE DEF whole, at
<1>11. /\ exter'.got = exter.got + 1 /\ exter'.whole = whole /\ exter'.at = at
       /\ exter'.msg = exter.msg /\ exter'.need = exter.need
  BY <1>4, <1>9 DEF ExterRecord
<1>12. CASE exter.got + 1 # exter.need
  <2>1. at = "args" /\ delivered' = delivered
    BY <1>10, <1>12 DEF at
  <2>2. exter.got + 1 \in 1 .. exter.need - 1
    BY <1>4, <1>5, <1>12
  <2>3. exter'.whole = TRUE
    BY <1>8, <1>11, Zenon
  <2>4. ArgsInv'
    BY <1>5, <1>11, <2>1, <2>2, <2>3 DEF ArgsInv
  <2>5. Before' = pending[1]
    BY <1>7, <1>11, <2>1 DEF Before
  <2> QED
    BY <1>1, <2>1, <2>4, <2>5, ShiftStep
<1>13. CASE exter.got + 1 = exter.need
  <2>1. at = "act"
    BY <1>13 DEF at
  <2>2. ArgsInv'
    BY <1>11, <2>1 DEF ArgsInv
  <2>3. delivered' = Append(delivered, [from |-> exter.msg.from, seq |-> exter.msg.seq, whole |-> TRUE])
    <3>1. delivered' = Append(delivered, [from |-> exter.msg.from, seq |-> exter.msg.seq, whole |-> whole])
      BY <1>10, <1>13
    <3> QED
      BY <1>8, <3>1, Zenon
  <2>4. Len(delivered') = Len(delivered) + 1
    <3>1. [from |-> exter.msg.from, seq |-> exter.msg.seq, whole |-> TRUE] \in Deliveries
      BY <1>4 DEF Items, Deliveries
    <3> QED
      BY <2>3, <3>1, AppendProperties DEF QInv
  <2>5. /\ Before'.part = Before'.len /\ pending[1].part = pending[1].len
        /\ Before'.num = pending[1].num
    BY <1>5, <1>6, <1>11, <1>13, <2>1, <2>4 DEF Before
  <2>6. /\ pending[1].num \in 1 .. Len(log)
        /\ log[pending[1].num].from = pending[1].from /\ log[pending[1].num].seq = pending[1].seq
    BY <1>2, <2>5 DEF QInv, CompleteInv
  <2>7. /\ Len(delivered) + 1 \in 1 .. Len(log)
        /\ log[Len(delivered) + 1].from = exter.msg.from /\ log[Len(delivered) + 1].seq = exter.msg.seq
    BY <1>5, <1>6, <2>6
  <2> QED
    BY <1>1, <2>2, <2>3, <2>5, <2>7, ShiftStep
<1> QED
  BY <1>12, <1>13

LEMMA BeforeFrame ==
  ASSUME QInv, [Next]_vars, ~ HelperCommand, ~ HelperArgument, ~ ResetEnd
  PROVE  delivered' = delivered /\ Before' = Before /\ ArgsInv'
<1>1. CASE InterruptServer \/ ExterWakes \/ HelperBusy \/ HelperEnter \/ HelperEnd \/ ExterActs \/ HelperUnit
  <2>1. delivered' = delivered
    BY <1>1 DEF InterruptServer, ExterWakes, HelperBusy, HelperEnter, HelperEnd, ExterActs, HelperUnit
  <2>2. exter.at # "args"
    BY <1>1 DEF InterruptServer, ExterWakes, HelperBusy, HelperEnter, HelperEnd, ExterActs,
      HelperUnit, CpuFree
  <2>3. exter'.at # "args"
    <3>1. CASE InterruptServer
      BY <2>2, <3>1 DEF InterruptServer, QInv, IInv, Types, ExterTypes, ExterRecord
    <3>2. CASE ExterWakes \/ HelperBusy \/ HelperEnter
      BY <3>2 DEF ExterWakes, HelperBusy, HelperEnter, QInv, IInv, Types, ExterTypes, ExterRecord
    <3>3. CASE HelperEnd
      BY <3>3 DEF HelperEnd, QInv, IInv, Types, ExterTypes, ExterRecord
    <3>4. CASE ExterActs \/ HelperUnit
      BY <3>4 DEF ExterActs, HelperUnit, QInv, IInv, Types, ExterTypes, ExterRecord
    <3> QED
      BY <1>1, <3>1, <3>2, <3>3, <3>4
  <2> QED
    BY <2>1, <2>2, <2>3 DEF Before, ArgsInv
<1>2. CASE ~ ChangesExter
  <2>1. exter' = exter /\ delivered' = delivered
    BY <1>2, ExterFrame
  <2> QED
    BY <2>1 DEF Before, ArgsInv, QInv
<1> QED
  BY <1>1, <1>2 DEF ChangesExter

LEMMA QInitial == ASSUME Init, Installs = 1 PROVE QInv
<1>1. IInv
  BY Initial
<1>2. NoReset /\ ArgsInv /\ exter.at = "wait" /\ pending = <<>> /\ log = <<>> /\ delivered = <<>>
  BY DEF Init, NoReset, ArgsInv
<1>3. Len(pending) = 0 /\ Len(log) = 0 /\ Len(delivered) = 0 /\ delivered \in Seq(Deliveries)
  BY <1>2, EmptySeq
<1>4. \A s \in Senders : ~ Writing(sender[s])
  BY DEF Init, Idle, Writing
<1>5. Ends(Last, sender, Len(log))
  BY <1>2, <1>3, <1>4 DEF Last, Before, Ends
<1> QED
  BY <1>1, <1>2, <1>3, <1>5 DEF QInv, CompleteInv, ChainInv

LEMMA QStep ==
  ASSUME QInv, [Next]_vars, resets'.count = 0, Installs = 1
  PROVE  QInv'
<1>1. IInv' /\ NoReset' /\ ~ ResetBegin /\ ~ ResetEnd
  BY Step, NoResetStep DEF QInv
<1> DEFINE R == /\ CompleteInv' /\ ChainInv' /\ ArgsInv'
                /\ delivered' \in Seq(Deliveries) /\ Len(delivered') <= Len(log')
<1>q. ASSUME R PROVE QInv'
  BY <1>1, <1>q DEF QInv
<1>d. /\ delivered \in Seq(Deliveries) /\ Len(delivered) <= Len(log)
      /\ Len(delivered) \in Nat /\ Len(log) \in Nat /\ SenderTypes
  BY LenProperties, PendingPositions DEF QInv, IInv, Types
<1>2. CASE HelperCommand
  <2>1. delivered' = delivered /\ log' = log
    BY <1>2, CommandStep DEF HelperCommand, senders
  <2> QED
    BY <1>2, <1>d, <2>1, CommandStep, <1>q
<1>3. CASE HelperArgument
  <2>1. CompleteInv' /\ ChainInv' /\ ArgsInv' /\ log' = log
    BY <1>3, ArgumentStep
  <2>2. CASE delivered' = delivered
    BY <1>d, <1>q, <2>1, <2>2
  <2>3. CASE delivered' # delivered
    <3> DEFINE m == [from |-> log[Len(delivered) + 1].from, seq |-> log[Len(delivered) + 1].seq,
                     whole |-> TRUE]
    <3>1. Len(delivered) + 1 \in 1 .. Len(log) /\ delivered' = Append(delivered, m)
      BY <1>3, <2>3, ArgumentStep
    <3>2. log \in Seq(Messages)
      BY DEF QInv, IInv, Types, PipeTypes, Messages
    <3>3. log[Len(delivered) + 1] \in Messages
      BY <3>1, <3>2, ElementOfSeq
    <3>4. m \in Deliveries
      BY <3>3 DEF Messages, Deliveries
    <3> HIDE DEF m
    <3>5. delivered' \in Seq(Deliveries) /\ Len(delivered') = Len(delivered) + 1
      BY <1>d, <3>1, <3>4, AppendProperties
    <3> QED
      BY <1>d, <1>q, <2>1, <3>1, <3>5
  <2> QED
    BY <2>2, <2>3
<1>4. CASE ~ HelperCommand /\ ~ HelperArgument
  <2>1. delivered' = delivered /\ Before' = Before /\ ArgsInv'
    BY <1>1, <1>4, BeforeFrame
  <2>2. ASSUME NEW s \in Senders, WriteItem(s) PROVE QInv'
    <3>1. CompleteInv' /\ ChainInv' /\ Len(log') >= Len(log)
      BY <2>2, WriteStep
    <3>2. Len(log') \in Nat
      BY <1>1, LenProperties DEF IInv, Types, PipeTypes
    <3>3. Len(delivered') <= Len(log')
      BY <1>d, <2>1, <3>1, <3>2
    <3> QED
      BY <1>d, <1>q, <2>1, <3>1, <3>3
  <2>3. ASSUME pending' = pending, log' = log,
               Ends(Last, sender, Len(log)) => Ends(Last, sender', Len(log))
        PROVE  QInv'
    BY <1>d, <1>q, <2>1, <2>3, StillStep
  <2>4. ASSUME NEW s \in Senders, NativeSemWait(s) PROVE QInv'
    <3>1. \A t \in Senders : sender[t].at = "idle"
      <4>1. n2asem # 0
        BY <2>4 DEF NativeSemWait
      <4> QED
        BY <4>1, OneHolder DEF QInv
    <3>2. \A t \in Senders : ~ Writing(sender[t])
      BY <3>1 DEF Writing
    <3>3. PICK len : sender' = [sender EXCEPT ![s] = [at |-> "write", seq |-> sender[s].seq + 1,
                                                     len |-> len, part |-> 1]]
      BY <2>4 DEF NativeSemWait
    <3>4. \A t \in Senders : Writing(sender'[t]) => sender'[t].part = 1
      BY <1>d, <3>2, <3>3 DEF SenderTypes
    <3>5. Ends(Last, sender, Len(log)) => Ends(Last, sender', Len(log))
      BY <3>2, <3>4 DEF Ends
    <3>6. pending' = pending /\ log' = log
      BY <2>4 DEF NativeSemWait
    <3> QED
      BY <2>3, <3>5, <3>6
  <2>5. ASSUME NEW s \in Senders, PipeFull(s) \/ RequestInt(s) PROVE QInv'
    <3>1. \A t \in Senders : /\ Writing(sender'[t]) <=> Writing(sender[t])
                             /\ Writing(sender[t]) => /\ sender'[t].part = sender[t].part
                                                      /\ sender'[t].len = sender[t].len
                                                      /\ sender'[t].seq = sender[t].seq
      BY <1>d, <2>5 DEF SenderTypes, SenderRecord, Writing, PipeFull, RequestInt
    <3>2. Ends(Last, sender, Len(log)) => Ends(Last, sender', Len(log))
      BY <3>1 DEF Ends
    <3>3. pending' = pending /\ log' = log
      BY <2>5 DEF PipeFull, RequestInt
    <3> QED
      BY <2>3, <3>2, <3>3
  <2>6. CASE ~ ChangesPipe
    <3>1. pending' = pending /\ log' = log /\ sender' = sender
      BY <2>6, PipeFrame
    <3> QED
      BY <2>3, <3>1
  <2> QED
    BY <1>1, <1>4, <2>2, <2>4, <2>5, <2>6 DEF ChangesPipe
<1> QED
  BY <1>2, <1>3, <1>4

-----------------------------------------------------------------------------
(* The abstract state. *)
Queue == [k \in 1 .. Len(log) - Len(delivered) |-> log[Len(delivered) + k]]
Sent == [s \in Senders |-> Written(s)]
Taken == [k \in 1 .. Len(delivered) |->
            [from |-> delivered[k].from,
             seq  |-> IF delivered[k].whole THEN delivered[k].seq ELSE 0]]

LEMMA QInvSeqs ==
  ASSUME QInv
  PROVE  /\ log \in Seq(Messages) /\ delivered \in Seq(Deliveries) /\ Len(delivered) <= Len(log)
         /\ Len(log) \in Nat /\ Len(delivered) \in Nat
         /\ SenderTypes
<1>1. log \in Seq(Messages) /\ delivered \in Seq(Deliveries)
  BY DEF QInv, IInv, Types, PipeTypes, Messages
<1>2. Len(log) \in Nat /\ Len(delivered) \in Nat
  BY <1>1, LenProperties
<1> QED
  BY <1>1, <1>2 DEF QInv, IInv, Types

(* Which sender has sent how many depends on the senders alone. *)
LEMMA SentSame ==
  ASSUME \A t \in Senders : Written(t)' = Written(t)
  PROVE  Sent' = Sent
  BY DEF Sent

LEMMA TakenAppend ==
  ASSUME QInv, NEW m \in Messages,
         delivered' = Append(delivered, [from |-> m.from, seq |-> m.seq, whole |-> TRUE])
  PROVE  Taken' = Append(Taken, m)
<1> DEFINE d == [from |-> m.from, seq |-> m.seq, whole |-> TRUE]
           D == Len(delivered)
           Msg(x) == [from |-> x.from, seq |-> IF x.whole THEN x.seq ELSE 0]
<1>1. delivered \in Seq(Deliveries) /\ D \in Nat
  BY QInvSeqs
<1>2. d \in Deliveries /\ Msg(d) = m
  BY DEF Deliveries, Messages
<1>3. \A x \in Deliveries : Msg(x) \in Messages
  BY DEF Deliveries, Messages
<1>4. /\ delivered' \in Seq(Deliveries) /\ Len(delivered') = D + 1
      /\ \A k \in 1 .. D : delivered'[k] = delivered[k]
      /\ delivered'[D + 1] = d
  BY <1>1, <1>2, AppendProperties
<1>5. Taken = [k \in 1 .. D |-> Msg(delivered[k])] /\ Taken' = [k \in 1 .. D + 1 |-> Msg(delivered'[k])]
  BY <1>4 DEF Taken
<1> HIDE DEF d, D, Msg
<1>6. Taken \in Seq(Messages) /\ Len(Taken) = D /\ \A k \in 1 .. D : Taken[k] = Msg(delivered[k])
  <2>1. \A k \in 1 .. D : delivered[k] \in Deliveries
    BY <1>1, ElementOfSeq DEF D
  <2>2. Taken \in [1 .. D -> Messages]
    BY <1>3, <1>5, <2>1
  <2> QED
    BY <1>1, <1>5, <2>2
<1>7. /\ Taken' \in Seq(Messages) /\ Len(Taken') = D + 1
      /\ \A k \in 1 .. D + 1 : Taken'[k] = Msg(delivered'[k])
  <2>1. \A k \in 1 .. D + 1 : delivered'[k] \in Deliveries
    BY <1>4, ElementOfSeq
  <2> DEFINE T == [k \in 1 .. D + 1 |-> Msg(delivered'[k])]
  <2>2. T \in [1 .. D + 1 -> Messages]
    BY <1>3, <2>1
  <2>3. \A k \in 1 .. D + 1 : T[k] = Msg(delivered'[k])
    OBVIOUS
  <2>4. Taken' = T /\ D + 1 \in Nat
    BY <1>1, <1>5
  <2> HIDE DEF T
  <2>5. T \in Seq(Messages) /\ Len(T) = D + 1
    BY <2>2, <2>4
  <2> QED
    BY <2>3, <2>4, <2>5
<1>8. /\ Append(Taken, m) \in Seq(Messages) /\ Len(Append(Taken, m)) = D + 1
      /\ \A k \in 1 .. D : Append(Taken, m)[k] = Taken[k]
      /\ Append(Taken, m)[D + 1] = m
  BY <1>6, AppendProperties
<1>9. \A k \in 1 .. D + 1 : Taken'[k] = Append(Taken, m)[k]
  <2> TAKE k \in 1 .. D + 1
  <2>1. CASE k = D + 1
    BY <1>1, <1>2, <1>4, <1>7, <1>8, <2>1
  <2>2. CASE k # D + 1
    <3>1. k \in 1 .. D
      BY <1>1, <2>2
    <3> QED
      BY <1>4, <1>6, <1>7, <1>8, <3>1
  <2> QED
    BY <2>1, <2>2
<1> QED
  BY <1>7, <1>8, <1>9, SeqEqual

(* Writing the last item sends the message; another item is a stutter.     *)
LEMMA WriteRefines ==
  ASSUME QInv, QInv', NEW s \in Senders, WriteItem(s), Installs = 1
  PROVE  \/ Mailbox!Send(s)
         \/ Queue' = Queue /\ Sent' = Sent /\ Taken' = Taken
<1>1. /\ log \in Seq(Messages) /\ Len(delivered) <= Len(log)
      /\ Len(log) \in Nat /\ Len(delivered) \in Nat /\ SenderTypes
  BY QInvSeqs
<1>2. delivered' = delivered
  BY DEF WriteItem, extvars
<1>3. sender[s] = [at |-> sender[s].at, seq |-> sender[s].seq, len |-> sender[s].len,
                   part |-> sender[s].part] /\ sender[s].seq \in Nat /\ sender[s].at \in {"write", "full"}
  BY <1>1 DEF SenderTypes, SenderRecord, WriteItem
<1>4. /\ \A t \in Senders : t # s => sender'[t] = sender[t]
      /\ sender'[s].seq = sender[s].seq
      /\ sender'[s].at = IF sender[s].part = sender[s].len THEN "request" ELSE "write"
  BY <1>1, <1>3 DEF WriteItem, SenderTypes, SenderRecord
<1>5. \A t \in Senders : t # s => Written(t)' = Written(t)
  BY <1>4 DEF Written
<1>6. Taken' = Taken
  BY <1>2 DEF Taken
<1>7. CASE sender[s].part = sender[s].len
  <2> DEFINE m == [from |-> s, seq |-> sender[s].seq]
  <2>1. m \in Messages
    BY <1>3 DEF Messages
  <2>2. log' = Append(log, m)
    BY <1>7 DEF WriteItem
  <2>3. Written(s) = sender[s].seq - 1 /\ Written(s)' = sender[s].seq
    BY <1>3, <1>4, <1>7 DEF Written
  <2>4. Queue = Window(log, Len(delivered)) /\ Queue' = Window(Append(log, m), Len(delivered))
    BY <1>2, <2>2 DEF Queue, Window
  <2>5. Queue' = Append(Queue, m)
    BY <1>1, <2>1, <2>4, WindowAppend
  <2>6. Written(s)' = Written(s) + 1 /\ Sent[s] + 1 = sender[s].seq
    BY <1>3, <2>3 DEF Sent
  <2>7. Sent' = [Sent EXCEPT ![s] = Sent[s] + 1]
    BY <1>5, <2>6 DEF Sent
  <2> QED
    BY <1>6, <2>5, <2>6, <2>7 DEF Mailbox!Send, Queue, Sent, Taken
<1>8. CASE sender[s].part # sender[s].len
  <2>1. log' = log
    BY <1>8 DEF WriteItem
  <2>2. Written(s)' = Written(s)
    BY <1>3, <1>4, <1>8 DEF Written
  <2>3. Queue' = Queue
    BY <1>2, <2>1 DEF Queue
  <2> QED
    BY <1>5, <1>6, <2>2, <2>3, SentSame
<1> QED
  BY <1>7, <1>8

(* Reading the last item takes the message; another item is a stutter.     *)
LEMMA ArgumentRefines ==
  ASSUME QInv, HelperArgument
  PROVE  \/ Mailbox!Take
         \/ Queue' = Queue /\ Sent' = Sent /\ Taken' = Taken
<1>1. /\ log \in Seq(Messages) /\ Len(log) \in Nat /\ Len(delivered) \in Nat
      /\ delivered \in Seq(Deliveries)
  BY QInvSeqs
<1>2. sender' = sender /\ log' = log
  BY ArgumentStep
<1>3. Sent' = Sent
  BY <1>2 DEF Sent, Written
<1>4. CASE delivered' = delivered
  BY <1>2, <1>3, <1>4 DEF Queue, Taken
<1>5. CASE delivered' # delivered
  <2> DEFINE m == log[Len(delivered) + 1]
  <2>1. /\ Len(delivered) + 1 \in 1 .. Len(log)
        /\ delivered' = Append(delivered, [from |-> m.from, seq |-> m.seq, whole |-> TRUE])
    BY <1>5, ArgumentStep
  <2>2. m \in Messages
    BY <1>1, <2>1, ElementOfSeq
  <2>3. Taken' = Append(Taken, m)
    BY <2>1, <2>2, TakenAppend
  <2>4. Len(delivered') = Len(delivered) + 1
    <3>1. [from |-> m.from, seq |-> m.seq, whole |-> TRUE] \in Deliveries
      BY <2>2 DEF Messages, Deliveries
    <3> QED
      BY <1>1, <2>1, <3>1, AppendProperties
  <2>5. Queue = Window(log, Len(delivered)) /\ Queue' = Window(log, Len(delivered) + 1)
    BY <1>2, <2>4 DEF Queue, Window
  <2>6. Queue # <<>> /\ Head(Queue) = m /\ Queue' = Tail(Queue)
    BY <1>1, <2>1, <2>5, WindowTail
  <2> QED
    BY <1>3, <2>3, <2>6 DEF Mailbox!Take, Queue, Sent, Taken
<1> QED
  BY <1>4, <1>5

LEMMA OtherStutters ==
  ASSUME QInv, [Next]_vars, ~ HelperArgument, ~ ResetBegin, ~ ResetEnd,
         ~ \E s \in Senders : WriteItem(s)
  PROVE  Queue' = Queue /\ Sent' = Sent /\ Taken' = Taken
<1>1. delivered' = delivered
  BY BeforeFrame, CommandStep
<1>2. SenderTypes
  BY QInvSeqs
<1>3. log' = log /\ Sent' = Sent
  <2>1. ASSUME NEW s \in Senders, NativeSemWait(s) PROVE log' = log /\ Sent' = Sent
    <3>1. PICK len : sender' = [sender EXCEPT ![s] = [at |-> "write", seq |-> sender[s].seq + 1,
                                                     len |-> len, part |-> 1]]
      BY <2>1 DEF NativeSemWait
    <3>2. sender[s].at = "idle" /\ sender[s].seq \in Nat /\ log' = log
      BY <1>2, <2>1 DEF NativeSemWait, SenderTypes, SenderRecord
    <3>3. \A t \in Senders : t # s => sender'[t] = sender[t]
      BY <1>2, <3>1 DEF SenderTypes
    <3>4. sender'[s].at = "write" /\ sender'[s].seq = sender[s].seq + 1
      BY <1>2, <3>1 DEF SenderTypes
    <3>5. Written(s)' = Written(s)
      BY <3>2, <3>4 DEF Written
    <3>6. \A t \in Senders : Written(t)' = Written(t)
      BY <3>3, <3>5 DEF Written
    <3> QED
      BY <3>2, <3>6, SentSame
  <2>2. ASSUME NEW s \in Senders, PipeFull(s) \/ RequestInt(s) PROVE log' = log /\ Sent' = Sent
    <3>1. \A t \in Senders : /\ sender'[t].at \in {"write", "full"} <=> sender[t].at \in {"write", "full"}
                             /\ sender'[t].seq = sender[t].seq
      BY <1>2, <2>2 DEF SenderTypes, SenderRecord, PipeFull, RequestInt
    <3>2. \A t \in Senders : Written(t)' = Written(t)
      BY <3>1 DEF Written
    <3>3. log' = log
      BY <2>2 DEF PipeFull, RequestInt
    <3> QED
      BY <3>2, <3>3, SentSame
  <2>3. CASE HelperCommand \/ ~ ChangesPipe
    <3>1. log' = log /\ sender' = sender
      BY <2>3, PipeFrame DEF HelperCommand, senders
    <3> QED
      BY <3>1 DEF Sent, Written
  <2> QED
    BY <2>1, <2>2, <2>3 DEF ChangesPipe
<1> QED
  BY <1>1, <1>3 DEF Queue, Taken

-----------------------------------------------------------------------------
(* Resets are counted. *)
LEMMA CountStep ==
  ASSUME resets.count \in 0 .. MaxResets, [Next]_vars
  PROVE  resets'.count \in 0 .. MaxResets /\ (resets'.count = 0 => resets.count = 0)
<1>1. CASE ResetBegin
  <2>1. resets'.count = resets.count + 1 /\ resets.count < MaxResets
    BY <1>1 DEF ResetBegin
  <2> QED
    BY <2>1, ExterAssumption
<1>2. CASE ResetEnd
  <2>1. resets' = [resets EXCEPT !.busy = FALSE]
    BY <1>2 DEF ResetEnd
  <2>2. resets'.count = resets.count
    BY <2>1
  <2> QED
    BY <2>2
<1>3. CASE ~ ResetBegin /\ ~ ResetEnd
  <2>1. resets' = resets
    BY <1>3 DEF Next, SenderStep, ExterStep, HandlerStep, ThreadStep, NativeSemWait, PipeFull,
      WriteItem, RequestInt, InterruptServer, ExterWakes, HelperBusy, HelperEnter, HelperCommand,
      HelperArgument, ExterActs, HelperUnit, HelperEnd, Vsync, SendPacket, HandlerPacket,
      HandlerRefuses, HandlerDummy, HandlerScan, ThreadRead, ThreadCount, ThreadMark, ThreadRequest, vars
  <2> QED
    BY <2>1
<1> QED
  BY <1>1, <1>2, <1>3

LEMMA CountInvariant == Spec => [](resets.count \in 0 .. MaxResets)
<1>1. Init => resets.count \in 0 .. MaxResets
  BY ExterAssumption DEF Init
<1>2. resets.count \in 0 .. MaxResets /\ [Next]_vars => (resets.count \in 0 .. MaxResets)'
  BY CountStep
<1> QED
  BY <1>1, <1>2, PTL DEF Spec

(* Until the first reset, however many may follow, the pipe holds one      *)
(* chain of items of whole messages, and the helper is at its beginning:   *)
(* the inductive invariant.                                                *)
THEOREM QueueInvariant ==
  ASSUME Installs = 1
  PROVE  Spec => [](resets.count = 0 => QInv)
<1> DEFINE C == resets.count \in 0 .. MaxResets
           Q == resets.count = 0 => QInv
<1>1. Init => Q
  BY QInitial
<1>2. C /\ Q /\ [Next]_vars => Q'
  <2> SUFFICES ASSUME C, Q, [Next]_vars, resets'.count = 0 PROVE QInv'
    OBVIOUS
  <2>1. resets.count = 0
    BY CountStep
  <2> QED
    BY <2>1, QStep
<1>3. Spec => []C
  BY CountInvariant
<1> QED
  BY <1>1, <1>2, <1>3, PTL DEF Spec

(* "It's emptied via exter_int_helper": until the first reset, whatever    *)
(* the helper takes for a message is one message, all of it, from one      *)
(* sender.  Only native2amiga_reset can tear one apart.                    *)
THEOREM WholeUntilReset ==
  ASSUME Installs = 1
  PROVE  Spec => [](resets.count = 0 => MessagesAreWhole)
<1>1. QInv => MessagesAreWhole
  <2> SUFFICES ASSUME QInv, NEW i \in DOMAIN delivered PROVE delivered[i].whole
    BY DEF MessagesAreWhole
  <2>1. delivered \in Seq(Deliveries)
    BY DEF QInv
  <2>2. delivered[i] \in Deliveries
    BY <2>1
  <2> QED
    BY <2>2 DEF Deliveries
<1> QED
  BY <1>1, QueueInvariant, PTL

(* The senders of native2amiga.cpp and exter_int_helper implement a queue  *)
(* of whole messages, taken in the order they were sent: for any number of *)
(* senders and messages, after a first installation and as long as no      *)
(* reset has begun.                                                        *)
THEOREM QueueUntilReset ==
  ASSUME Installs = 1
  PROVE  Spec /\ [](resets.count = 0) => ImplementsMessageQueue
<1>1. Init => QInv /\ Mailbox!Init
  <2> SUFFICES ASSUME Init PROVE QInv /\ Mailbox!Init
    OBVIOUS
  <2>1. QInv
    BY QInitial
  <2>2. log = <<>> /\ delivered = <<>> /\ Len(log) = 0 /\ Len(delivered) = 0
    BY DEF Init
  <2>3. Queue = <<>> /\ Taken = <<>>
    BY <2>2 DEF Queue, Taken
  <2>4. Sent = [s \in Senders |-> 0]
    BY DEF Init, Idle, Sent, Written
  <2> QED
    BY <2>1, <2>3, <2>4 DEF Mailbox!Init, Queue, Sent, Taken
<1>2. QInv /\ (resets.count = 0)' /\ [Next]_vars => QInv'
  BY QStep
<1>3. QInv /\ QInv' /\ [Next]_vars => [Mailbox!Next]_(Mailbox!vars)
  <2> SUFFICES ASSUME QInv, QInv', [Next]_vars PROVE [Mailbox!Next]_(Mailbox!vars)
    OBVIOUS
  <2>0. ~ ResetBegin /\ ~ ResetEnd
    <3>1. NoReset /\ resets'.count = 0
      BY DEF QInv, NoReset
    <3> QED
      BY <3>1, NoResetStep
  <2>s. ASSUME Queue' = Queue /\ Sent' = Sent /\ Taken' = Taken
        PROVE  UNCHANGED Mailbox!vars
    BY <2>s DEF Mailbox!vars, Queue, Sent, Taken
  <2>1. CASE HelperArgument
    BY <2>1, <2>s, ArgumentRefines DEF Mailbox!Next
  <2>2. ASSUME NEW s \in Senders, WriteItem(s) PROVE [Mailbox!Next]_(Mailbox!vars)
    BY <2>2, <2>s, WriteRefines DEF Mailbox!Next
  <2>3. CASE ~ HelperArgument /\ ~ \E s \in Senders : WriteItem(s)
    BY <2>0, <2>3, <2>s, OtherStutters
  <2> QED
    BY <2>1, <2>2, <2>3
<1> QED
  BY <1>1, <1>2, <1>3, PTL DEF Spec, ImplementsMessageQueue, Mailbox!Spec

(* The same on a machine that is never reset. *)
THEOREM PipeImplementsMessageQueue ==
  ASSUME MaxResets = 0, Installs = 1
  PROVE  Spec => ImplementsMessageQueue
<1>1. resets.count \in 0 .. MaxResets => resets.count = 0
  OBVIOUS
<1> QED
  BY <1>1, CountInvariant, QueueUntilReset, PTL

=============================================================================
