---------------------------- MODULE SessionProofs ---------------------------
(***************************************************************************)
(* Proofs about the dialogue of the runner with its server, module         *)
(* TestbedSession, and, at the end, about the inside of a copy, module     *)
(* Copy.                                                                   *)
(*                                                                         *)
(* The dialogue is looked at in two parts.  StackInv says what may follow  *)
(* what in the list of what the runner has to do, and that is shown once   *)
(* for each way the list changes: its first step is replaced, steps are    *)
(* put in front, or an exception drops some.  SInv adds what is under way  *)
(* in the pipes, what the runner knows and what the server has been told;  *)
(* an action's proof looks at no more than the first two steps.            *)
(***************************************************************************)
EXTENDS TestbedSession, Copy, SequenceTheorems, TLAPS

(* What follows what in the list of steps.                                 *)

Dialogue == {"write", "flush", "expect", "read"}

\* What comes after a reply.
AfterReply(c, x) ==
    /\ c # "quit"
    /\ c = "banner" => x = [do |-> "write", cmd |-> "open"]
    /\ c \in {"open", "revert"} => x.do = "opened"
    /\ c = "print-execute-command" => x.do = "auxverb"
    /\ c \in {"capabilities", "copy", "reboot"} => x.do = "work"
    /\ c = "close" => x.do = "hangup"
    /\ c = "auxverb_debug_fail" => x.do = "debugged"

\* The step x follows the step a in a stack, in which there are d steps after a.
Link(a, x, d) ==
    /\ x.do = "read" => a.do = "handler"
    /\ a.do = "popen" => x = Expect("banner")
    /\ a.do = "write" => x.do = "flush" /\ x.cmd = a.cmd
    /\ a.do \in {"write", "flush"} => a.cmd \in Commands
    /\ a.do = "flush" => IF a.cmd = "quit" THEN x.do = "wait" ELSE x = Expect(a.cmd)
    /\ a.do \in {"expect", "read"} => AfterReply(a.cmd, x)
    /\ a.do = "opened" => x = [do |-> "write", cmd |-> "print-execute-command"]
    /\ a.do = "auxverb" => x = [do |-> "write", cmd |-> "capabilities"]
    /\ a.do \in {"exec", "running"} =>
          (x.do = "work" /\ d = 5) \/ (x.do = "stop" /\ d = 2)
    /\ a.do = "work" => x.do = "endtry" /\ d = 4
    /\ a.do = "endtry" => x.do = "reset" /\ d = 3
    /\ a.do = "reset" => x.do = "stop" /\ d = 2
    /\ a.do \in {"stop", "wait"} => x.do \in {"exit", "handler", "raise"}
    /\ a.do = "close" => x.do = "hangup"
    /\ a.do = "hangup" => x.do = "wait"
    /\ a.do \in {"debug_fail", "debugged"} => x.do = "bomb"
    /\ a.do \notin {"exit", "failed"}

Shaped(s) ==
    /\ s # <<>> /\ s[Len(s)].do \in {"exit", "failed"}
    /\ \A k \in 1 .. Len(s) - 1 : Link(s[k], s[k+1], Len(s) - k)

\* The same of steps that are put before d others.
Chain(t, d) == \A k \in 1 .. Len(t) - 1 : Link(t[k], t[k+1], Len(t) - k + d)

Without(s, D) == \A k \in 1 .. Len(s) : s[k].do \notin D
Once(s, d) == \A j, k \in 1 .. Len(s) : s[j].do = d /\ s[k].do = d => j = k

\* The steps of the signal handler.
InHandler(x) ==
    \/ x.do \in {"stop", "close", "hangup", "wait", "debug_fail", "debugged", "bomb", "raise"}
    \/ x.do \in Dialogue /\ x.cmd \in {"close", "quit", "auxverb_debug_fail"}

HandlerFirst(s) ==
    \E h \in 1 .. Len(s) : s[h].do = "handler" /\ \A j \in 1 .. h - 1 : InHandler(s[j])

\* The step the handler has interrupted.
Sending(x, c) == x.do \in {"write", "flush"} /\ x.cmd = c
UnsaidAt(x) == x.do = "close" \/ (x.do = "read" /\ x.cmd = "open") \/ Sending(x, "close")
Reads(s) == \E k \in 1 .. Len(s) - 1 : s[k].do = "handler" /\ s[k+1].do = "read"
Untold(s) == \E k \in 1 .. Len(s) - 1 : s[k].do = "handler" /\ UnsaidAt(s[k+1])

(* Replacing the first step.                                               *)

\* Steps t in the place of the first step of s.
LEMMA ReplacedIs ==
    ASSUME NEW s \in Seq(Step), s # <<>>, NEW t \in Seq(Step), NEW r, r = t \o Tail(s)
    PROVE  /\ r \in Seq(Step) /\ Len(r) = Len(t) + Len(s) - 1
           /\ \A k \in 1 .. Len(t) : r[k] = t[k]
           /\ \A k \in Len(t) + 1 .. Len(r) : r[k] = s[k - Len(t) + 1]
           /\ \A k \in 2 .. Len(s) : s[k] = r[k + Len(t) - 1]
<1>1. Tail(s) \in Seq(Step) /\ Len(Tail(s)) = Len(s) - 1 /\ \A k \in 1 .. Len(s) - 1 : Tail(s)[k] = s[k+1]
  BY HeadTailProperties
<1>2. /\ r \in Seq(Step) /\ Len(r) = Len(t) + Len(Tail(s))
      /\ \A k \in 1 .. Len(t) + Len(Tail(s)) :
            r[k] = IF k <= Len(t) THEN t[k] ELSE Tail(s)[k - Len(t)]
  BY <1>1, ConcatProperties
<1>3. Len(t) \in Nat /\ Len(s) \in Nat \ {0}
  BY EmptySeq, LenProperties
<1>4. \A k \in Len(t) + 1 .. Len(r) : r[k] = s[k - Len(t) + 1]
  <2> TAKE k \in Len(t) + 1 .. Len(r)
  <2>1. k - Len(t) \in 1 .. Len(s) - 1 /\ ~(k <= Len(t)) /\ k \in 1 .. Len(t) + Len(Tail(s))
    BY <1>1, <1>2, <1>3
  <2> QED
    BY <2>1, <1>1, <1>2
<1>5. \A k \in 2 .. Len(s) : s[k] = r[k + Len(t) - 1]
  <2> TAKE k \in 2 .. Len(s)
  <2>1. k + Len(t) - 1 \in Len(t) + 1 .. Len(r) /\ (k + Len(t) - 1) - Len(t) + 1 = k
    BY <1>1, <1>2, <1>3
  <2> QED
    BY <2>1, <1>4
<1> QED
  BY <1>1, <1>2, <1>3, <1>4, <1>5

\* The steps still follow each other as the code has them do.
LEMMA ReplacedShaped ==
    ASSUME NEW s \in Seq(Step), Shaped(s), Len(s) > 1, NEW t \in Seq(Step), NEW r, r = t \o Tail(s),
           Chain(t, Len(s) - 1), Len(t) > 0 => Link(t[Len(t)], s[2], Len(s) - 1)
    PROVE  Shaped(r)
<1>1. s # <<>> /\ Len(s) \in Nat /\ Len(t) \in Nat
  BY LenProperties DEF Shaped
<1>2. /\ r \in Seq(Step) /\ Len(r) = Len(t) + Len(s) - 1
      /\ \A k \in 1 .. Len(t) : r[k] = t[k]
      /\ \A k \in Len(t) + 1 .. Len(r) : r[k] = s[k - Len(t) + 1]
  BY <1>1, ReplacedIs
<1>3. r # <<>> /\ Len(r) \in Nat \ {0}
  BY <1>1, <1>2, EmptySeq
<1>4. r[Len(r)].do \in {"exit", "failed"}
  <2>1. Len(r) \in Len(t) + 1 .. Len(r) /\ Len(r) - Len(t) + 1 = Len(s)
    BY <1>1, <1>2
  <2> QED
    BY <2>1, <1>2 DEF Shaped
<1>5. ASSUME NEW k \in 1 .. Len(r) - 1 PROVE Link(r[k], r[k+1], Len(r) - k)
  <2>1. CASE k < Len(t)
    <3>1. /\ k \in 1 .. Len(t) - 1 /\ k + 1 \in 1 .. Len(t) /\ k \in 1 .. Len(t)
          /\ Len(r) - k = Len(t) - k + (Len(s) - 1)
      BY <2>1, <1>1, <1>2, <1>3
    <3> QED
      BY <3>1, <1>2 DEF Chain
  <2>2. CASE k = Len(t)
    <3>1. k \in 1 .. Len(t) /\ k + 1 \in Len(t) + 1 .. Len(r) /\ (k + 1) - Len(t) + 1 = 2 /\ Len(r) - k = Len(s) - 1
      BY <2>2, <1>1, <1>2, <1>3
    <3> QED
      BY <3>1, <2>2, <1>1, <1>2
  <2>3. CASE k > Len(t)
    <3> DEFINE j == k - Len(t) + 1
    <3>1. /\ k \in Len(t) + 1 .. Len(r) /\ k + 1 \in Len(t) + 1 .. Len(r) /\ (k + 1) - Len(t) + 1 = j + 1
          /\ j \in 1 .. Len(s) - 1 /\ Len(r) - k = Len(s) - j
      BY <2>3, <1>1, <1>2, <1>3
    <3>2. Link(s[j], s[j+1], Len(s) - j)
      BY <3>1 DEF Shaped
    <3>3. r[k] = s[j] /\ r[k+1] = s[j+1]
      BY <3>1, <1>2
    <3> QED
      BY <3>1, <3>2, <3>3
  <2> QED
    BY <2>1, <2>2, <2>3, <1>1, <1>3
<1> QED
  BY <1>3, <1>4, <1>5 DEF Shaped

\* No kind of step comes in that neither had.
LEMMA ReplacedWithout ==
    ASSUME NEW s \in Seq(Step), s # <<>>, NEW t \in Seq(Step), NEW r, r = t \o Tail(s),
           NEW D, Without(s, D), Without(t, D)
    PROVE  Without(r, D)
<1>1. Len(s) \in Nat /\ Len(t) \in Nat
  BY LenProperties
<1>2. /\ Len(r) = Len(t) + Len(s) - 1
      /\ \A k \in 1 .. Len(t) : r[k] = t[k]
      /\ \A k \in Len(t) + 1 .. Len(r) : r[k] = s[k - Len(t) + 1]
  BY ReplacedIs
<1>3. ASSUME NEW k \in 1 .. Len(r) PROVE r[k].do \notin D
  <2>1. CASE k <= Len(t)
    BY <2>1, <1>1, <1>2 DEF Without
  <2>2. CASE k > Len(t)
    <3>1. k \in Len(t) + 1 .. Len(r) /\ k - Len(t) + 1 \in 1 .. Len(s)
      BY <2>2, <1>1, <1>2
    <3> QED
      BY <3>1, <1>2 DEF Without
  <2> QED
    BY <2>1, <2>2, <1>1
<1> QED
  BY <1>3 DEF Without

\* What was there once and is not in t is there at most once.
LEMMA ReplacedOnce ==
    ASSUME NEW s \in Seq(Step), s # <<>>, NEW t \in Seq(Step), NEW r, r = t \o Tail(s),
           NEW d, Once(s, d), Without(t, {d})
    PROVE  Once(r, d)
<1>1. Len(s) \in Nat /\ Len(t) \in Nat
  BY LenProperties
<1>2. /\ Len(r) = Len(t) + Len(s) - 1
      /\ \A k \in 1 .. Len(t) : r[k] = t[k]
      /\ \A k \in Len(t) + 1 .. Len(r) : r[k] = s[k - Len(t) + 1]
  BY ReplacedIs
<1>3. ASSUME NEW k \in 1 .. Len(r), r[k].do = d
      PROVE  k > Len(t) /\ k - Len(t) + 1 \in 1 .. Len(s) /\ s[k - Len(t) + 1].do = d
  <2>1. k > Len(t)
    BY <1>1, <1>2, <1>3 DEF Without
  <2>2. k \in Len(t) + 1 .. Len(r) /\ k - Len(t) + 1 \in 1 .. Len(s)
    BY <2>1, <1>1, <1>2
  <2> QED
    BY <2>1, <2>2, <1>2, <1>3
<1>4. ASSUME NEW j \in 1 .. Len(r), NEW k \in 1 .. Len(r), r[j].do = d, r[k].do = d PROVE j = k
  <2>1. j - Len(t) + 1 = k - Len(t) + 1
    BY <1>3, <1>4 DEF Once
  <2> QED
    BY <2>1, <1>1
<1> QED
  BY <1>4 DEF Once

\* What was not there and is in t once is there at most once.
LEMMA ReplacedOnceMore ==
    ASSUME NEW s \in Seq(Step), s # <<>>, NEW t \in Seq(Step), NEW r, r = t \o Tail(s),
           NEW d, Without(s, {d}), Once(t, d)
    PROVE  Once(r, d)
<1>1. Len(s) \in Nat /\ Len(t) \in Nat
  BY LenProperties
<1>2. /\ Len(r) = Len(t) + Len(s) - 1
      /\ \A k \in 1 .. Len(t) : r[k] = t[k]
      /\ \A k \in Len(t) + 1 .. Len(r) : r[k] = s[k - Len(t) + 1]
  BY ReplacedIs
<1>3. ASSUME NEW k \in 1 .. Len(r), r[k].do = d
      PROVE  k \in 1 .. Len(t) /\ t[k].do = d
  <2>1. CASE k > Len(t)
    <3>1. k \in Len(t) + 1 .. Len(r) /\ k - Len(t) + 1 \in 1 .. Len(s)
      BY <2>1, <1>1, <1>2
    <3> QED
      BY <3>1, <1>2, <1>3 DEF Without
  <2>2. CASE k <= Len(t)
    BY <2>2, <1>1, <1>2, <1>3
  <2> QED
    BY <2>1, <2>2, <1>1
<1>4. ASSUME NEW j \in 1 .. Len(r), NEW k \in 1 .. Len(r), r[j].do = d, r[k].do = d PROVE j = k
  BY <1>3, <1>4 DEF Once
<1> QED
  BY <1>4 DEF Once

\* The signal handler is still in front.
LEMMA ReplacedHandler ==
    ASSUME NEW s \in Seq(Step), s # <<>>, s[1].do # "handler", NEW t \in Seq(Step), NEW r, r = t \o Tail(s),
           HandlerFirst(s), \A k \in 1 .. Len(t) : InHandler(t[k])
    PROVE  HandlerFirst(r)
<1>1. Len(s) \in Nat /\ Len(t) \in Nat
  BY LenProperties
<1>2. /\ Len(r) = Len(t) + Len(s) - 1
      /\ \A k \in 1 .. Len(t) : r[k] = t[k]
      /\ \A k \in Len(t) + 1 .. Len(r) : r[k] = s[k - Len(t) + 1]
  BY ReplacedIs
<1>3. PICK h \in 1 .. Len(s) : s[h].do = "handler" /\ \A j \in 1 .. h - 1 : InHandler(s[j])
  BY DEF HandlerFirst
<1>4. h # 1
  BY <1>3
<1> DEFINE g == h + Len(t) - 1
<1>5. g \in 1 .. Len(r) /\ g \in Len(t) + 1 .. Len(r) /\ g - Len(t) + 1 = h
  BY <1>1, <1>2, <1>3, <1>4
<1>6. r[g].do = "handler"
  BY <1>2, <1>3, <1>5
<1>7. ASSUME NEW k \in 1 .. g - 1 PROVE InHandler(r[k])
  <2>1. CASE k <= Len(t)
    BY <2>1, <1>1, <1>2, <1>5
  <2>2. CASE k > Len(t)
    <3>1. k \in Len(t) + 1 .. Len(r) /\ k - Len(t) + 1 \in 1 .. h - 1
      BY <2>2, <1>1, <1>2, <1>5
    <3> QED
      BY <3>1, <1>2, <1>3
  <2> QED
    BY <2>1, <2>2, <1>1, <1>2, <1>5
<1> QED
  BY <1>5, <1>6, <1>7 DEF HandlerFirst

\* What the handler has interrupted is the same.
LEMMA ReplacedUnder ==
    ASSUME NEW s \in Seq(Step), s # <<>>, s[1].do # "handler", NEW t \in Seq(Step), NEW r, r = t \o Tail(s),
           Without(t, {"handler"})
    PROVE  (Reads(r) <=> Reads(s)) /\ (Untold(r) <=> Untold(s))
<1>1. Len(s) \in Nat /\ Len(t) \in Nat
  BY LenProperties
<1>2. /\ Len(r) = Len(t) + Len(s) - 1
      /\ \A k \in 1 .. Len(t) : r[k] = t[k]
      /\ \A k \in Len(t) + 1 .. Len(r) : r[k] = s[k - Len(t) + 1]
      /\ \A k \in 2 .. Len(s) : s[k] = r[k + Len(t) - 1]
  BY ReplacedIs
<1>3. ASSUME NEW k \in 1 .. Len(r) - 1, r[k].do = "handler"
      PROVE  \E j \in 1 .. Len(s) - 1 : s[j] = r[k] /\ s[j+1] = r[k+1]
  <2>1. k > Len(t)
    BY <1>1, <1>2, <1>3 DEF Without
  <2> DEFINE j == k - Len(t) + 1
  <2>2. /\ k \in Len(t) + 1 .. Len(r) /\ k + 1 \in Len(t) + 1 .. Len(r)
        /\ j \in 1 .. Len(s) - 1 /\ (k + 1) - Len(t) + 1 = j + 1
    BY <2>1, <1>1, <1>2
  <2>3. s[j] = r[k] /\ s[j+1] = r[k+1]
    BY <2>2, <1>2
  <2> QED
    BY <2>2, <2>3
<1>4. ASSUME NEW j \in 1 .. Len(s) - 1, s[j].do = "handler"
      PROVE  \E k \in 1 .. Len(r) - 1 : s[j] = r[k] /\ s[j+1] = r[k+1]
  <2> DEFINE k == j + Len(t) - 1
  <2>1. j # 1
    BY <1>4
  <2>2. /\ j \in 2 .. Len(s) /\ j + 1 \in 2 .. Len(s)
        /\ k \in 1 .. Len(r) - 1 /\ (j + 1) + Len(t) - 1 = k + 1
    BY <2>1, <1>1, <1>2
  <2>3. s[j] = r[k] /\ s[j+1] = r[k+1]
    BY <2>2, <1>2
  <2> QED
    BY <2>2, <2>3
<1>5. Reads(r) <=> Reads(s)
  <2>1. Reads(r) => Reads(s)
    BY <1>3 DEF Reads
  <2>2. Reads(s) => Reads(r)
    BY <1>4 DEF Reads
  <2> QED
    BY <2>1, <2>2
<1>6. Untold(r) => Untold(s)
  <2> SUFFICES ASSUME NEW k \in 1 .. Len(r) - 1, r[k].do = "handler", UnsaidAt(r[k+1]) PROVE Untold(s)
    BY DEF Untold
  <2>1. PICK j \in 1 .. Len(s) - 1 : s[j] = r[k] /\ s[j+1] = r[k+1]
    BY <1>3
  <2> QED
    BY <2>1, Zenon DEF Untold
<1>7. Untold(s) => Untold(r)
  <2> SUFFICES ASSUME NEW j \in 1 .. Len(s) - 1, s[j].do = "handler", UnsaidAt(s[j+1]) PROVE Untold(r)
    BY DEF Untold
  <2>1. PICK k \in 1 .. Len(r) - 1 : s[j] = r[k] /\ s[j+1] = r[k+1]
    BY <1>4
  <2> QED
    BY <2>1, Zenon DEF Untold
<1> QED
  BY <1>5, <1>6, <1>7
(* Steps in front of the first one.                                        *)

\* Steps in front of a stack are steps in the place of its first step.
LEMMA PushedIs ==
    ASSUME NEW s \in Seq(Step), s # <<>>, NEW t \in Seq(Step)
    PROVE  /\ t \o s = (t \o <<Head(s)>>) \o Tail(s)
           /\ t \o <<Head(s)>> \in Seq(Step) /\ Len(t \o <<Head(s)>>) = Len(t) + 1
           /\ \A k \in 1 .. Len(t) : (t \o <<Head(s)>>)[k] = t[k]
           /\ (t \o <<Head(s)>>)[Len(t) + 1] = s[1]
<1>1. Head(s) \in Step /\ Head(s) = s[1] /\ <<Head(s)>> \in Seq(Step) /\ Tail(s) \in Seq(Step)
  BY HeadTailProperties
<1>2. s = <<Head(s)>> \o Tail(s)
  BY HeadTailProperties
<1>3. (t \o <<Head(s)>>) \o Tail(s) = t \o (<<Head(s)>> \o Tail(s))
  BY <1>1, ConcatAssociative
<1>4. t \o <<Head(s)>> = Append(t, Head(s))
  BY <1>1, AppendIsConcat
<1>5. Len(t) \in Nat
  BY LenProperties
<1> QED
  BY <1>1, <1>2, <1>3, <1>4, <1>5, AppendProperties
(* Dropping the steps in front of the k-th.                                *)

\* What is left of s from its kth step.
LEMMA SuffixIs ==
    ASSUME NEW s \in Seq(Step), NEW k \in 1 .. Len(s), NEW r, r = SubSeq(s, k, Len(s))
    PROVE  /\ r \in Seq(Step) /\ Len(r) = Len(s) - k + 1 /\ r # <<>>
           /\ \A j \in 1 .. Len(r) : j + k - 1 \in 1 .. Len(s) /\ r[j] = s[j + k - 1]
<1>1. Len(s) \in Nat
  BY LenProperties
<1>2. /\ r \in Seq(Step) /\ Len(r) = Len(s) - k + 1
      /\ \A j \in 1 .. Len(s) - k + 1 : r[j] = s[k + j - 1]
  <2>1. /\ k \in 1 .. Len(s) + 1 /\ Len(s) \in k - 1 .. Len(s)
        /\ ~(k > Len(s))
    BY <1>1
  <2> QED
    BY ONLY <2>1, s \in Seq(Step), r = SubSeq(s, k, Len(s)), SubSeqProperties
<1>3. ASSUME NEW j \in 1 .. Len(r) PROVE j + k - 1 \in 1 .. Len(s) /\ r[j] = s[j + k - 1]
  <2>0. Len(r) = Len(s) - k + 1
    BY <1>2
  <2>1. j \in 1 .. Len(s) - k + 1 /\ k + j - 1 = j + k - 1 /\ j + k - 1 \in 1 .. Len(s)
    BY ONLY <1>1, <2>0, k \in 1 .. Len(s), j \in 1 .. Len(r)
  <2>2. r[j] = s[k + j - 1]
    BY <2>1, <1>2
  <2> QED
    BY <2>1, <2>2
<1>4. r # <<>>
  <2>1. Len(r) # 0
    BY <1>1, <1>2
  <2> QED
    BY <2>1, EmptySeq
<1> QED
  BY <1>2, <1>3, <1>4

\* An exception leaves a stack.
LEMMA SuffixShaped ==
    ASSUME NEW s \in Seq(Step), Shaped(s), NEW k \in 1 .. Len(s), NEW r, r = SubSeq(s, k, Len(s))
    PROVE  Shaped(r)
<1>1. /\ r \in Seq(Step) /\ Len(r) = Len(s) - k + 1 /\ r # <<>>
      /\ \A j \in 1 .. Len(r) : j + k - 1 \in 1 .. Len(s) /\ r[j] = s[j + k - 1]
  BY SuffixIs
<1>2. Len(s) \in Nat \ {0}
  BY LenProperties
<1>3. r[Len(r)].do \in {"exit", "failed"}
  <2>1. Len(r) \in 1 .. Len(r) /\ Len(r) + k - 1 = Len(s)
    BY <1>1, <1>2
  <2> QED
    BY <2>1, <1>1 DEF Shaped
<1>4. ASSUME NEW j \in 1 .. Len(r) - 1 PROVE Link(r[j], r[j+1], Len(r) - j)
  <2> DEFINE i == j + k - 1
  <2>1. /\ j \in 1 .. Len(r) /\ j + 1 \in 1 .. Len(r) /\ i \in 1 .. Len(s) - 1
        /\ (j + 1) + k - 1 = i + 1 /\ Len(r) - j = Len(s) - i
    BY <1>1, <1>2
  <2>2. r[j] = s[i] /\ r[j+1] = s[i+1]
    BY <2>1, <1>1
  <2>3. Link(s[i], s[i+1], Len(s) - i)
    BY <2>1 DEF Shaped
  <2> QED
    BY <2>1, <2>2, <2>3
<1> QED
  BY <1>1, <1>3, <1>4 DEF Shaped

\* It brings no step in.
LEMMA SuffixWithout ==
    ASSUME NEW s \in Seq(Step), NEW k \in 1 .. Len(s), NEW r, r = SubSeq(s, k, Len(s))
    PROVE  /\ \A D : Without(s, D) => Without(r, D)
           /\ \A d : Once(s, d) => Once(r, d)
<1>1. /\ r \in Seq(Step) /\ Len(r) = Len(s) - k + 1 /\ r # <<>>
      /\ \A j \in 1 .. Len(r) : j + k - 1 \in 1 .. Len(s) /\ r[j] = s[j + k - 1]
  BY SuffixIs
<1>2. ASSUME NEW D, Without(s, D) PROVE Without(r, D)
  BY <1>1, <1>2 DEF Without
<1>3. ASSUME NEW d, Once(s, d), NEW i \in 1 .. Len(r), NEW j \in 1 .. Len(r), r[i].do = d, r[j].do = d
      PROVE  i = j
  <2>1. i + k - 1 = j + k - 1
    BY <1>1, <1>3 DEF Once
  <2> QED
    BY <2>1, <1>1
<1>4. ASSUME NEW d, Once(s, d) PROVE Once(r, d)
  BY <1>3, <1>4 DEF Once
<1> QED
  BY <1>2, <1>4

\* Up to the handler, all steps left are its own.
LEMMA SuffixHandler ==
    ASSUME NEW s \in Seq(Step), NEW k \in 1 .. Len(s), NEW r, r = SubSeq(s, k, Len(s)),
           NEW h \in k .. Len(s), s[h].do = "handler", \A j \in 1 .. h - 1 : InHandler(s[j])
    PROVE  HandlerFirst(r)
<1>1. /\ r \in Seq(Step) /\ Len(r) = Len(s) - k + 1 /\ r # <<>>
      /\ \A j \in 1 .. Len(r) : j + k - 1 \in 1 .. Len(s) /\ r[j] = s[j + k - 1]
  BY SuffixIs
<1>2. Len(s) \in Nat \ {0}
  BY LenProperties
<1> DEFINE g == h - k + 1
<1>3. g \in 1 .. Len(r) /\ g + k - 1 = h
  BY <1>1, <1>2
<1>4. r[g].do = "handler"
  BY <1>1, <1>3
<1>5. ASSUME NEW j \in 1 .. g - 1 PROVE InHandler(r[j])
  <2>1. j \in 1 .. Len(r) /\ j + k - 1 \in 1 .. h - 1
    BY <1>1, <1>2, <1>3
  <2> QED
    BY <2>1, <1>1
<1> QED
  BY <1>3, <1>4, <1>5 DEF HandlerFirst

\* An exception that the handler's steps raise leaves what it has interrupted.
LEMMA SuffixUnder ==
    ASSUME NEW s \in Seq(Step), NEW k \in 1 .. Len(s), NEW r, r = SubSeq(s, k, Len(s)),
           \A j \in 1 .. k - 1 : s[j].do # "handler"
    PROVE  (Reads(r) <=> Reads(s)) /\ (Untold(r) <=> Untold(s))
<1>1. /\ r \in Seq(Step) /\ Len(r) = Len(s) - k + 1 /\ r # <<>>
      /\ \A j \in 1 .. Len(r) : j + k - 1 \in 1 .. Len(s) /\ r[j] = s[j + k - 1]
  BY SuffixIs
<1>2. Len(s) \in Nat \ {0}
  BY LenProperties
<1>3. ASSUME NEW j \in 1 .. Len(r) - 1
      PROVE  \E i \in 1 .. Len(s) - 1 : s[i] = r[j] /\ s[i+1] = r[j+1]
  <2> DEFINE i == j + k - 1
  <2>1. /\ j \in 1 .. Len(r) /\ j + 1 \in 1 .. Len(r) /\ i \in 1 .. Len(s) - 1 /\ (j + 1) + k - 1 = i + 1
    BY <1>1, <1>2
  <2>2. s[i] = r[j] /\ s[i+1] = r[j+1]
    BY <2>1, <1>1
  <2> QED
    BY <2>1, <2>2
<1>4. ASSUME NEW i \in 1 .. Len(s) - 1, s[i].do = "handler"
      PROVE  \E j \in 1 .. Len(r) - 1 : s[i] = r[j] /\ s[i+1] = r[j+1]
  <2> DEFINE j == i - k + 1
  <2>1. ~(i \in 1 .. k - 1)
    BY <1>4
  <2>2. /\ j \in 1 .. Len(r) /\ j + 1 \in 1 .. Len(r) /\ j \in 1 .. Len(r) - 1
        /\ j + k - 1 = i /\ (j + 1) + k - 1 = i + 1
    BY <2>1, <1>1, <1>2
  <2>3. s[i] = r[j] /\ s[i+1] = r[j+1]
    BY <2>2, <1>1
  <2> QED
    BY <2>2, <2>3
<1>5. Reads(r) <=> Reads(s)
  <2>1. Reads(r) => Reads(s)
    BY <1>3 DEF Reads
  <2>2. Reads(s) => Reads(r)
    BY <1>4 DEF Reads
  <2> QED
    BY <2>1, <2>2
<1>6. Untold(r) => Untold(s)
  <2> SUFFICES ASSUME NEW j \in 1 .. Len(r) - 1, r[j].do = "handler", UnsaidAt(r[j+1]) PROVE Untold(s)
    BY DEF Untold
  <2>1. PICK i \in 1 .. Len(s) - 1 : s[i] = r[j] /\ s[i+1] = r[j+1]
    BY <1>3
  <2> QED
    BY <2>1, Zenon DEF Untold
<1>7. Untold(s) => Untold(r)
  <2> SUFFICES ASSUME NEW i \in 1 .. Len(s) - 1, s[i].do = "handler", UnsaidAt(s[i+1]) PROVE Untold(r)
    BY DEF Untold
  <2>1. PICK j \in 1 .. Len(r) - 1 : s[i] = r[j] /\ s[i+1] = r[j+1]
    BY <1>4
  <2> QED
    BY <2>1, Zenon DEF Untold
<1> QED
  BY <1>5, <1>6, <1>7

-----------------------------------------------------------------------------
(* The invariant of the stack.                                             *)

Running == end = "no"
Top == Head(stack)
Below == stack[2]

Stops == {"close", "hangup", "wait"}
Placed == Running => Shaped(stack)

Counts ==
    /\ ~stop_sent => Without(stack, Stops)
    /\ ~tried => Without(stack, {"debugged"})
    /\ ~signalled => Without(stack, {"handler"})
    /\ Once(stack, "wait") /\ Once(stack, "debugged")

Handling == Running /\ signalled => HandlerFirst(stack)

StackInv == stack \in Seq(Step) /\ Placed /\ Counts /\ Handling

\* A stack of fewer than two steps has one.
LEMMA OnlyOne == \A n \in Nat : n >= 1 /\ n < 2 => n = 1
  OBVIOUS

\* The first step and the one after it.
LEMMA TopIs ==
    ASSUME StackInv, Running
    PROVE  /\ stack \in Seq(Step) /\ stack # <<>> /\ Len(stack) \in Nat /\ Len(stack) >= 1 /\ Shaped(stack)
           /\ Top \in Step /\ Top = stack[1]
           /\ Len(stack) < 2 <=> Top.do \in {"exit", "failed"}
           /\ Len(stack) > 1 => Below \in Step /\ Link(Top, Below, Len(stack) - 1)
           /\ signalled => HandlerFirst(stack) /\ (InHandler(Top) \/ Top.do = "handler")
           /\ ~signalled => Without(stack, {"handler"}) /\ Top.do # "handler"
           /\ ~stop_sent => Top.do \notin Stops
<1>1. stack \in Seq(Step) /\ Shaped(stack) /\ stack # <<>>
  BY DEF StackInv, Placed, Shaped
<1>2. Len(stack) \in Nat /\ Len(stack) >= 1
  BY <1>1, LenProperties, EmptySeq
<1>3. Top \in Step /\ Top = stack[1]
  BY <1>1, HeadTailProperties DEF Top
<1>4. Len(stack) > 1 => Below \in Step /\ Link(Top, Below, Len(stack) - 1)
  <2> SUFFICES ASSUME Len(stack) > 1 PROVE Below \in Step /\ Link(Top, Below, Len(stack) - 1)
    OBVIOUS
  <2>1. 1 \in 1 .. Len(stack) - 1 /\ 2 \in 1 .. Len(stack) /\ 1 + 1 = 2
    BY <1>2
  <2>2. stack[2] \in Step
    BY <2>1, <1>1, ElementOfSeq
  <2>3. Link(stack[1], stack[1+1], Len(stack) - 1)
    BY <2>1, <1>1 DEF Shaped
  <2> QED
    BY <2>1, <2>2, <2>3, <1>3 DEF Below
<1>5. Len(stack) < 2 <=> Top.do \in {"exit", "failed"}
  <2>1. CASE Len(stack) < 2
    <3>1. Len(stack) = 1
      BY <2>1, <1>2, OnlyOne
    <3> QED
      BY <2>1, <3>1, <1>1, <1>3 DEF Shaped
  <2>2. CASE Len(stack) > 1
    BY <2>2, <1>4 DEF Link
  <2> QED
    BY <2>1, <2>2, <1>2
<1>6. signalled => HandlerFirst(stack) /\ (InHandler(Top) \/ Top.do = "handler")
  <2> SUFFICES ASSUME signalled PROVE HandlerFirst(stack) /\ (InHandler(Top) \/ Top.do = "handler")
    OBVIOUS
  <2>1. HandlerFirst(stack)
    BY DEF StackInv, Handling
  <2>2. PICK h \in 1 .. Len(stack) : stack[h].do = "handler" /\ \A j \in 1 .. h - 1 : InHandler(stack[j])
    BY <2>1 DEF HandlerFirst
  <2>3. h = 1 \/ 1 \in 1 .. h - 1
    BY <1>2
  <2> QED
    BY <2>1, <2>2, <2>3, <1>3
<1>7. 1 \in 1 .. Len(stack)
  BY <1>2
<1>8. ~signalled => Without(stack, {"handler"}) /\ Top.do # "handler"
  BY <1>3, <1>7 DEF StackInv, Counts, Without
<1>9. ~stop_sent => Top.do \notin Stops
  BY <1>3, <1>7 DEF StackInv, Counts, Without, Stops
<1> QED
  BY <1>1, <1>2, <1>3, <1>4, <1>5, <1>6, <1>8, <1>9

\* What the invariants look at besides the first two steps.
Under == (Reads(stack)' <=> Reads(stack)) /\ (Untold(stack)' <=> Untold(stack))
NoEndtry == Without(stack, {"endtry"})

\* What may be put in the place of the first step.
Fits(t) ==
    /\ t \in Seq(Step) /\ Chain(t, Len(stack) - 1)
    /\ Len(t) > 0 => Link(t[Len(t)], stack[2], Len(stack) - 1)
    /\ Without(t, {"handler", "endtry"})
    /\ signalled => \A k \in 1 .. Len(t) : InHandler(t[k])

\* A call: the invariant of the stack after the first step became steps t.
LEMMA Replaced ==
    ASSUME StackInv, Running, NEW t, Fits(t), Top.do \notin {"exit", "failed", "handler"},
           stack' = t \o Tail(stack), UNCHANGED <<end, signalled>>,
           stop_sent => stop_sent', tried => tried',
           ~stop_sent' => Without(t, Stops),
           ~tried' => Without(t, {"debugged"}),
           Without(t, {"wait"}) \/ (~stop_sent /\ Once(t, "wait")),
           Without(t, {"debugged"}) \/ (~tried /\ Once(t, "debugged"))
    PROVE  /\ StackInv' /\ Under /\ (NoEndtry => NoEndtry')
           /\ Len(stack) > 1 /\ Len(stack') = Len(t) + Len(stack) - 1
           /\ IF Len(t) = 0 THEN Top' = Below ELSE Top' = t[1]
           /\ IF Len(t) = 1 THEN Below' = Below ELSE Len(t) > 1 => Below' = t[2]
           /\ \A D : Without(stack, D) /\ Without(t, D) => Without(stack', D)
<1>1. /\ stack \in Seq(Step) /\ stack # <<>> /\ Len(stack) \in Nat /\ Len(stack) >= 1 /\ Shaped(stack) /\ Len(stack) > 1
      /\ Top = stack[1] /\ t \in Seq(Step) /\ stack[1].do # "handler"
  <2>1. /\ stack \in Seq(Step) /\ stack # <<>> /\ Len(stack) \in Nat /\ Len(stack) >= 1 /\ Shaped(stack)
        /\ ~(Len(stack) < 2) /\ Top = stack[1]
    BY TopIs
  <2>2. Len(stack) > 1
    BY <2>1
  <2> QED
    BY <2>1, <2>2 DEF Fits
<1>2. /\ stack' \in Seq(Step) /\ Len(stack') = Len(t) + Len(stack) - 1
      /\ \A k \in 1 .. Len(t) : stack'[k] = t[k]
      /\ \A k \in Len(t) + 1 .. Len(stack') : stack'[k] = stack[k - Len(t) + 1]
  BY <1>1, ReplacedIs
<1>3. Shaped(stack')
  BY <1>1, ReplacedShaped DEF Fits
<1>4. Counts'
  <2>1. ASSUME ~stop_sent' PROVE Without(stack', Stops)
    <3>1. Without(t, Stops) /\ Without(stack, Stops)
      BY <2>1 DEF StackInv, Counts
    <3> QED
      BY <3>1, <1>1, ReplacedWithout
  <2>2. ASSUME ~tried' PROVE Without(stack', {"debugged"})
    <3>1. Without(t, {"debugged"}) /\ Without(stack, {"debugged"})
      BY <2>2 DEF StackInv, Counts
    <3> QED
      BY <3>1, <1>1, ReplacedWithout
  <2>3. ASSUME ~signalled' PROVE Without(stack', {"handler"})
    <3>1. Without(t, {"handler"}) /\ Without(stack, {"handler"})
      BY <2>3 DEF StackInv, Counts, Fits, Without
    <3> QED
      BY <3>1, <1>1, ReplacedWithout
  <2>4. Once(stack', "wait")
    <3>1. CASE Without(t, {"wait"})
      BY <3>1, <1>1, ReplacedOnce DEF StackInv, Counts
    <3>2. CASE ~stop_sent /\ Once(t, "wait")
      <4>1. Without(stack, {"wait"})
        BY <3>2 DEF StackInv, Counts, Without, Stops
      <4> QED
        BY <3>2, <4>1, <1>1, ReplacedOnceMore
    <3> QED
      BY <3>1, <3>2
  <2>5. Once(stack', "debugged")
    <3>1. CASE Without(t, {"debugged"})
      BY <3>1, <1>1, ReplacedOnce DEF StackInv, Counts
    <3>2. CASE ~tried /\ Once(t, "debugged")
      BY <3>2, <1>1, ReplacedOnceMore DEF StackInv, Counts
    <3> QED
      BY <3>1, <3>2
  <2> QED
    BY <2>1, <2>2, <2>3, <2>4, <2>5 DEF Counts
<1>5. signalled => HandlerFirst(stack')
  BY <1>1, ReplacedHandler DEF StackInv, Handling, Fits
<1>6. StackInv'
  BY <1>2, <1>3, <1>4, <1>5 DEF StackInv, Placed, Handling
<1>7. Without(t, {"handler"}) /\ Without(t, {"endtry"})
  BY DEF Fits, Without
<1>8. Under
  BY <1>1, <1>7, ReplacedUnder DEF Under
<1>9. NoEndtry => NoEndtry'
  BY <1>1, <1>7, ReplacedWithout DEF NoEndtry
<1>10. Len(t) \in Nat
  BY <1>1, LenProperties
<1>11. stack' # <<>> /\ Top' = stack'[1]
  BY <1>2, <1>3, HeadTailProperties DEF Shaped, Top
<1>12. IF Len(t) = 0 THEN Top' = Below ELSE Top' = t[1]
  <2>1. CASE Len(t) = 0
    <3>1. 1 \in Len(t) + 1 .. Len(stack') /\ 1 - Len(t) + 1 = 2
      BY <2>1, <1>1, <1>2
    <3> QED
      BY <3>1, <2>1, <1>2, <1>11 DEF Below
  <2>2. CASE Len(t) # 0
    <3>1. 1 \in 1 .. Len(t)
      BY <2>2, <1>10
    <3> QED
      BY <3>1, <2>2, <1>2, <1>11
  <2> QED
    BY <2>1, <2>2
<1>13. IF Len(t) = 1 THEN Below' = Below ELSE Len(t) > 1 => Below' = t[2]
  <2>1. CASE Len(t) = 1
    <3>1. 2 \in Len(t) + 1 .. Len(stack') /\ 2 - Len(t) + 1 = 2
      BY <2>1, <1>1, <1>2
    <3> QED
      BY <3>1, <2>1, <1>2 DEF Below
  <2>2. CASE Len(t) > 1
    <3>1. 2 \in 1 .. Len(t) /\ Len(t) # 1
      BY <2>2, <1>10
    <3> QED
      BY <3>1, <2>2, <1>2 DEF Below
  <2> QED
    BY <2>1, <2>2
<1>14. \A D : Without(stack, D) /\ Without(t, D) => Without(stack', D)
  BY <1>1, ReplacedWithout
<1> QED
  BY <1>1, <1>2, <1>6, <1>8, <1>9, <1>12, <1>13, <1>14

-----------------------------------------------------------------------------
(* Lists of a few steps.                                                   *)

\* The first step is done.
LEMMA NoneFits == Fits(<<>>) /\ Len(<<>>) = 0 /\ \A D : Without(<<>>, D)
  BY EmptySeq DEF Fits, Chain, Without

\* One step in the place of the first one.
LEMMA OneFits ==
    ASSUME NEW x \in Step, Link(x, Below, Len(stack) - 1), x.do \notin {"handler", "endtry"},
           signalled => InHandler(x)
    PROVE  /\ Fits(<<x>>) /\ Len(<<x>>) = 1 /\ <<x>>[1] = x
           /\ \A D : x.do \notin D => Without(<<x>>, D)
<1> DEFINE t == <<x>>
<1>1. t \in Seq(Step) /\ Len(t) = 1 /\ t[1] = x
  OBVIOUS
<1> HIDE DEF t
<1>2. \A D : x.do \notin D => Without(t, D)
  BY <1>1 DEF Without
<1>3. Chain(t, Len(stack) - 1)
  BY <1>1 DEF Chain
<1> QED
  BY <1>1, <1>2, <1>3 DEF Fits, t, Below

\* Two steps.
LEMMA TwoFit ==
    ASSUME NEW x \in Step, NEW y \in Step, Link(x, y, Len(stack)), Link(y, Below, Len(stack) - 1),
           Len(stack) \in Nat,
           x.do \notin {"handler", "endtry"}, y.do \notin {"handler", "endtry"},
           signalled => InHandler(x) /\ InHandler(y)
    PROVE  /\ Fits(<<x, y>>) /\ Len(<<x, y>>) = 2 /\ <<x, y>>[1] = x /\ <<x, y>>[2] = y
           /\ \A D : x.do \notin D /\ y.do \notin D => Without(<<x, y>>, D)
<1> DEFINE t == <<x, y>>
<1>1. t \in Seq(Step) /\ Len(t) = 2 /\ t[1] = x /\ t[2] = y
  OBVIOUS
<1> HIDE DEF t
<1>0. \A k \in 1 .. Len(t) : k = 1 \/ k = 2
  BY <1>1
<1>2. \A D : x.do \notin D /\ y.do \notin D => Without(t, D)
  BY <1>0, <1>1 DEF Without
<1>3. Chain(t, Len(stack) - 1)
  <2>1. 2 - 1 + (Len(stack) - 1) = Len(stack) /\ \A k \in 1 .. Len(t) - 1 : k = 1
    BY <1>1
  <2> QED
    BY <1>1, <2>1 DEF Chain
<1>4. signalled => \A k \in 1 .. Len(t) : InHandler(t[k])
  BY <1>0, <1>1
<1>5. Link(t[Len(t)], stack[2], Len(stack) - 1)
  BY <1>1 DEF Below
<1> QED
  BY <1>1, <1>2, <1>3, <1>4, <1>5 DEF Fits, t

\* Three steps.
LEMMA ThreeFit ==
    ASSUME NEW x \in Step, NEW y \in Step, NEW z \in Step,
           Link(x, y, Len(stack) + 1), Link(y, z, Len(stack)), Link(z, Below, Len(stack) - 1),
           Len(stack) \in Nat,
           x.do \notin {"handler", "endtry"}, y.do \notin {"handler", "endtry"},
           z.do \notin {"handler", "endtry"},
           signalled => InHandler(x) /\ InHandler(y) /\ InHandler(z)
    PROVE  /\ Fits(<<x, y, z>>) /\ Len(<<x, y, z>>) = 3
           /\ <<x, y, z>>[1] = x /\ <<x, y, z>>[2] = y /\ <<x, y, z>>[3] = z
           /\ \A D : x.do \notin D /\ y.do \notin D /\ z.do \notin D => Without(<<x, y, z>>, D)
<1> DEFINE t == <<x, y, z>>
<1>1. t \in Seq(Step) /\ Len(t) = 3 /\ t[1] = x /\ t[2] = y /\ t[3] = z
  OBVIOUS
<1> HIDE DEF t
<1>0. \A k \in 1 .. Len(t) : k = 1 \/ k = 2 \/ k = 3
  BY <1>1
<1>2. \A D : x.do \notin D /\ y.do \notin D /\ z.do \notin D => Without(t, D)
  BY <1>0, <1>1 DEF Without
<1>3. Chain(t, Len(stack) - 1)
  <2>1. /\ 3 - 1 + (Len(stack) - 1) = Len(stack) + 1 /\ 3 - 2 + (Len(stack) - 1) = Len(stack)
        /\ \A k \in 1 .. Len(t) - 1 : k = 1 \/ k = 2
        /\ 1 + 1 = 2 /\ 2 + 1 = 3
    BY <1>1
  <2> SUFFICES ASSUME NEW k \in 1 .. Len(t) - 1 PROVE Link(t[k], t[k+1], Len(t) - k + (Len(stack) - 1))
    BY DEF Chain
  <2>2. CASE k = 1
    BY <2>1, <2>2, <1>1
  <2>3. CASE k = 2
    BY <2>1, <2>3, <1>1
  <2> QED
    BY <2>1, <2>2, <2>3
<1>4. signalled => \A k \in 1 .. Len(t) : InHandler(t[k])
  BY <1>0, <1>1
<1>5. Link(t[Len(t)], stack[2], Len(stack) - 1)
  BY <1>1 DEF Below
<1> QED
  BY <1>1, <1>2, <1>3, <1>4, <1>5 DEF Fits, t

\* Four steps.
LEMMA FourFit ==
    ASSUME NEW x \in Step, NEW y \in Step, NEW z \in Step, NEW w \in Step,
           Link(x, y, Len(stack) + 2), Link(y, z, Len(stack) + 1), Link(z, w, Len(stack)),
           Link(w, Below, Len(stack) - 1), Len(stack) \in Nat,
           x.do \notin {"handler", "endtry"}, y.do \notin {"handler", "endtry"},
           z.do \notin {"handler", "endtry"}, w.do \notin {"handler", "endtry"},
           signalled => InHandler(x) /\ InHandler(y) /\ InHandler(z) /\ InHandler(w)
    PROVE  /\ Fits(<<x, y, z, w>>) /\ Len(<<x, y, z, w>>) = 4
           /\ <<x, y, z, w>>[1] = x /\ <<x, y, z, w>>[2] = y
           /\ <<x, y, z, w>>[3] = z /\ <<x, y, z, w>>[4] = w
           /\ \A D : x.do \notin D /\ y.do \notin D /\ z.do \notin D /\ w.do \notin D
                        => Without(<<x, y, z, w>>, D)
<1> DEFINE t == <<x, y, z, w>>
<1>1. t \in Seq(Step) /\ Len(t) = 4 /\ t[1] = x /\ t[2] = y /\ t[3] = z /\ t[4] = w
  OBVIOUS
<1> HIDE DEF t
<1>0. \A k \in 1 .. Len(t) : k = 1 \/ k = 2 \/ k = 3 \/ k = 4
  BY <1>1
<1>2. \A D : x.do \notin D /\ y.do \notin D /\ z.do \notin D /\ w.do \notin D => Without(t, D)
  BY <1>0, <1>1 DEF Without
<1>3. Chain(t, Len(stack) - 1)
  <2>1. /\ 4 - 1 + (Len(stack) - 1) = Len(stack) + 2 /\ 4 - 2 + (Len(stack) - 1) = Len(stack) + 1
        /\ 4 - 3 + (Len(stack) - 1) = Len(stack)
        /\ \A k \in 1 .. Len(t) - 1 : k = 1 \/ k = 2 \/ k = 3
        /\ 1 + 1 = 2 /\ 2 + 1 = 3 /\ 3 + 1 = 4
    BY <1>1
  <2> SUFFICES ASSUME NEW k \in 1 .. Len(t) - 1 PROVE Link(t[k], t[k+1], Len(t) - k + (Len(stack) - 1))
    BY DEF Chain
  <2>2. CASE k = 1
    BY <2>1, <2>2, <1>1
  <2>3. CASE k = 2
    BY <2>1, <2>3, <1>1
  <2>4. CASE k = 3
    BY <2>1, <2>4, <1>1
  <2> QED
    BY <2>1, <2>2, <2>3, <2>4
<1>4. signalled => \A k \in 1 .. Len(t) : InHandler(t[k])
  BY <1>0, <1>1
<1>5. Link(t[Len(t)], stack[2], Len(stack) - 1)
  BY <1>1 DEF Below
<1> QED
  BY <1>1, <1>2, <1>3, <1>4, <1>5 DEF Fits, t

\* Sequences of steps one after the other.
LEMMA JoinedIs ==
    ASSUME NEW t \in Seq(Step), NEW u \in Seq(Step)
    PROVE  /\ t \o u \in Seq(Step) /\ Len(t \o u) = Len(t) + Len(u)
           /\ \A k \in 1 .. Len(t) : (t \o u)[k] = t[k]
           /\ \A k \in 1 .. Len(u) : (t \o u)[Len(t) + k] = u[k]
           /\ \A k \in Len(t) + 1 .. Len(t \o u) : (t \o u)[k] = u[k - Len(t)]
           /\ \A D : Without(t, D) /\ Without(u, D) => Without(t \o u, D)
<1> DEFINE r == t \o u
<1>1. Len(t) \in Nat /\ Len(u) \in Nat
  BY LenProperties
<1>2. /\ r \in Seq(Step) /\ Len(r) = Len(t) + Len(u)
      /\ \A k \in 1 .. Len(t) + Len(u) : r[k] = IF k <= Len(t) THEN t[k] ELSE u[k - Len(t)]
  BY ConcatProperties
<1> HIDE DEF r
<1>3. \A k \in 1 .. Len(t) : r[k] = t[k]
  BY <1>1, <1>2
<1>4. ASSUME NEW k \in 1 .. Len(u) PROVE r[Len(t) + k] = u[k]
  <2>1. Len(t) + k \in 1 .. Len(t) + Len(u) /\ ~(Len(t) + k <= Len(t)) /\ (Len(t) + k) - Len(t) = k
    BY <1>1
  <2> QED
    BY <2>1, <1>2
<1>7. ASSUME NEW k \in Len(t) + 1 .. Len(r) PROVE r[k] = u[k - Len(t)]
  <2>1. k \in 1 .. Len(t) + Len(u) /\ ~(k <= Len(t))
    BY <1>1, <1>2
  <2> QED
    BY <2>1, <1>2
<1>5. ASSUME NEW D, Without(t, D), Without(u, D), NEW k \in 1 .. Len(r) PROVE r[k].do \notin D
  <2>1. CASE k <= Len(t)
    BY <2>1, <1>1, <1>2, <1>3, <1>5 DEF Without
  <2>2. CASE k > Len(t)
    <3>1. k - Len(t) \in 1 .. Len(u) /\ k \in 1 .. Len(t) + Len(u) /\ ~(k <= Len(t))
      BY <2>2, <1>1, <1>2
    <3> QED
      BY <3>1, <1>2, <1>5 DEF Without
  <2> QED
    BY <2>1, <2>2, <1>1, <1>2
<1>6. ASSUME NEW D, Without(t, D), Without(u, D) PROVE Without(r, D)
  BY <1>5, <1>6 DEF Without
<1> QED
  BY <1>2, <1>3, <1>4, <1>6, <1>7 DEF r

\* The steps t may come before the step x, which has d - 1 steps behind it.
Leads(t, x, d) ==
    t \in Seq(Step) /\ Len(t) > 0 /\ Chain(t, d) /\ Link(t[Len(t)], x, d)

\* They lead to what follows when the first leads to the second.
LEMMA JoinedLead ==
    ASSUME NEW t, NEW u, NEW x, NEW d \in Nat, Leads(u, x, d), Leads(t, u[1], Len(u) + d)
    PROVE  Leads(t \o u, x, d)
<1> DEFINE r == t \o u
<1>1. t \in Seq(Step) /\ u \in Seq(Step) /\ Len(t) \in Nat /\ Len(u) \in Nat /\ Len(t) > 0 /\ Len(u) > 0
  BY LenProperties DEF Leads
<1>2. /\ r \in Seq(Step) /\ Len(r) = Len(t) + Len(u)
      /\ \A k \in 1 .. Len(t) : r[k] = t[k]
      /\ \A k \in 1 .. Len(u) : r[Len(t) + k] = u[k]
      /\ \A k \in Len(t) + 1 .. Len(r) : r[k] = u[k - Len(t)]
  BY <1>1, JoinedIs
<1> HIDE DEF r
<1>3. Link(r[Len(r)], x, d)
  <2>1. Len(u) \in 1 .. Len(u)
    BY <1>1
  <2> QED
    BY <2>1, <1>1, <1>2 DEF Leads
<1>4. ASSUME NEW k \in 1 .. Len(r) - 1 PROVE Link(r[k], r[k+1], Len(r) - k + d)
  <2>1. CASE k < Len(t)
    <3>1. /\ k \in 1 .. Len(t) - 1 /\ k \in 1 .. Len(t) /\ k + 1 \in 1 .. Len(t)
          /\ Len(r) - k + d = Len(t) - k + (Len(u) + d)
      BY <2>1, <1>1, <1>2
    <3>2. r[k] = t[k] /\ r[k+1] = t[k+1]
      BY <3>1, <1>2
    <3>3. Link(t[k], t[k+1], Len(t) - k + (Len(u) + d))
      BY <3>1 DEF Leads, Chain
    <3> QED
      BY <3>1, <3>2, <3>3
  <2>2. CASE k = Len(t)
    <3>1. Len(t) \in 1 .. Len(t) /\ 1 \in 1 .. Len(u) /\ Len(r) - Len(t) + d = Len(u) + d
      BY <1>1, <1>2
    <3>2. r[Len(t)] = t[Len(t)] /\ r[Len(t)+1] = u[1]
      BY <3>1, <1>2
    <3>3. Link(r[Len(t)], r[Len(t)+1], Len(r) - Len(t) + d)
      BY <3>1, <3>2 DEF Leads
    <3> QED
      BY <2>2, <3>3, Zenon
  <2>3. CASE k > Len(t)
    <3> DEFINE j == k - Len(t)
    <3>0. /\ k \in Nat /\ Len(t) \in Nat /\ Len(u) \in Nat /\ Len(r) = Len(t) + Len(u)
          /\ k > Len(t) /\ k <= Len(r) - 1
      BY <2>3, <1>1, <1>2
    <3>1. /\ j \in 1 .. Len(u) - 1 /\ k \in Len(t) + 1 .. Len(r) /\ k + 1 \in Len(t) + 1 .. Len(r)
          /\ (k + 1) - Len(t) = j + 1 /\ Len(r) - k + d = Len(u) - j + d
      BY ONLY <3>0, d \in Nat
    <3>2. r[k] = u[j] /\ r[k+1] = u[j+1]
      BY <3>1, <1>2
    <3>3. Link(u[j], u[j+1], Len(u) - j + d)
      BY <3>1 DEF Leads, Chain
    <3> QED
      BY <3>1, <3>2, <3>3
  <2> QED
    BY <2>1, <2>2, <2>3, <1>1, <1>2
<1>5. Chain(r, d)
  BY <1>4 DEF Chain
<1> QED
  BY <1>1, <1>2, <1>3, <1>5 DEF Leads, r

\* One step that leads to what follows.
LEMMA OneLeads ==
    ASSUME NEW a \in Step, NEW x, NEW d \in Nat, Link(a, x, d)
    PROVE  /\ Leads(<<a>>, x, d) /\ <<a>>[1] = a /\ Len(<<a>>) = 1
           /\ \A D : a.do \notin D => Without(<<a>>, D)
<1> DEFINE t == <<a>>
<1>1. t \in Seq(Step) /\ Len(t) = 1 /\ t[1] = a
  OBVIOUS
<1> HIDE DEF t
<1>2. Chain(t, d) /\ \A D : a.do \notin D => Without(t, D)
  BY <1>1 DEF Chain, Without
<1> QED
  BY <1>1, <1>2 DEF Leads, t

\* A step after a step.
LEMMA TwoTuple ==
    ASSUME NEW S, NEW x \in S, NEW y \in S, NEW z \in S
    PROVE  <<x, y>> \o <<z>> = <<x, y, z>>
<1>1. <<x, y>> \in Seq(S) /\ Len(<<x, y>>) = 2 /\ <<x, y>>[1] = x /\ <<x, y>>[2] = y
  OBVIOUS
<1>2. <<z>> \in Seq(S) /\ Len(<<z>>) = 1 /\ <<z>>[1] = z
  OBVIOUS
<1>3. /\ <<x, y, z>> \in Seq(S) /\ Len(<<x, y, z>>) = 3
      /\ <<x, y, z>>[1] = x /\ <<x, y, z>>[2] = y /\ <<x, y, z>>[3] = z
  OBVIOUS
<1>4. <<x, y>> \o <<z>> \in Seq(S) /\ Len(<<x, y>> \o <<z>>) = 3
  BY <1>1, <1>2, ConcatProperties
<1>5. \A k \in 1 .. 3 : (<<x, y>> \o <<z>>)[k] = <<x, y, z>>[k]
  BY <1>1, <1>2, <1>3, ConcatProperties
<1> QED
  BY <1>1, <1>2, <1>3, <1>4, <1>5, SeqEqual

\* A step after two steps.
LEMMA ThreeTuple ==
    ASSUME NEW S, NEW x \in S, NEW y \in S, NEW z \in S, NEW w \in S
    PROVE  <<x, y, z>> \o <<w>> = <<x, y, z, w>>
<1>1. /\ <<x, y, z>> \in Seq(S) /\ Len(<<x, y, z>>) = 3
      /\ <<x, y, z>>[1] = x /\ <<x, y, z>>[2] = y /\ <<x, y, z>>[3] = z
  OBVIOUS
<1>2. <<w>> \in Seq(S) /\ Len(<<w>>) = 1 /\ <<w>>[1] = w
  OBVIOUS
<1>3. /\ <<x, y, z, w>> \in Seq(S) /\ Len(<<x, y, z, w>>) = 4
      /\ <<x, y, z, w>>[1] = x /\ <<x, y, z, w>>[2] = y /\ <<x, y, z, w>>[3] = z /\ <<x, y, z, w>>[4] = w
  OBVIOUS
<1>4. <<x, y, z>> \o <<w>> \in Seq(S) /\ Len(<<x, y, z>> \o <<w>>) = 4
  BY <1>1, <1>2, ConcatProperties
<1>5. \A k \in 1 .. 4 : (<<x, y, z>> \o <<w>>)[k] = <<x, y, z, w>>[k]
  BY <1>1, <1>2, <1>3, ConcatProperties
<1> QED
  BY <1>1, <1>2, <1>3, <1>4, <1>5, SeqEqual

\* What calls put in front.
Sends(c) == [do |-> "write", cmd |-> c]
Flushes(c) == [do |-> "flush", cmd |-> c]

\* The three steps of a command.
LEMMA WordsAre ==
    /\ \A c \in Commands : Sends(c) \in Step /\ Flushes(c) \in Step /\ Expect(c) \in Step
    /\ \A d \in Doing : F(d) \in Step /\ F(d).do = d
    /\ \A c : Sends(c).do = "write" /\ Flushes(c).do = "flush" /\ Expect(c).do = "expect"
    /\ \A c : Sends(c).cmd = c /\ Flushes(c).cmd = c /\ Expect(c).cmd = c
  BY DEF Step, Sends, Flushes, Expect, F, Doing

\* Command() as a list of three.
LEMMA CommandIs ==
    ASSUME NEW c \in Commands
    PROVE  Command(c) = <<Sends(c), Flushes(c), Expect(c)>>
<1>1. Sends(c) \in Step /\ Flushes(c) \in Step /\ Expect(c) \in Step
  BY WordsAre
<1> QED
  BY <1>1, TwoTuple DEF Command, Send, Sends, Flushes

-----------------------------------------------------------------------------
(* The steps of a command, and of _opened().                               *)

\* The words in a send() and the reply.
LEMMA WordsLink ==
    ASSUME NEW c \in Commands \ {"quit"}, NEW d
    PROVE  Link(Sends(c), Flushes(c), d) /\ Link(Flushes(c), Expect(c), d)
  BY DEF Link, Sends, Flushes, Expect

\* A command leads to what follows its reply.
LEMMA CommandLeads ==
    ASSUME NEW c \in Commands \ {"quit"}, NEW x, NEW d \in Nat, Link(Expect(c), x, d)
    PROVE  /\ Leads(Command(c), x, d) /\ Command(c)[1] = Sends(c) /\ Command(c)[2] = Flushes(c)
           /\ Len(Command(c)) = 3
           /\ \A D : D \cap {"write", "flush", "expect"} = {} => Without(Command(c), D)
<1>1. /\ Sends(c) \in Step /\ Flushes(c) \in Step /\ Expect(c) \in Step
      /\ Sends(c).do = "write" /\ Flushes(c).do = "flush" /\ Expect(c).do = "expect"
  BY WordsAre
<1> DEFINE t == Command(c)
<1>2. t = <<Sends(c), Flushes(c), Expect(c)>>
  BY CommandIs
<1>3. t \in Seq(Step) /\ Len(t) = 3 /\ t[1] = Sends(c) /\ t[2] = Flushes(c) /\ t[3] = Expect(c)
  BY <1>1, <1>2
<1> HIDE DEF t
<1>4. Chain(t, d)
  <2>1. (\A k \in 1 .. Len(t) - 1 : k = 1 \/ k = 2) /\ 1 + 1 = 2 /\ 2 + 1 = 3
    BY <1>3
  <2> SUFFICES ASSUME NEW k \in 1 .. Len(t) - 1 PROVE Link(t[k], t[k+1], Len(t) - k + d)
    BY DEF Chain
  <2>2. CASE k = 1
    BY <2>1, <2>2, <1>3, WordsLink
  <2>3. CASE k = 2
    BY <2>1, <2>3, <1>3, WordsLink
  <2> QED
    BY <2>1, <2>2, <2>3
<1>5. ASSUME NEW D, D \cap {"write", "flush", "expect"} = {} PROVE Without(t, D)
  <2>1. \A k \in 1 .. Len(t) : k = 1 \/ k = 2 \/ k = 3
    BY <1>3
  <2> QED
    BY <2>1, <1>1, <1>3, <1>5 DEF Without
<1> QED
  BY <1>3, <1>4, <1>5 DEF Leads, t

\* m steps that begin with the words of c and may come before x.
Front(t, c, x, d, m) ==
    Leads(t, x, d) /\ Len(t) = m /\ t[1] = Sends(c) /\ t[2] = Flushes(c)

\* What none of the commands' steps is.
Apart(D) == D \cap {"write", "flush", "expect", "opened", "auxverb"} = {}
Calls(t) == \A D : Apart(D) => Without(t, D)

\* More steps after the front.
LEMMA FrontMore ==
    ASSUME NEW t, NEW c, NEW x, NEW d \in Nat, NEW m \in Nat, m > 1, NEW u, Leads(u, x, d),
           Front(t, c, u[1], Len(u) + d, m), Calls(t), Calls(u)
    PROVE  Front(t \o u, c, x, d, m + Len(u)) /\ Calls(t \o u)
<1>1. t \in Seq(Step) /\ u \in Seq(Step) /\ Len(t) = m
  BY DEF Leads, Front
<1>2. 1 \in 1 .. Len(t) /\ 2 \in 1 .. Len(t)
  BY <1>1
<1>3. /\ Len(t \o u) = Len(t) + Len(u)
      /\ \A k \in 1 .. Len(t) : (t \o u)[k] = t[k]
      /\ \A D : Without(t, D) /\ Without(u, D) => Without(t \o u, D)
  BY <1>1, JoinedIs
<1>4. Leads(t, u[1], Len(u) + d)
  BY DEF Front
<1>5. Leads(t \o u, x, d)
  BY <1>4, JoinedLead
<1>6. Calls(t \o u)
  BY <1>3 DEF Calls
<1> QED
  BY <1>1, <1>2, <1>3, <1>5, <1>6 DEF Front

\* One more step.
LEMMA FrontStep ==
    ASSUME NEW t, NEW c, NEW x, NEW d \in Nat, NEW m \in Nat, m > 1, NEW y \in Step,
           y.do \in {"opened", "auxverb"}, Link(y, x, d),
           Front(t, c, y, d + 1, m), Calls(t)
    PROVE  Front(t \o <<y>>, c, x, d, m + 1) /\ Calls(t \o <<y>>)
<1> DEFINE u == <<y>>
<1>1. /\ Leads(u, x, d) /\ u[1] = y /\ Len(u) = 1 /\ \A D : y.do \notin D => Without(u, D)
  BY OneLeads
<1> HIDE DEF u
<1>2. Calls(u)
  <2> SUFFICES ASSUME NEW D, Apart(D) PROVE Without(u, D)
    BY DEF Calls
  <2>1. y.do \notin D
    BY DEF Apart
  <2> QED
    BY <2>1, <1>1
<1>3. d + 1 = Len(u) + d
  BY <1>1
<1>4. Front(t, c, u[1], Len(u) + d, m)
  BY <1>1, <1>3
<1>5. Front(t \o u, c, x, d, m + Len(u)) /\ Calls(t \o u)
  BY <1>1, <1>2, <1>4, FrontMore
<1> QED
  BY <1>1, <1>5 DEF u

\* One more command.
LEMMA FrontCommand ==
    ASSUME NEW t, NEW c, NEW x, NEW d \in Nat, NEW m \in Nat, m > 1, NEW b \in Commands \ {"quit"},
           Link(Expect(b), x, d), Front(t, c, Sends(b), d + 3, m), Calls(t)
    PROVE  Front(t \o Command(b), c, x, d, m + 3) /\ Calls(t \o Command(b))
<1> DEFINE u == Command(b)
<1>1. /\ Leads(u, x, d) /\ u[1] = Sends(b) /\ Len(u) = 3
      /\ \A D : D \cap {"write", "flush", "expect"} = {} => Without(u, D)
  BY CommandLeads
<1> HIDE DEF u
<1>2. Calls(u)
  <2> SUFFICES ASSUME NEW D, Apart(D) PROVE Without(u, D)
    BY DEF Calls
  <2>1. D \cap {"write", "flush", "expect"} = {}
    BY DEF Apart
  <2> QED
    BY <2>1, <1>1
<1>3. d + 3 = Len(u) + d
  BY <1>1
<1>4. Front(t, c, u[1], Len(u) + d, m)
  BY <1>1, <1>3
<1>5. Front(t \o u, c, x, d, m + Len(u)) /\ Calls(t \o u)
  BY <1>1, <1>2, <1>4, FrontMore
<1> QED
  BY <1>1, <1>5 DEF u

\* _opened() in front of a command's end, which work follows.
LEMMA OpeningLeads ==
    ASSUME NEW c \in {"open", "revert"}, NEW x, NEW d \in Nat, x.do = "work"
    PROVE  Front(Opening(c), c, x, d, 11) /\ Calls(Opening(c))
<1> DEFINE t1 == Command(c)
           t2 == t1 \o <<F("opened")>>
           t3 == t2 \o Command("print-execute-command")
           t4 == t3 \o <<F("auxverb")>>
           t5 == t4 \o Command("capabilities")
           pec == "print-execute-command"
           cap == "capabilities"
<1>0. /\ c \in Commands \ {"quit"} /\ pec \in Commands \ {"quit"} /\ cap \in Commands \ {"quit"}
      /\ F("opened") \in Step /\ F("auxverb") \in Step
      /\ F("opened").do = "opened" /\ F("auxverb").do = "auxverb"
  BY DEF Commands, F, Step, Doing
<1>1. /\ \A e \in Nat : Link(Expect(c), F("opened"), e)
      /\ \A e \in Nat : Link(F("opened"), Sends(pec), e)
      /\ \A e \in Nat : Link(Expect(pec), F("auxverb"), e)
      /\ \A e \in Nat : Link(F("auxverb"), Sends(cap), e)
      /\ Link(Expect(cap), x, d)
  BY DEF Link, AfterReply, Expect, F, Sends
<1>2. Opening(c) = t5
  BY DEF Opening
<1> DEFINE d3 == d + 3
           d4 == d + 4
           d7 == d + 7
           d8 == d + 8
<1>3. /\ d3 \in Nat /\ d4 \in Nat /\ d7 \in Nat /\ d8 \in Nat
      /\ d4 = d3 + 1 /\ d7 = d4 + 3 /\ d8 = d7 + 1 /\ d3 = d + 3
  OBVIOUS
<1> HIDE DEF d3, d4, d7, d8
<1>4. Front(t1, c, F("opened"), d8, 3) /\ Calls(t1)
  <2>1. /\ Leads(t1, F("opened"), d8) /\ t1[1] = Sends(c) /\ t1[2] = Flushes(c) /\ Len(t1) = 3
        /\ \A D : D \cap {"write", "flush", "expect"} = {} => Without(t1, D)
    BY <1>0, <1>1, <1>3, CommandLeads
  <2>2. \A D : Apart(D) => D \cap {"write", "flush", "expect"} = {}
    BY DEF Apart
  <2> QED
    BY <2>1, <2>2 DEF Front, Calls
<1> HIDE DEF t1
<1>5. Front(t2, c, Sends(pec), d7, 4) /\ Calls(t2)
  <2>1. Front(t1, c, F("opened"), d7 + 1, 3) /\ 3 > 1 /\ 3 \in Nat /\ 3 + 1 = 4
    BY <1>3, <1>4
  <2>2. Front(t2, c, Sends(pec), d7, 3 + 1) /\ Calls(t2)
    BY <2>1, <1>0, <1>1, <1>3, <1>4, FrontStep
  <2> QED
    BY <2>1, <2>2
<1> HIDE DEF t2
<1>6. Front(t3, c, F("auxverb"), d4, 7) /\ Calls(t3)
  <2>1. Front(t2, c, Sends(pec), d4 + 3, 4) /\ 4 > 1 /\ 4 \in Nat /\ 4 + 3 = 7
    BY <1>3, <1>5
  <2>2. Front(t3, c, F("auxverb"), d4, 4 + 3) /\ Calls(t3)
    BY <2>1, <1>0, <1>1, <1>3, <1>5, FrontCommand
  <2> QED
    BY <2>1, <2>2
<1> HIDE DEF t3
<1>7. Front(t4, c, Sends(cap), d3, 8) /\ Calls(t4)
  <2>1. Front(t3, c, F("auxverb"), d3 + 1, 7) /\ 7 > 1 /\ 7 \in Nat /\ 7 + 1 = 8
    BY <1>3, <1>6
  <2>2. Front(t4, c, Sends(cap), d3, 7 + 1) /\ Calls(t4)
    BY <2>1, <1>0, <1>1, <1>3, <1>6, FrontStep
  <2> QED
    BY <2>1, <2>2
<1> HIDE DEF t4
<1>8. Front(t5, c, x, d, 11) /\ Calls(t5)
  <2>1. Front(t4, c, Sends(cap), d + 3, 8) /\ 8 > 1 /\ 8 \in Nat /\ 8 + 3 = 11
    BY <1>3, <1>7
  <2>2. Front(t5, c, x, d, 8 + 3) /\ Calls(t5)
    BY <2>1, <1>0, <1>1, <1>7, FrontCommand
  <2> QED
    BY <2>1, <2>2
<1> QED
  BY <1>2, <1>8

\* Steps that lead to a stack, in front of it, make a stack.
LEMMA JoinedShaped ==
    ASSUME NEW t, NEW u \in Seq(Step), Shaped(u), Leads(t, u[1], Len(u))
    PROVE  Shaped(t \o u)
<1> DEFINE r == t \o u
<1>0. t \in Seq(Step) /\ Len(t) > 0 /\ u # <<>>
  BY DEF Leads, Shaped
<1>1. Len(t) \in Nat /\ Len(u) \in Nat /\ Len(u) >= 1
  BY <1>0, LenProperties, EmptySeq
<1>2. /\ r \in Seq(Step) /\ Len(r) = Len(t) + Len(u)
      /\ \A k \in 1 .. Len(t) : r[k] = t[k]
      /\ \A k \in 1 .. Len(u) : r[Len(t) + k] = u[k]
      /\ \A k \in Len(t) + 1 .. Len(r) : r[k] = u[k - Len(t)]
  BY <1>0, JoinedIs
<1> HIDE DEF r
<1>3. r # <<>>
  BY <1>0, <1>1, <1>2, EmptySeq
<1>4. r[Len(r)].do \in {"exit", "failed"}
  <2>1. Len(u) \in 1 .. Len(u)
    BY <1>1
  <2> QED
    BY <2>1, <1>2 DEF Shaped
<1>5. ASSUME NEW k \in 1 .. Len(r) - 1 PROVE Link(r[k], r[k+1], Len(r) - k)
  <2>1. CASE k < Len(t)
    <3>1. /\ k \in 1 .. Len(t) - 1 /\ k \in 1 .. Len(t) /\ k + 1 \in 1 .. Len(t)
          /\ Len(r) - k = Len(t) - k + Len(u)
      BY <2>1, <1>1, <1>2
    <3>2. r[k] = t[k] /\ r[k+1] = t[k+1]
      BY <3>1, <1>2
    <3>3. Link(t[k], t[k+1], Len(t) - k + Len(u))
      BY <3>1 DEF Leads, Chain
    <3> QED
      BY <3>1, <3>2, <3>3
  <2>2. CASE k = Len(t)
    <3>1. Len(t) \in 1 .. Len(t) /\ 1 \in 1 .. Len(u) /\ Len(r) - Len(t) = Len(u)
      BY <1>0, <1>1, <1>2
    <3>2. r[Len(t)] = t[Len(t)] /\ r[Len(t)+1] = u[1]
      BY <3>1, <1>2
    <3>3. Link(r[Len(t)], r[Len(t)+1], Len(r) - Len(t))
      BY <3>1, <3>2 DEF Leads
    <3> QED
      BY <2>2, <3>3, Zenon
  <2>3. CASE k > Len(t)
    <3> DEFINE j == k - Len(t)
    <3>1. /\ j \in 1 .. Len(u) - 1 /\ k \in Len(t) + 1 .. Len(r) /\ k + 1 \in Len(t) + 1 .. Len(r)
          /\ (k + 1) - Len(t) = j + 1 /\ Len(r) - k = Len(u) - j
      BY <2>3, <1>1, <1>2
    <3>2. r[k] = u[j] /\ r[k+1] = u[j+1]
      BY <3>1, <1>2
    <3>3. Link(u[j], u[j+1], Len(u) - j)
      BY <3>1 DEF Shaped
    <3> QED
      BY <3>1, <3>2, <3>3
  <2> QED
    BY <2>1, <2>2, <2>3, <1>1, <1>2
<1> QED
  BY <1>3, <1>4, <1>5 DEF Shaped, r

\* What main() has to do is a stack.
LEMMA MainIs ==
    /\ Main \in Seq(Step) /\ Main # <<>> /\ Shaped(Main) /\ Main[1] = F("popen")
    /\ Head(Main) = F("popen")
    /\ Without(Main, Stops) /\ Without(Main, {"debugged"}) /\ Without(Main, {"handler"})
    /\ Without(Main, {"wait"})
<1> DEFINE t == <<F("popen"), Expect("banner")>>
           u == Opening("open")
           w == <<F("work"), F("endtry"), F("reset"), F("stop"), F("exit")>>
<1>0. Main = (t \o u) \o w
  BY DEF Main
<1>1. /\ F("popen") \in Step /\ Expect("banner") \in Step /\ F("work") \in Step /\ F("endtry") \in Step
      /\ F("reset") \in Step /\ F("stop") \in Step /\ F("exit") \in Step
      /\ F("popen").do = "popen" /\ Expect("banner").do = "expect" /\ Expect("banner").cmd = "banner"
      /\ F("work").do = "work" /\ F("endtry").do = "endtry"
      /\ F("reset").do = "reset" /\ F("stop").do = "stop" /\ F("exit").do = "exit"
  BY DEF F, Expect, Step, Doing
<1>2. /\ t \in Seq(Step) /\ Len(t) = 2 /\ t[1] = F("popen") /\ t[2] = Expect("banner")
  BY <1>1
<1>3. /\ w \in Seq(Step) /\ Len(w) = 5 /\ w[1] = F("work") /\ w[2] = F("endtry") /\ w[3] = F("reset")
      /\ w[4] = F("stop") /\ w[5] = F("exit")
  BY <1>1
<1> HIDE DEF t, w
<1>4. Shaped(w)
  <2>1. /\ Link(F("work"), F("endtry"), 4) /\ Link(F("endtry"), F("reset"), 3)
        /\ Link(F("reset"), F("stop"), 2) /\ Link(F("stop"), F("exit"), 1)
    BY DEF Link, F
  <2>2. ASSUME NEW k \in 1 .. Len(w) - 1 PROVE Link(w[k], w[k+1], Len(w) - k)
    <3>1. k \in 1 .. 4 /\ 1 + 1 = 2 /\ 2 + 1 = 3 /\ 3 + 1 = 4 /\ 4 + 1 = 5 /\ 5 - 1 = 4 /\ 5 - 2 = 3 /\ 5 - 3 = 2 /\ 5 - 4 = 1
      BY <1>3
    <3>2. k = 1 \/ k = 2 \/ k = 3 \/ k = 4
      BY <3>1
    <3> QED
      BY <3>1, <3>2, <2>1, <1>3
  <2>3. w # <<>>
    <3>1. Len(<<>>) = 0 /\ Len(w) = 5
      BY <1>3
    <3> QED
      BY <3>1
  <2>4. w[Len(w)].do = "exit"
    BY <1>1, <1>3
  <2> QED
    BY <2>2, <2>3, <2>4 DEF Shaped
<1>5. Front(u, "open", w[1], 5, 11) /\ Calls(u)
  BY <1>1, <1>3, OpeningLeads
<1> HIDE DEF u
<1>6. Leads(t, u[1], 11 + 5)
  <2>1. u[1] = Sends("open")
    BY <1>5 DEF Front
  <2>2. Link(t[1], t[2], 17) /\ Link(t[2], Sends("open"), 16)
    BY <1>2 DEF Link, F, Expect, Sends, AfterReply
  <2>3. Chain(t, 16)
    <3>1. \A k \in 1 .. Len(t) - 1 : k = 1 /\ k + 1 = 2 /\ Len(t) - k + 16 = 17
      BY <1>2
    <3> QED
      BY <3>1, <2>2 DEF Chain
  <2>4. 11 + 5 = 16
    OBVIOUS
  <2> QED
    BY <1>2, <2>1, <2>2, <2>3, <2>4 DEF Leads
<1>7. Leads(u, w[1], 5) /\ Len(u) = 11
  BY <1>5 DEF Front
<1> DEFINE v == t \o u
<1>8. Leads(v, w[1], Len(w))
  <2>1. Leads(t, u[1], Len(u) + 5)
    BY <1>6, <1>7
  <2>2. Leads(v, w[1], 5)
    BY <1>7, <2>1, JoinedLead
  <2> QED
    BY <2>2, <1>3
<1>9. /\ v \in Seq(Step) /\ v[1] = t[1] /\ Len(v) = 13
      /\ \A D : Without(t, D) /\ Without(u, D) => Without(v, D)
  <2>1. t \in Seq(Step) /\ u \in Seq(Step) /\ 1 \in 1 .. Len(t)
    BY <1>2, <1>7 DEF Leads
  <2>2. /\ v \in Seq(Step) /\ Len(v) = Len(t) + Len(u)
        /\ \A k \in 1 .. Len(t) : v[k] = t[k]
        /\ \A D : Without(t, D) /\ Without(u, D) => Without(v, D)
    BY <2>1, JoinedIs
  <2>3. Len(v) = 2 + 11 /\ 2 + 11 = 13
    BY <2>2, <1>2, <1>7
  <2> QED
    BY <2>1, <2>2, <2>3
<1> HIDE DEF v
<1>10. Shaped(v \o w)
  BY <1>3, <1>4, <1>8, JoinedShaped
<1>11. /\ v \o w \in Seq(Step) /\ (v \o w)[1] = v[1]
       /\ \A D : Without(v, D) /\ Without(w, D) => Without(v \o w, D)
  <2>1. 1 \in 1 .. Len(v)
    BY <1>9
  <2> QED
    BY <2>1, <1>3, <1>9, JoinedIs
<1>12. Main = v \o w
  BY <1>0 DEF v
<1>13. ASSUME NEW D, Apart(D), D \cap {"popen", "work", "endtry", "reset", "stop", "exit"} = {} PROVE Without(Main, D)
  <2>1. Without(t, D)
    <3>1. \A k \in 1 .. Len(t) : k = 1 \/ k = 2
      BY <1>2
    <3> QED
      BY <3>1, <1>1, <1>2, <1>13 DEF Without, Apart
  <2>2. Without(w, D)
    <3>1. \A k \in 1 .. Len(w) : k = 1 \/ k = 2 \/ k = 3 \/ k = 4 \/ k = 5
      BY <1>3
    <3> QED
      BY <3>1, <1>1, <1>3, <1>13 DEF Without
  <2>3. Without(u, D)
    BY <1>5, <1>13 DEF Calls
  <2> QED
    BY <2>1, <2>2, <2>3, <1>9, <1>11, <1>12
<1>14. /\ Without(Main, Stops) /\ Without(Main, {"debugged"}) /\ Without(Main, {"handler"})
       /\ Without(Main, {"wait"})
  <2>1. /\ Apart(Stops) /\ Apart({"debugged"}) /\ Apart({"handler"}) /\ Apart({"wait"})
        /\ Stops \cap {"popen", "work", "endtry", "reset", "stop", "exit"} = {}
        /\ {"debugged"} \cap {"popen", "work", "endtry", "reset", "stop", "exit"} = {}
        /\ {"handler"} \cap {"popen", "work", "endtry", "reset", "stop", "exit"} = {}
        /\ {"wait"} \cap {"popen", "work", "endtry", "reset", "stop", "exit"} = {}
    BY DEF Apart, Stops
  <2> QED
    BY <2>1, <1>13
<1>15. Main \in Seq(Step) /\ Main # <<>> /\ Shaped(Main) /\ Main[1] = F("popen")
  BY <1>2, <1>9, <1>10, <1>11, <1>12 DEF Shaped
<1>16. Head(Main) = F("popen")
  BY <1>15, HeadTailProperties
<1> QED
  BY <1>14, <1>15, <1>16

-----------------------------------------------------------------------------
(* Exceptions and signals.                                                 *)

\* The steps whose end is another step come last in a stack.
LEMMA LastOnly ==
    ASSUME NEW s \in Seq(Step), Shaped(s), NEW k \in 1 .. Len(s), s[k].do \in {"exit", "failed"}
    PROVE  k = Len(s)
<1>1. Len(s) \in Nat
  BY LenProperties
<1>2. k < Len(s) => Link(s[k], s[k+1], Len(s) - k)
  BY <1>1 DEF Shaped
<1> QED
  BY <1>1, <1>2 DEF Link

\* What an exception does.
LEMMA RaisedIs ==
    ASSUME StackInv, Running, Raise, UNCHANGED <<end, signalled, stop_sent, tried>>
    PROVE  /\ StackInv' /\ Under /\ (NoEndtry => NoEndtry') /\ Running'
           /\ Top'.do \in {"debugged", "handler", "endtry", "failed"}
           /\ signalled => Top'.do \in {"debugged", "handler"}
           /\ Top'.do = "failed" => NoEndtry'
           /\ \A D : Without(stack, D) /\ "failed" \notin D => Without(stack', D)
<1>1. /\ stack \in Seq(Step) /\ stack # <<>> /\ Len(stack) \in Nat /\ Len(stack) >= 1 /\ Shaped(stack)
      /\ signalled => HandlerFirst(stack)
  BY TopIs
<1>2. PICK k \in DOMAIN stack :
        /\ stack[k].do \in Catches /\ \A j \in 1 .. k - 1 : stack[j].do \notin Catches
        /\ stack' = IF stack[k].do = "exit" THEN <<F("failed")>> ELSE SubSeq(stack, k, Len(stack))
  BY DEF Raise
<1>3. DOMAIN stack = 1 .. Len(stack) /\ k \in 1 .. Len(stack)
  BY <1>1, <1>2, LenProperties
<1>4. \A j \in 1 .. k - 1 : stack[j].do # "handler"
  BY <1>2 DEF Catches
<1>5. Running' /\ Catches = {"debugged", "handler", "endtry", "exit", "failed"}
  BY DEF Running, Catches
<1>6. ASSUME signalled
      PROVE  \E h \in k .. Len(stack) : stack[h].do = "handler" /\ \A j \in 1 .. h - 1 : InHandler(stack[j])
  <2>1. PICK h \in 1 .. Len(stack) : stack[h].do = "handler" /\ \A j \in 1 .. h - 1 : InHandler(stack[j])
    BY <1>1, <1>6 DEF HandlerFirst
  <2>2. ~(h < k)
    <3>1. h < k => h \in 1 .. k - 1
      BY <1>3
    <3> QED
      BY <3>1, <2>1, <1>4
  <2>3. h \in k .. Len(stack)
    BY <2>1, <2>2, <1>1, <1>3
  <2> QED
    BY <2>1, <2>3
<1>7. ASSUME signalled PROVE stack[k].do \in {"debugged", "handler"}
  <2>1. PICK h \in k .. Len(stack) : stack[h].do = "handler" /\ \A j \in 1 .. h - 1 : InHandler(stack[j])
    BY <1>6, <1>7
  <2>2. k = h \/ k \in 1 .. h - 1
    BY <2>1, <1>1, <1>3
  <2> QED
    BY <2>1, <2>2, <1>2, <1>5 DEF InHandler, Dialogue
<1>8. CASE stack[k].do = "exit"
  <2>1. k = Len(stack) /\ ~signalled
    BY <1>8, <1>1, <1>3, <1>7, LastOnly
  <2> DEFINE r == <<F("failed")>>
  <2>2. F("failed") \in Step /\ F("failed").do = "failed"
    BY DEF F, Step, Doing
  <2>3. r \in Seq(Step) /\ Len(r) = 1 /\ r[1] = F("failed") /\ Head(r) = F("failed")
    BY <2>2
  <2> HIDE DEF r
  <2>4. stack' = r
    BY <1>2, <1>8 DEF r
  <2>5. \A j \in 1 .. Len(r) : r[j].do = "failed" /\ j = 1
    BY <2>2, <2>3
  <2>6. \A D : "failed" \notin D => Without(r, D)
    BY <2>5 DEF Without
  <2>7. Shaped(r)
    <3>1. r # <<>>
      <4>1. Len(<<>>) = 0 /\ Len(r) = 1
        BY <2>3
      <4> QED
        BY <4>1
    <3>2. r[Len(r)].do = "failed"
      BY <2>2, <2>3
    <3>3. \A j \in 1 .. Len(r) - 1 : FALSE
      BY <2>3
    <3> QED
      BY <3>1, <3>2, <3>3 DEF Shaped
  <2>8. Once(r, "wait") /\ Once(r, "debugged")
    BY <2>5 DEF Once
  <2>9. Counts'
    <3>1. Without(r, Stops) /\ Without(r, {"debugged"}) /\ Without(r, {"handler"})
      BY <2>6 DEF Stops
    <3> QED
      BY <3>1, <2>4, <2>8 DEF Counts
  <2>10. StackInv'
    BY <2>1, <2>3, <2>4, <2>7, <2>9 DEF StackInv, Placed, Handling
  <2>11. ~Reads(r) /\ ~Untold(r)
    <3>1. \A j \in 1 .. Len(r) - 1 : FALSE
      BY <2>3
    <3> QED
      BY <3>1 DEF Reads, Untold
  <2>12. ~Reads(stack) /\ ~Untold(stack)
    BY <2>1, <1>1, <1>4 DEF Reads, Untold
  <2>13. NoEndtry'
    BY <2>4, <2>6 DEF NoEndtry
  <2>14. Top' = F("failed")
    BY <2>3, <2>4 DEF Top
  <2> QED
    BY <2>1, <2>2, <2>4, <2>6, <2>10, <2>11, <2>12, <2>13, <2>14, <1>5 DEF Under
<1>9. CASE stack[k].do # "exit"
  <2> DEFINE r == SubSeq(stack, k, Len(stack))
  <2>1. stack' = r
    BY <1>2, <1>9
  <2> HIDE DEF r
  <2>0. r = SubSeq(stack, k, Len(stack))
    BY DEF r
  <2>2. /\ r \in Seq(Step) /\ Len(r) = Len(stack) - k + 1 /\ r # <<>>
        /\ \A j \in 1 .. Len(r) : j + k - 1 \in 1 .. Len(stack) /\ r[j] = stack[j + k - 1]
    BY <2>0, <1>1, <1>3, SuffixIs
  <2>3. Shaped(r)
    BY <2>0, <1>1, <1>3, SuffixShaped
  <2>4. (\A D : Without(stack, D) => Without(r, D)) /\ (\A d : Once(stack, d) => Once(r, d))
    BY <2>0, <1>1, <1>3, SuffixWithout
  <2>5. Counts'
    BY <2>1, <2>4 DEF StackInv, Counts
  <2>6. signalled => HandlerFirst(r)
    BY <2>0, <1>1, <1>3, <1>6, SuffixHandler
  <2>7. StackInv'
    BY <2>1, <2>2, <2>3, <2>5, <2>6 DEF StackInv, Placed, Handling
  <2>8. Under
    BY <2>0, <2>1, <1>1, <1>3, <1>4, SuffixUnder DEF Under
  <2>9. Top' = stack[k]
    <3>1. 1 \in 1 .. Len(r) /\ 1 + k - 1 = k
      BY <2>2, <1>1, <1>3
    <3>2. r[1] = stack[k]
      BY <3>1, <2>2
    <3>3. Head(r) = r[1]
      BY <2>2, HeadTailProperties
    <3> QED
      BY <3>2, <3>3, <2>1 DEF Top
  <2>10. stack[k].do = "failed" => NoEndtry'
    <3> SUFFICES ASSUME stack[k].do = "failed" PROVE Without(r, {"endtry"})
      BY <2>1 DEF NoEndtry
    <3>1. k = Len(stack)
      BY <1>1, <1>3, LastOnly
    <3>2. \A j \in 1 .. Len(r) : r[j] = stack[k]
      BY <3>1, <2>2, <1>1
    <3> QED
      BY <3>2 DEF Without
  <2>11. NoEndtry => NoEndtry'
    BY <2>1, <2>4 DEF NoEndtry
  <2>12. stack[k].do \in {"debugged", "handler", "endtry", "failed"}
    BY <1>2, <1>5, <1>9
  <2> QED
    BY <2>1, <2>4, <2>7, <2>8, <2>9, <2>10, <2>11, <2>12, <1>5, <1>7
<1> QED
  BY <1>8, <1>9

\* readline() has been interrupted: the handler is above the reply to come.
LEMMA InterruptedIs ==
    ASSUME StackInv, Running, Interrupted
    PROVE  Reads(stack) /\ signalled
<1>1. stack \in Seq(Step) /\ Shaped(stack) /\ Len(stack) \in Nat
  BY TopIs
<1>2. PICK k \in 2 .. Len(stack) : stack[k].do = "read"
  BY DEF Interrupted
<1>3. k - 1 \in 1 .. Len(stack) - 1 /\ (k - 1) + 1 = k /\ k - 1 \in 1 .. Len(stack)
  BY <1>1, <1>2
<1>4. stack[k-1].do = "handler"
  <2>1. Link(stack[k-1], stack[k], Len(stack) - (k - 1))
    BY <1>1, <1>3 DEF Shaped
  <2> QED
    BY <2>1, <1>2 DEF Link
<1>5. Reads(stack)
  BY <1>2, <1>3, <1>4 DEF Reads
<1>6. signalled
  <2>1. ~signalled => Without(stack, {"handler"})
    BY DEF StackInv, Counts
  <2> QED
    BY <2>1, <1>3, <1>4 DEF Without
<1> QED
  BY <1>5, <1>6

\* The condition of Kill, as the invariant has it.
LEMMA UnsaidIs ==
    ASSUME StackInv, Running, ~Unsaid
    PROVE  ~Untold(stack)
<1>1. stack \in Seq(Step) /\ Len(stack) \in Nat
  BY TopIs
<1>2. ASSUME NEW k \in 1 .. Len(stack) - 1, UnsaidAt(stack[k+1]) PROVE FALSE
  <2>1. k + 1 \in 2 .. Len(stack)
    BY <1>1
  <2> QED
    BY <2>1, <1>2 DEF Unsaid, UnsaidAt, Sending
<1> QED
  BY <1>2 DEF Untold

\* What a signal does to the stack.
LEMMA SignalledIs ==
    ASSUME StackInv, Running, ~signalled, signalled', UNCHANGED <<end, stop_sent, tried>>,
           stack' = <<F("stop"), F("handler")>> \o stack
    PROVE  /\ StackInv' /\ Running' /\ (NoEndtry => NoEndtry')
           /\ Top' = F("stop") /\ Below' = F("handler")
           /\ Reads(stack)' <=> Top.do = "read"
           /\ Untold(stack)' <=> UnsaidAt(Top)
           /\ \A D : Without(stack, D) /\ "stop" \notin D /\ "handler" \notin D => Without(stack', D)
<1> DEFINE t == <<F("stop"), F("handler")>>
<1>1. /\ stack \in Seq(Step) /\ stack # <<>> /\ Len(stack) \in Nat /\ Len(stack) >= 1 /\ Shaped(stack)
      /\ Top = stack[1] /\ Without(stack, {"handler"})
  BY TopIs
<1>2. /\ F("stop") \in Step /\ F("handler") \in Step /\ F("stop").do = "stop" /\ F("handler").do = "handler"
  BY DEF F, Step, Doing
<1>3. /\ t \in Seq(Step) /\ Len(t) = 2 /\ t[1] = F("stop") /\ t[2] = F("handler")
  BY <1>2
<1> HIDE DEF t
<1>4. stack' = t \o stack
  BY DEF t
<1> DEFINE r == stack'
<1>5. /\ r \in Seq(Step) /\ Len(r) = 2 + Len(stack)
      /\ r[1] = F("stop") /\ r[2] = F("handler")
      /\ \A k \in 3 .. Len(r) : r[k] = stack[k - 2]
      /\ \A D : Without(t, D) /\ Without(stack, D) => Without(r, D)
  <2>1. /\ r \in Seq(Step) /\ Len(r) = Len(t) + Len(stack)
        /\ \A k \in 1 .. Len(t) : r[k] = t[k]
        /\ \A k \in Len(t) + 1 .. Len(r) : r[k] = stack[k - Len(t)]
        /\ \A D : Without(t, D) /\ Without(stack, D) => Without(r, D)
    <3>1. t \in Seq(Step) /\ stack \in Seq(Step)
      BY <1>1, <1>3
    <3>2. /\ t \o stack \in Seq(Step) /\ Len(t \o stack) = Len(t) + Len(stack)
          /\ \A k \in 1 .. Len(t) : (t \o stack)[k] = t[k]
          /\ \A k \in Len(t) + 1 .. Len(t \o stack) : (t \o stack)[k] = stack[k - Len(t)]
          /\ \A D : Without(t, D) /\ Without(stack, D) => Without(t \o stack, D)
      BY <3>1, JoinedIs
    <3> QED
      BY <3>2, <1>4
  <2>2. 1 \in 1 .. Len(t) /\ 2 \in 1 .. Len(t) /\ Len(t) + 1 = 3
    <3>1. \A n : n = 2 => 1 \in 1 .. n /\ 2 \in 1 .. n /\ n + 1 = 3
      OBVIOUS
    <3> QED
      BY <3>1, <1>3, Zenon
  <2>3. r[1] = F("stop") /\ r[2] = F("handler")
    BY <2>1, <2>2, <1>3
  <2>4. \A k \in 3 .. Len(r) : r[k] = stack[k - 2]
    BY <2>1, <2>2, <1>3
  <2> QED
    BY <2>1, <2>3, <2>4, <1>3
<1>6. \A D : "stop" \notin D /\ "handler" \notin D => Without(t, D)
  <2>1. \A k \in 1 .. Len(t) : k = 1 \/ k = 2
    BY <1>3
  <2> QED
    BY <2>1, <1>2, <1>3 DEF Without
<1>7. Leads(t, stack[1], Len(stack))
  <2>1. Link(t[1], t[2], Len(t) - 1 + Len(stack)) /\ Link(t[2], stack[1], Len(stack))
    BY <1>2, <1>3 DEF Link
  <2>2. \A k \in 1 .. Len(t) - 1 : k = 1 /\ k + 1 = 2
    BY <1>3
  <2>3. Chain(t, Len(stack))
    BY <2>1, <2>2 DEF Chain
  <2> QED
    BY <2>1, <2>3, <1>3 DEF Leads
<1>8. Shaped(r)
  BY <1>1, <1>4, <1>7, JoinedShaped
<1>9. ASSUME NEW j \in 1 .. Len(r) PROVE j = 1 \/ j = 2 \/ (j \in 3 .. Len(r) /\ j - 2 \in 1 .. Len(stack))
  BY <1>1, <1>5
<1> HIDE DEF r
<1>10. ASSUME NEW d, d # "stop", d # "handler", Once(stack, d) PROVE Once(r, d)
  <2> SUFFICES ASSUME NEW j \in 1 .. Len(r), NEW k \in 1 .. Len(r), r[j].do = d, r[k].do = d PROVE j = k
    BY DEF Once
  <2>1. j \in 3 .. Len(r) /\ k \in 3 .. Len(r) /\ j - 2 \in 1 .. Len(stack) /\ k - 2 \in 1 .. Len(stack)
    BY <1>2, <1>5, <1>9, <1>10
  <2>2. j - 2 = k - 2
    BY <2>1, <1>5, <1>10 DEF Once
  <2> QED
    BY <2>1, <2>2
<1>11. Counts'
  <2>1. "stop" \notin Stops /\ "handler" \notin Stops
    BY DEF Stops
  <2>2. (Without(stack, Stops) => Without(r, Stops)) /\ (Without(stack, {"debugged"}) => Without(r, {"debugged"}))
    BY <2>1, <1>5, <1>6
  <2> QED
    BY <2>2, <1>10 DEF StackInv, Counts, r
<1>12. HandlerFirst(r)
  <2>1. 2 \in 1 .. Len(r) /\ r[2].do = "handler"
    BY <1>1, <1>2, <1>5
  <2>2. \A j \in 1 .. 2 - 1 : InHandler(r[j])
    <3>1. \A j \in 1 .. 2 - 1 : j = 1
      OBVIOUS
    <3> QED
      BY <3>1, <1>2, <1>5 DEF InHandler
  <2> QED
    BY <2>1, <2>2 DEF HandlerFirst
<1>13. StackInv' /\ Running'
  BY <1>5, <1>8, <1>11, <1>12 DEF StackInv, Placed, Handling, Running, r
<1>14. NoEndtry => NoEndtry'
  BY <1>5, <1>6 DEF NoEndtry, r
<1>15. Top' = F("stop") /\ Below' = F("handler")
  <2>1. r # <<>>
    BY <1>8 DEF Shaped
  <2>2. Head(r) = r[1]
    BY <2>1, <1>5, HeadTailProperties
  <2> QED
    BY <2>2, <1>5 DEF Top, Below, r
<1>16. \A k \in 1 .. Len(r) : r[k].do = "handler" => k = 2
  <2> SUFFICES ASSUME NEW k \in 1 .. Len(r), r[k].do = "handler" PROVE k = 2
    OBVIOUS
  <2>1. CASE k \in 3 .. Len(r) /\ k - 2 \in 1 .. Len(stack)
    <3>1. r[k] = stack[k-2]
      BY <2>1, <1>5
    <3> QED
      BY <3>1, <2>1, <1>1 DEF Without
  <2>2. k # 1
    BY <1>2, <1>5
  <2> QED
    BY <2>1, <2>2, <1>9
<1>17. 2 \in 1 .. Len(r) - 1 /\ r[2].do = "handler" /\ r[2+1] = Top
  <2>1. 2 + 1 \in 3 .. Len(r) /\ (2 + 1) - 2 = 1 /\ 2 \in 1 .. Len(r) - 1
    BY <1>1, <1>5
  <2> QED
    BY <2>1, <1>1, <1>2, <1>5
<1>18. \A k \in 1 .. Len(r) - 1 : r[k].do = "handler" => k = 2
  <2>1. \A k \in 1 .. Len(r) - 1 : k \in 1 .. Len(r)
    BY <1>1, <1>5
  <2> QED
    BY <2>1, <1>16
<1>19. (Reads(r) <=> Top.do = "read") /\ (Untold(r) <=> UnsaidAt(Top))
  BY <1>17, <1>18 DEF Reads, Untold
<1> QED
  BY <1>5, <1>6, <1>13, <1>14, <1>15, <1>19 DEF r

\* Steps in front of work.
LEMMA PushFits ==
    ASSUME StackInv, Running, ~signalled, Len(stack) > 1, Top.do = "work", NEW t, Leads(t, Top, Len(stack)),
           Without(t, {"handler", "endtry"})
    PROVE  /\ Fits(t \o <<Top>>) /\ Len(t \o <<Top>>) = Len(t) + 1 /\ Len(t) > 0
           /\ t \o stack = (t \o <<Top>>) \o Tail(stack)
           /\ \A k \in 1 .. Len(t) : (t \o <<Top>>)[k] = t[k]
           /\ (t \o <<Top>>)[Len(t) + 1] = Top
           /\ \A D : Without(t, D) /\ "work" \notin D => Without(t \o <<Top>>, D)
<1>1. /\ stack \in Seq(Step) /\ stack # <<>> /\ Len(stack) \in Nat /\ Top \in Step /\ Top = stack[1]
      /\ Link(Top, Below, Len(stack) - 1)
  BY TopIs
<1>2. t \in Seq(Step) /\ Len(t) > 0
  BY DEF Leads
<1> DEFINE u == t \o <<Top>>
<1>3. /\ t \o stack = u \o Tail(stack) /\ u \in Seq(Step) /\ Len(u) = Len(t) + 1
      /\ \A k \in 1 .. Len(t) : u[k] = t[k]
      /\ u[Len(t) + 1] = Top
  BY <1>1, <1>2, PushedIs DEF Top
<1>4. Len(stack) - 1 \in Nat
  BY <1>1
<1>5. Leads(<<Top>>, Below, Len(stack) - 1) /\ <<Top>>[1] = Top /\ Len(<<Top>>) = 1
      /\ \A D : "work" \notin D => Without(<<Top>>, D)
  BY <1>1, <1>4, OneLeads
<1>6. Leads(u, Below, Len(stack) - 1)
  <2>1. 1 + (Len(stack) - 1) = Len(stack)
    BY <1>1
  <2> DEFINE v == <<Top>>
  <2>2. Leads(t, v[1], Len(v) + (Len(stack) - 1))
    BY <2>1, <1>5
  <2>3. Leads(v, Below, Len(stack) - 1)
    BY <1>5
  <2> HIDE DEF v
  <2>4. Leads(t \o v, Below, Len(stack) - 1)
    BY <2>2, <2>3, <1>4, JoinedLead
  <2> QED
    BY <2>4 DEF v
<1>7. \A D : Without(t, D) /\ "work" \notin D => Without(u, D)
  <2>1. <<Top>> \in Seq(Step)
    BY <1>1
  <2> QED
    BY <2>1, <1>2, <1>5, JoinedIs
<1>8. Fits(u)
  <2>1. Without(u, {"handler", "endtry"})
    BY <1>7
  <2> QED
    BY <2>1, <1>6 DEF Fits, Leads, Below
<1> QED
  BY <1>2, <1>3, <1>7, <1>8

\* hangup and wait are left out.
LEMMA SkippedIs ==
    ASSUME StackInv, Running, Top.do = "hangup", stack' = Tail(Tail(stack)),
           UNCHANGED <<end, signalled, stop_sent, tried>>
    PROVE  /\ StackInv' /\ Under /\ (NoEndtry => NoEndtry') /\ Running'
           /\ Top'.do \in {"exit", "handler", "raise"}
<1>1. /\ stack \in Seq(Step) /\ stack # <<>> /\ Len(stack) \in Nat /\ Len(stack) > 1 /\ Shaped(stack)
      /\ Top = stack[1] /\ Below = stack[2] /\ Below.do = "wait"
  <2>1. /\ stack \in Seq(Step) /\ stack # <<>> /\ Len(stack) \in Nat /\ Len(stack) >= 1 /\ Shaped(stack)
        /\ Top = stack[1] /\ ~(Len(stack) < 2)
    BY TopIs
  <2>2. Len(stack) > 1
    BY <2>1
  <2>3. Link(Top, Below, Len(stack) - 1)
    BY <2>2, TopIs
  <2> QED
    BY <2>1, <2>2, <2>3 DEF Below, Link
<1>2. Len(stack) > 2
  <2>2. stack[Len(stack)].do \in {"exit", "failed"}
    BY <1>1 DEF Shaped
  <2>3. ASSUME Len(stack) = 2 PROVE FALSE
    <3>1. stack[2].do = "wait"
      BY <1>1
    <3>2. stack[2].do \in {"exit", "failed"}
      BY <2>2, <2>3, Zenon
    <3> QED
      BY <3>1, <3>2
  <2>4. \A n \in Nat : n > 1 /\ ~(n = 2) => n > 2
    OBVIOUS
  <2> QED
    BY <2>3, <2>4, <1>1, Zenon
<1>3. stack' = SubSeq(stack, 3, Len(stack))
  <2>1. Tail(stack) \in Seq(Step) /\ Len(Tail(stack)) = Len(stack) - 1
        /\ \A k \in 1 .. Len(stack) - 1 : Tail(stack)[k] = stack[k+1]
    BY <1>1, HeadTailProperties
  <2> DEFINE u == Tail(stack)
  <2>2. u \in Seq(Step) /\ Len(u) = Len(stack) - 1 /\ \A k \in 1 .. Len(stack) - 1 : u[k] = stack[k+1]
    BY <2>1
  <2> HIDE DEF u
  <2>3. u # <<>>
    <3>1. Len(u) > 0 /\ Len(<<>>) = 0
      BY <2>2, <1>1
    <3> QED
      BY <3>1
  <2>4. Tail(u) \in Seq(Step) /\ Len(Tail(u)) = Len(u) - 1 /\ \A k \in 1 .. Len(u) - 1 : Tail(u)[k] = u[k+1]
    BY <2>2, <2>3, HeadTailProperties
  <2>5. Len(Tail(u)) = Len(stack) - 2 /\ \A k \in 1 .. Len(stack) - 2 : Tail(u)[k] = stack[k+2]
    <3>1. \A k \in 1 .. Len(stack) - 2 : k \in 1 .. Len(u) - 1 /\ k + 1 \in 1 .. Len(stack) - 1 /\ (k + 1) + 1 = k + 2
      BY <2>2, <1>1
    <3>2. Len(u) - 1 = Len(stack) - 2
      BY <2>2, <1>1
    <3>3. ASSUME NEW k \in 1 .. Len(stack) - 2 PROVE Tail(u)[k] = stack[k+2]
      BY <3>1, <2>2, <2>4
    <3> QED
      BY <3>2, <3>3, <2>4
  <2> DEFINE v == SubSeq(stack, 3, Len(stack))
  <2>6. v \in Seq(Step) /\ Len(v) = Len(stack) - 3 + 1
        /\ \A j \in 1 .. Len(v) : v[j] = stack[j + 3 - 1]
    <3>1. 3 \in 1 .. Len(stack)
      BY <1>1, <1>2
    <3> QED
      BY <3>1, <1>1, SuffixIs
  <2> HIDE DEF v
  <2>7. Len(v) = Len(Tail(u)) /\ \A j \in 1 .. Len(v) : v[j] = Tail(u)[j]
    <3>1. Len(stack) - 3 + 1 = Len(stack) - 2 /\ \A j \in 1 .. Len(v) : j \in 1 .. Len(stack) - 2 /\ j + 3 - 1 = j + 2
      BY <2>6, <1>1
    <3> QED
      BY <3>1, <2>5, <2>6
  <2>8. v = Tail(u)
    BY <2>4, <2>6, <2>7, SeqEqual
  <2> QED
    BY <2>8 DEF u, v
<1>4. \A j \in 1 .. 3 - 1 : stack[j].do # "handler"
  <2>1. \A j \in 1 .. 3 - 1 : j = 1 \/ j = 2
    OBVIOUS
  <2> QED
    BY <2>1, <1>1
<1>5. 3 \in 1 .. Len(stack)
  BY <1>1, <1>2
<1>6. /\ stack' \in Seq(Step) /\ Len(stack') = Len(stack) - 3 + 1 /\ stack' # <<>>
      /\ \A j \in 1 .. Len(stack') : j + 3 - 1 \in 1 .. Len(stack) /\ stack'[j] = stack[j + 3 - 1]
  BY <1>1, <1>3, <1>5, SuffixIs
<1>7. Shaped(stack')
  BY <1>1, <1>3, <1>5, SuffixShaped
<1>8. (\A D : Without(stack, D) => Without(stack', D)) /\ (\A d : Once(stack, d) => Once(stack', d))
  BY <1>1, <1>3, <1>5, SuffixWithout
<1>9. Counts'
  BY <1>8 DEF StackInv, Counts
<1>10. signalled => HandlerFirst(stack')
  <2> SUFFICES ASSUME signalled PROVE HandlerFirst(stack')
    OBVIOUS
  <2>1. HandlerFirst(stack)
    BY TopIs
  <2>2. PICK h \in 1 .. Len(stack) : stack[h].do = "handler" /\ \A j \in 1 .. h - 1 : InHandler(stack[j])
    BY <2>1 DEF HandlerFirst
  <2>3. h \in 3 .. Len(stack)
    <3>1. h # 1 /\ h # 2
      BY <2>2, <1>1
    <3> QED
      BY <3>1, <2>2, <1>1
  <2> QED
    BY <2>2, <2>3, <1>1, <1>3, <1>5, SuffixHandler
<1>11. StackInv'
  BY <1>6, <1>7, <1>9, <1>10 DEF StackInv, Placed, Handling
<1>12. Under
  BY <1>1, <1>3, <1>4, <1>5, SuffixUnder DEF Under
<1>13. Top' = stack[3]
  <2>1. 1 \in 1 .. Len(stack') /\ 1 + 3 - 1 = 3
    BY <1>1, <1>2, <1>6
  <2>2. Head(stack') = stack'[1]
    BY <1>6, HeadTailProperties
  <2> QED
    BY <2>1, <2>2, <1>6 DEF Top
<1>14. stack[3].do \in {"exit", "handler", "raise"}
  <2>1. 2 \in 1 .. Len(stack) - 1 /\ 2 + 1 = 3
    BY <1>1, <1>2
  <2>2. Link(stack[2], stack[3], Len(stack) - 2)
    BY <2>1, <1>1 DEF Shaped
  <2> QED
    BY <2>2, <1>1 DEF Link
<1> QED
  BY <1>8, <1>11, <1>12, <1>13, <1>14 DEF NoEndtry, Running

-----------------------------------------------------------------------------
(* Where an alarm may be left.                                             *)

\* What the runner is not doing when an alarm is pending that nothing will clear.
Busy == {"write", "flush", "expect", "read", "debug_fail", "debugged", "bomb", "raise",
         "close", "hangup", "wait", "popen", "opened", "auxverb"}

\* execute() is called from process_actions() or, at the end, from cleanup().
LEMMA ExecIs ==
    ASSUME StackInv, Running, Top.do \in {"exec", "running"}
    PROVE  /\ ~signalled /\ Without(stack, Busy) /\ Len(stack) > 1
           /\ Below.do = "work" \/ (Below.do = "stop" /\ NoEndtry)
<1>1. /\ stack \in Seq(Step) /\ stack # <<>> /\ Len(stack) \in Nat /\ Len(stack) > 1 /\ Shaped(stack)
      /\ Top = stack[1] /\ Below = stack[2] /\ ~signalled
      /\ \/ Below.do = "work" /\ Len(stack) - 1 = 5
         \/ Below.do = "stop" /\ Len(stack) - 1 = 2
  <2>1. /\ stack \in Seq(Step) /\ stack # <<>> /\ Len(stack) \in Nat /\ Len(stack) >= 1 /\ Shaped(stack)
        /\ Top = stack[1] /\ ~(Len(stack) < 2) /\ ~signalled
    BY TopIs DEF InHandler, Dialogue
  <2>2. Len(stack) > 1
    BY <2>1
  <2>3. Link(Top, Below, Len(stack) - 1)
    BY <2>2, TopIs
  <2> QED
    BY <2>1, <2>2, <2>3 DEF Below, Link
<1>2. stack[Len(stack)].do \in {"exit", "failed"}
  BY <1>1 DEF Shaped
<1>3. \A n \in Nat : (n - 1 = 5 => n = 6) /\ (n - 1 = 2 => n = 3)
  OBVIOUS
<1>4. CASE Below.do = "work" /\ Len(stack) - 1 = 5
  <2>0. Len(stack) = 6
    BY <1>1, <1>3, <1>4, Zenon
  <2>1. /\ stack[2].do = "work" /\ stack[3].do = "endtry" /\ stack[4].do = "reset" /\ stack[5].do = "stop"
        /\ stack[6].do = "exit"
    <3>1. \A n : n = 6 => /\ 2 \in 1 .. n - 1 /\ 3 \in 1 .. n - 1 /\ 4 \in 1 .. n - 1 /\ 5 \in 1 .. n - 1
                          /\ 2 + 1 = 3 /\ 3 + 1 = 4 /\ 4 + 1 = 5 /\ 5 + 1 = 6
      OBVIOUS
    <3>2. /\ 2 \in 1 .. Len(stack) - 1 /\ 3 \in 1 .. Len(stack) - 1 /\ 4 \in 1 .. Len(stack) - 1
          /\ 5 \in 1 .. Len(stack) - 1 /\ 2 + 1 = 3 /\ 3 + 1 = 4 /\ 4 + 1 = 5 /\ 5 + 1 = 6
      BY <3>1, <2>0, Zenon
    <3>3. /\ Link(stack[2], stack[3], Len(stack) - 2) /\ Link(stack[3], stack[4], Len(stack) - 3)
          /\ Link(stack[4], stack[5], Len(stack) - 4) /\ Link(stack[5], stack[6], Len(stack) - 5)
      BY <3>2, <1>1 DEF Shaped
    <3>4. stack[6].do \in {"exit", "failed"}
      BY <1>2, <2>0, Zenon
    <3>5. stack[2].do = "work" /\ stack[3].do = "endtry"
      BY <1>1, <1>4, <3>3 DEF Link
    <3>6. stack[4].do = "reset"
      BY <3>5, <3>3 DEF Link
    <3>7. stack[5].do = "stop"
      BY <3>6, <3>3 DEF Link
    <3>8. stack[6].do \in {"exit", "handler", "raise"}
      BY <3>7, <3>3 DEF Link
    <3> QED
      BY <3>4, <3>5, <3>6, <3>7, <3>8
  <2>2. \A k \in 1 .. Len(stack) : k = 1 \/ k = 2 \/ k = 3 \/ k = 4 \/ k = 5 \/ k = 6
    <3>1. \A n : n = 6 => \A k \in 1 .. n : k = 1 \/ k = 2 \/ k = 3 \/ k = 4 \/ k = 5 \/ k = 6
      OBVIOUS
    <3> QED
      BY <3>1, <2>0, Zenon
  <2>3. Without(stack, Busy)
    BY <2>1, <2>2, <1>1 DEF Without, Busy
  <2> QED
    BY <2>3, <1>1, <1>4
<1>5. CASE Below.do = "stop" /\ Len(stack) - 1 = 2
  <2>0. Len(stack) = 3
    BY <1>1, <1>3, <1>5, Zenon
  <2>1. stack[2].do = "stop" /\ stack[3].do = "exit"
    <3>1. \A n : n = 3 => 2 \in 1 .. n - 1 /\ 2 + 1 = 3
      OBVIOUS
    <3>2. 2 \in 1 .. Len(stack) - 1 /\ 2 + 1 = 3
      BY <3>1, <2>0, Zenon
    <3>3. Link(stack[2], stack[3], Len(stack) - 2)
      BY <3>2, <1>1 DEF Shaped
    <3>4. stack[3].do \in {"exit", "failed"}
      BY <1>2, <2>0, Zenon
    <3> QED
      BY <1>1, <1>5, <3>3, <3>4 DEF Link
  <2>2. \A k \in 1 .. Len(stack) : k = 1 \/ k = 2 \/ k = 3
    <3>1. \A n : n = 3 => \A k \in 1 .. n : k = 1 \/ k = 2 \/ k = 3
      OBVIOUS
    <3> QED
      BY <3>1, <2>0, Zenon
  <2>3. Without(stack, Busy) /\ NoEndtry
    BY <2>1, <2>2, <1>1 DEF Without, Busy, NoEndtry
  <2> QED
    BY <2>3, <1>1, <1>5
<1> QED
  BY <1>1, <1>4, <1>5

\* stop() at the end of cleanup().
LEMMA LastStop ==
    ASSUME StackInv, Running, Top.do = "stop", ~signalled, Without(stack, Busy)
    PROVE  NoEndtry /\ Below.do = "exit" /\ Len(stack) > 1
<1>1. /\ stack \in Seq(Step) /\ stack # <<>> /\ Len(stack) \in Nat /\ Len(stack) > 1 /\ Shaped(stack)
      /\ Top = stack[1] /\ Below = stack[2] /\ Below.do \in {"exit", "handler", "raise"}
      /\ Without(stack, {"handler"})
  <2>1. /\ stack \in Seq(Step) /\ stack # <<>> /\ Len(stack) \in Nat /\ Len(stack) >= 1 /\ Shaped(stack)
        /\ Top = stack[1] /\ ~(Len(stack) < 2) /\ Without(stack, {"handler"})
    BY TopIs
  <2>2. Len(stack) > 1
    BY <2>1
  <2>3. Link(Top, Below, Len(stack) - 1)
    BY <2>2, TopIs
  <2> QED
    BY <2>1, <2>2, <2>3 DEF Below, Link
<1>2. 2 \in 1 .. Len(stack)
  BY <1>1
<1>3. Below.do = "exit"
  BY <1>1, <1>2 DEF Without, Busy
<1>4. 2 = Len(stack)
  BY <1>1, <1>2, <1>3, LastOnly
<1>5. \A k \in 1 .. Len(stack) : k = 1 \/ k = 2
  <2>1. \A n : 2 = n => \A k \in 1 .. n : k = 1 \/ k = 2
    OBVIOUS
  <2> QED
    BY <2>1, <1>4, Zenon
<1> QED
  BY <1>1, <1>3, <1>5 DEF NoEndtry, Without

-----------------------------------------------------------------------------
(* The kinds of steps the runner makes.                                    *)

\* A step that leaves the invariant of the stack alone.
Moves ==
    /\ StackInv' /\ Running' /\ Under /\ (NoEndtry => NoEndtry')
    /\ Len(stack) > 1 /\ Below \in Step /\ Link(Top, Below, Len(stack) - 1)

Keeps == UNCHANGED <<end, signalled>> /\ (stop_sent => stop_sent') /\ (tried => tried')

\* All steps but the last have one after them.
LEMMA MidIs ==
    ASSUME StackInv, Running, Top.do \notin {"exit", "failed"}
    PROVE  /\ Len(stack) > 1 /\ Len(stack) \in Nat /\ Len(stack) - 1 \in Nat
           /\ Top \in Step /\ Below \in Step /\ Link(Top, Below, Len(stack) - 1)
<1>1. Len(stack) \in Nat /\ Len(stack) >= 1 /\ ~(Len(stack) < 2) /\ Top \in Step
  BY TopIs
<1>2. Len(stack) > 1 /\ Len(stack) - 1 \in Nat
  BY <1>1
<1> QED
  BY <1>1, <1>2, TopIs

\* A step that is done.
LEMMA NoneMoves ==
    ASSUME StackInv, Running, Keeps, Top.do \notin {"exit", "failed", "handler"}, Becomes(<<>>)
    PROVE  Moves /\ Top' = Below /\ \A D : Without(stack, D) => Without(stack', D)
<1> DEFINE t == <<>>
<1>1. Fits(t) /\ Len(t) = 0 /\ \A D : Without(t, D)
  BY NoneFits
<1>2. stack' = t \o Tail(stack)
  BY DEF Becomes
<1> HIDE DEF t
<1>3. /\ StackInv' /\ Under /\ (NoEndtry => NoEndtry') /\ Len(stack) > 1
      /\ IF Len(t) = 0 THEN Top' = Below ELSE Top' = t[1]
      /\ \A D : Without(stack, D) /\ Without(t, D) => Without(stack', D)
  BY <1>1, <1>2, Replaced DEF Keeps
<1>4. Running' /\ Below \in Step /\ Link(Top, Below, Len(stack) - 1)
  BY MidIs DEF Running, Keeps
<1> QED
  BY <1>1, <1>3, <1>4 DEF Moves

\* A step that becomes another.
LEMMA OneMoves ==
    ASSUME StackInv, Running, Keeps, Top.do \notin {"exit", "failed", "handler"},
           NEW x \in Step, Becomes(<<x>>), Link(x, Below, Len(stack) - 1),
           x.do \notin {"handler", "endtry", "wait", "debugged"}, x.do \notin Stops,
           signalled => InHandler(x)
    PROVE  /\ Moves /\ Top' = x /\ Below' = Below
           /\ \A D : Without(stack, D) /\ x.do \notin D => Without(stack', D)
<1> DEFINE t == <<x>>
<1>1. Fits(t) /\ Len(t) = 1 /\ t[1] = x /\ \A D : x.do \notin D => Without(t, D)
  BY OneFits
<1>2. stack' = t \o Tail(stack)
  BY DEF Becomes
<1> HIDE DEF t
<1>5. Without(t, Stops) /\ Without(t, {"wait"}) /\ Without(t, {"debugged"})
  BY <1>1
<1>3. /\ StackInv' /\ Under /\ (NoEndtry => NoEndtry') /\ Len(stack) > 1
      /\ IF Len(t) = 0 THEN Top' = Below ELSE Top' = t[1]
      /\ IF Len(t) = 1 THEN Below' = Below ELSE Len(t) > 1 => Below' = t[2]
      /\ \A D : Without(stack, D) /\ Without(t, D) => Without(stack', D)
  BY <1>1, <1>2, <1>5, Replaced DEF Keeps
<1>4. Running' /\ Below \in Step /\ Link(Top, Below, Len(stack) - 1)
  BY MidIs DEF Running, Keeps
<1> QED
  BY <1>1, <1>3, <1>4 DEF Moves

\* A step that becomes two.
LEMMA TwoMove ==
    ASSUME StackInv, Running, Keeps, Top.do \notin {"exit", "failed", "handler"},
           NEW x \in Step, NEW y \in Step, Becomes(<<x, y>>),
           \A d : Link(x, y, d), Link(y, Below, Len(stack) - 1),
           x.do \notin {"handler", "endtry", "wait", "debugged"}, x.do \notin Stops,
           y.do \notin {"handler", "endtry", "wait", "debugged"}, y.do \notin Stops,
           signalled => InHandler(x) /\ InHandler(y)
    PROVE  Moves /\ Top' = x /\ Below' = y
<1> DEFINE t == <<x, y>>
<1>0. Len(stack) \in Nat
  BY MidIs
<1>1. /\ Fits(t) /\ Len(t) = 2 /\ t[1] = x /\ t[2] = y
      /\ \A D : x.do \notin D /\ y.do \notin D => Without(t, D)
  BY <1>0, TwoFit
<1>2. stack' = t \o Tail(stack)
  BY DEF Becomes
<1> HIDE DEF t
<1>5. Without(t, Stops) /\ Without(t, {"wait"}) /\ Without(t, {"debugged"})
  BY <1>1
<1>3. /\ StackInv' /\ Under /\ (NoEndtry => NoEndtry') /\ Len(stack) > 1
      /\ IF Len(t) = 0 THEN Top' = Below ELSE Top' = t[1]
      /\ IF Len(t) = 1 THEN Below' = Below ELSE Len(t) > 1 => Below' = t[2]
  BY <1>1, <1>2, <1>5, Replaced DEF Keeps
<1>4. Running' /\ Below \in Step /\ Link(Top, Below, Len(stack) - 1)
  BY MidIs DEF Running, Keeps
<1> QED
  BY <1>1, <1>3, <1>4 DEF Moves

\* bomb(), after debug_fail().
LEMMA GivingUp ==
    ASSUME StackInv, Running, Keeps, Top.do \notin {"exit", "failed", "handler"}, Becomes(GiveUp)
    PROVE  Moves /\ Top' = F("debug_fail") /\ Below' = F("bomb")
<1> DEFINE x == F("debug_fail")
           y == F("bomb")
<1>1. x \in Step /\ y \in Step /\ x.do = "debug_fail" /\ y.do = "bomb"
  BY DEF F, Step, Doing
<1>2. Becomes(<<x, y>>)
  BY DEF GiveUp
<1>3. Below.do # "read"
  BY MidIs DEF Link
<1>4. (\A d : Link(x, y, d)) /\ Link(y, Below, Len(stack) - 1)
  BY <1>1, <1>3 DEF Link
<1>5. InHandler(x) /\ InHandler(y) /\ x.do \notin Stops /\ y.do \notin Stops
  BY <1>1 DEF InHandler, Stops
<1> HIDE DEF x, y
<1>6. Moves /\ Top' = x /\ Below' = y
  BY <1>1, <1>2, <1>4, <1>5, TwoMove
<1> QED
  BY <1>6 DEF x, y

\* bomb() alone.
LEMMA Bombing ==
    ASSUME StackInv, Running, Keeps, Top.do \notin {"exit", "failed", "handler"}, Becomes(<<F("bomb")>>)
    PROVE  Moves /\ Top' = F("bomb")
<1> DEFINE x == F("bomb")
<1>1. x \in Step /\ x.do = "bomb" /\ x.do \notin Stops /\ InHandler(x)
  BY DEF F, Step, Doing, Stops, InHandler
<1>2. Below.do # "read"
  BY MidIs DEF Link
<1>3. Link(x, Below, Len(stack) - 1)
  BY <1>1, <1>2 DEF Link
<1>4. Becomes(<<x>>)
  OBVIOUS
<1> HIDE DEF x
<1>5. Moves /\ Top' = x
  BY <1>1, <1>3, <1>4, OneMoves
<1> QED
  BY <1>5 DEF x

\* The runner may be in the handler, or no signal has come.
LEMMA HandlerOrNone ==
    ASSUME StackInv, Running, Top.do # "handler"
    PROVE  signalled => InHandler(Top)
  BY TopIs

\* expect() enters readline().
LEMMA Reading ==
    ASSUME StackInv, Running, Keeps, Top.do = "expect", Becomes(<<[do |-> "read", cmd |-> Top.cmd]>>)
    PROVE  Moves /\ Top' = [do |-> "read", cmd |-> Top.cmd]
<1> DEFINE x == [do |-> "read", cmd |-> Top.cmd]
<1>1. Top \in Step /\ Link(Top, Below, Len(stack) - 1) /\ (signalled => InHandler(Top))
  BY MidIs, HandlerOrNone
<1>2. x \in Step /\ x.do = "read" /\ x.cmd = Top.cmd
  BY <1>1 DEF Step, Doing
<1>3. Becomes(<<x>>)
  OBVIOUS
<1> HIDE DEF x
<1>4. Link(x, Below, Len(stack) - 1)
  BY <1>1, <1>2 DEF Link
<1>5. (signalled => InHandler(x)) /\ x.do \notin Stops
  BY <1>1, <1>2 DEF InHandler, Stops, Dialogue
<1>6. Moves /\ Top' = x
  BY <1>2, <1>3, <1>4, <1>5, OneMoves
<1> QED
  BY <1>6 DEF x

\* debug_fail() sends its command.
LEMMA Debugging ==
    ASSUME StackInv, Running, Keeps, Top.do = "debug_fail", ~tried, tried', stop_sent' = stop_sent,
           Becomes(Command("auxverb_debug_fail") \o <<F("debugged")>>)
    PROVE  Moves /\ Top' = Sends("auxverb_debug_fail") /\ Below' = Flushes("auxverb_debug_fail")
<1> DEFINE c == "auxverb_debug_fail"
           x == Sends(c)
           y == Flushes(c)
           z == Expect(c)
           w == F("debugged")
           t == <<x, y, z, w>>
<1>1. /\ x \in Step /\ y \in Step /\ z \in Step /\ w \in Step
      /\ x.do = "write" /\ y.do = "flush" /\ z.do = "expect" /\ w.do = "debugged"
      /\ x.cmd = c /\ y.cmd = c /\ z.cmd = c
  BY DEF Sends, Flushes, Expect, F, Step, Doing, Commands
<1>2. Command(c) \o <<F("debugged")>> = t
  <2>1. Command(c) = <<x, y, z>>
    BY CommandIs DEF Commands
  <2> QED
    BY <2>1, <1>1, ThreeTuple
<1>3. stack' = t \o Tail(stack)
  BY <1>2 DEF Becomes
<1>4. Below.do = "bomb" /\ Len(stack) \in Nat /\ Len(stack) > 1
  BY MidIs DEF Link
<1>5. /\ \A d : Link(x, y, d) /\ Link(y, z, d) /\ Link(z, w, d)
      /\ \A d : Link(w, Below, d)
  BY <1>4 DEF Commands, Link, AfterReply, Sends, Flushes, Expect, F
<1>6. InHandler(x) /\ InHandler(y) /\ InHandler(z) /\ InHandler(w)
  BY <1>1 DEF InHandler, Dialogue
<1> HIDE DEF x, y, z, w
<1>7. /\ Fits(t) /\ Len(t) = 4 /\ t[1] = x /\ t[2] = y /\ t[3] = z /\ t[4] = w
      /\ \A D : x.do \notin D /\ y.do \notin D /\ z.do \notin D /\ w.do \notin D => Without(t, D)
  BY <1>1, <1>4, <1>5, <1>6, FourFit
<1> HIDE DEF t
<1>8. Once(t, "debugged")
  <2>1. \A j \in 1 .. Len(t) : j = 1 \/ j = 2 \/ j = 3 \/ j = 4
    BY <1>7
  <2>2. \A j \in 1 .. Len(t) : t[j].do = "debugged" => j = 4
    BY <2>1, <1>1, <1>7
  <2> QED
    BY <2>2 DEF Once
<1>9. Without(t, Stops) /\ Without(t, {"wait"})
  BY <1>1, <1>7 DEF Stops
<1>10. /\ StackInv' /\ Under /\ (NoEndtry => NoEndtry') /\ Len(stack) > 1
       /\ IF Len(t) = 0 THEN Top' = Below ELSE Top' = t[1]
       /\ IF Len(t) = 1 THEN Below' = Below ELSE Len(t) > 1 => Below' = t[2]
  BY <1>3, <1>7, <1>8, <1>9, Replaced DEF Keeps
<1>11. Running' /\ Below \in Step /\ Link(Top, Below, Len(stack) - 1)
  BY MidIs DEF Running, Keeps
<1> QED
  BY <1>7, <1>10, <1>11 DEF Moves, x, y

\* bomb() calls stop() and raises.
LEMMA Bombed ==
    ASSUME StackInv, Running, Keeps, Top.do = "bomb", Becomes(<<F("stop"), F("raise")>>)
    PROVE  Moves /\ Top' = F("stop") /\ Below' = F("raise")
<1> DEFINE x == F("stop")
           y == F("raise")
<1>1. x \in Step /\ y \in Step /\ x.do = "stop" /\ y.do = "raise"
  BY DEF F, Step, Doing
<1>2. Becomes(<<x, y>>)
  OBVIOUS
<1>3. Below.do # "read"
  BY MidIs DEF Link
<1>4. (\A d : Link(x, y, d)) /\ Link(y, Below, Len(stack) - 1)
  BY <1>1, <1>3 DEF Link
<1>5. InHandler(x) /\ InHandler(y) /\ x.do \notin Stops /\ y.do \notin Stops
  BY <1>1 DEF InHandler, Stops
<1> HIDE DEF x, y
<1>6. Moves /\ Top' = x /\ Below' = y
  BY <1>1, <1>2, <1>4, <1>5, TwoMove
<1> QED
  BY <1>6 DEF x, y

\* stop() begins.
LEMMA StopBegins ==
    ASSUME StackInv, Running, Keeps, Top.do = "stop", ~stop_sent, stop_sent',
           Becomes(<<F("close"), F("hangup"), F("wait")>>)
    PROVE  Moves /\ Top' = F("close") /\ Below' = F("hangup")
<1> DEFINE x == F("close")
           y == F("hangup")
           z == F("wait")
           t == <<x, y, z>>
<1>1. /\ x \in Step /\ y \in Step /\ z \in Step
      /\ x.do = "close" /\ y.do = "hangup" /\ z.do = "wait"
  BY DEF F, Step, Doing
<1>3. stack' = t \o Tail(stack)
  BY DEF Becomes
<1>4. Below.do \in {"exit", "handler", "raise"} /\ Len(stack) \in Nat /\ Len(stack) > 1
  BY MidIs DEF Link
<1>5. /\ \A d : Link(x, y, d) /\ Link(y, z, d)
      /\ \A d : Link(z, Below, d)
  BY <1>1, <1>4 DEF Link
<1>6. InHandler(x) /\ InHandler(y) /\ InHandler(z)
  BY <1>1 DEF InHandler
<1> HIDE DEF x, y, z
<1>7. /\ Fits(t) /\ Len(t) = 3 /\ t[1] = x /\ t[2] = y /\ t[3] = z
      /\ \A D : x.do \notin D /\ y.do \notin D /\ z.do \notin D => Without(t, D)
  BY <1>1, <1>4, <1>5, <1>6, ThreeFit
<1> HIDE DEF t
<1>8. Once(t, "wait")
  <2>1. \A j \in 1 .. Len(t) : j = 1 \/ j = 2 \/ j = 3
    BY <1>7
  <2>2. \A j \in 1 .. Len(t) : t[j].do = "wait" => j = 3
    BY <2>1, <1>1, <1>7
  <2> QED
    BY <2>2 DEF Once
<1>9. Without(t, {"debugged"})
  BY <1>1, <1>7
<1>10. /\ StackInv' /\ Under /\ (NoEndtry => NoEndtry') /\ Len(stack) > 1
       /\ IF Len(t) = 0 THEN Top' = Below ELSE Top' = t[1]
       /\ IF Len(t) = 1 THEN Below' = Below ELSE Len(t) > 1 => Below' = t[2]
  BY <1>3, <1>7, <1>8, <1>9, Replaced DEF Keeps
<1>11. Running' /\ Below \in Step /\ Link(Top, Below, Len(stack) - 1)
  BY MidIs DEF Running, Keeps
<1> QED
  BY <1>7, <1>10, <1>11 DEF Moves, x, y

\* close() sends its command.
LEMMA Closing ==
    ASSUME StackInv, Running, Keeps, Top.do = "close", Becomes(Command("close"))
    PROVE  Moves /\ Top' = Sends("close") /\ Below' = Flushes("close")
<1> DEFINE c == "close"
           x == Sends(c)
           y == Flushes(c)
           z == Expect(c)
           t == <<x, y, z>>
<1>1. /\ x \in Step /\ y \in Step /\ z \in Step
      /\ x.do = "write" /\ y.do = "flush" /\ z.do = "expect"
      /\ x.cmd = c /\ y.cmd = c /\ z.cmd = c
  BY DEF Sends, Flushes, Expect, F, Step, Doing, Commands
<1>2. Command(c) = t
  BY CommandIs DEF Commands
<1>3. stack' = t \o Tail(stack)
  BY <1>2 DEF Becomes
<1>4. Below.do = "hangup" /\ Len(stack) \in Nat /\ Len(stack) > 1
  BY MidIs DEF Link
<1>5. /\ \A d : Link(x, y, d) /\ Link(y, z, d)
      /\ \A d : Link(z, Below, d)
  BY <1>4 DEF Commands, Link, AfterReply, Sends, Flushes, Expect
<1>6. InHandler(x) /\ InHandler(y) /\ InHandler(z)
  BY <1>1 DEF InHandler, Dialogue
<1> HIDE DEF x, y, z
<1>7. /\ Fits(t) /\ Len(t) = 3 /\ t[1] = x /\ t[2] = y /\ t[3] = z
      /\ \A D : x.do \notin D /\ y.do \notin D /\ z.do \notin D => Without(t, D)
  BY <1>1, <1>4, <1>5, <1>6, ThreeFit
<1> HIDE DEF t
<1>9. Without(t, Stops) /\ Without(t, {"wait"}) /\ Without(t, {"debugged"})
  BY <1>1, <1>7 DEF Stops
<1>10. /\ StackInv' /\ Under /\ (NoEndtry => NoEndtry') /\ Len(stack) > 1
       /\ IF Len(t) = 0 THEN Top' = Below ELSE Top' = t[1]
       /\ IF Len(t) = 1 THEN Below' = Below ELSE Len(t) > 1 => Below' = t[2]
  BY <1>3, <1>7, <1>9, Replaced DEF Keeps
<1>11. Running' /\ Below \in Step /\ Link(Top, Below, Len(stack) - 1)
  BY MidIs DEF Running, Keeps
<1> QED
  BY <1>7, <1>10, <1>11 DEF Moves, x, y

\* stop() sends quit.
LEMMA Quitting ==
    ASSUME StackInv, Running, Keeps, Top.do = "hangup", Becomes(Send("quit"))
    PROVE  Moves /\ Top' = Sends("quit") /\ Below' = Flushes("quit")
<1> DEFINE x == Sends("quit")
           y == Flushes("quit")
<1>1. /\ x \in Step /\ y \in Step /\ x.do = "write" /\ y.do = "flush"
      /\ x.cmd = "quit" /\ y.cmd = "quit"
  BY DEF Sends, Flushes, Step, Doing, Commands
<1>2. Becomes(<<x, y>>)
  BY DEF Send, Sends, Flushes
<1>3. Below.do = "wait"
  BY MidIs DEF Link
<1>4. (\A d : Link(x, y, d)) /\ Link(y, Below, Len(stack) - 1)
  BY <1>1, <1>3 DEF Commands, Link
<1>5. InHandler(x) /\ InHandler(y) /\ x.do \notin Stops /\ y.do \notin Stops
  BY <1>1 DEF InHandler, Stops, Dialogue
<1> HIDE DEF x, y
<1>6. Moves /\ Top' = x /\ Below' = y
  BY <1>1, <1>2, <1>4, <1>5, TwoMove
<1> QED
  BY <1>6 DEF x, y

\* execute() starts its command.
LEMMA Executing ==
    ASSUME StackInv, Running, Keeps, Top.do = "exec", Becomes(<<F("running")>>)
    PROVE  Moves /\ Top' = F("running") /\ Below' = Below /\ Without(stack', Busy)
<1> DEFINE x == F("running")
<1>1. x \in Step /\ x.do = "running" /\ x.do \notin Stops /\ x.do \notin Busy
  BY DEF F, Step, Doing, Stops, Busy
<1>2. ~signalled /\ Without(stack, Busy)
  BY ExecIs
<1>3. Link(x, Below, Len(stack) - 1)
  BY <1>1, MidIs DEF Link
<1>4. Becomes(<<x>>)
  OBVIOUS
<1> HIDE DEF x
<1>5. Moves /\ Top' = x /\ Below' = Below /\ \A D : Without(stack, D) /\ x.do \notin D => Without(stack', D)
  BY <1>1, <1>2, <1>3, <1>4, OneMoves
<1> QED
  BY <1>1, <1>2, <1>5 DEF x

\* DebBinaries.reset() calls check_exec().
LEMMA Resetting ==
    ASSUME StackInv, Running, Keeps, Top.do = "reset", Becomes(<<F("exec")>>)
    PROVE  /\ Moves /\ Top' = F("exec") /\ Below' = Below /\ Below.do = "stop"
           /\ Without(stack, Busy) => Without(stack', Busy)
<1> DEFINE x == F("exec")
<1>1. x \in Step /\ x.do = "exec" /\ x.do \notin Stops /\ x.do \notin Busy
  BY DEF F, Step, Doing, Stops, Busy
<1>2. ~signalled
  BY HandlerOrNone DEF InHandler, Dialogue
<1>3. Link(x, Below, Len(stack) - 1) /\ Below.do = "stop"
  BY <1>1, MidIs DEF Link
<1>4. Becomes(<<x>>)
  OBVIOUS
<1> HIDE DEF x
<1>5. Moves /\ Top' = x /\ Below' = Below /\ \A D : Without(stack, D) /\ x.do \notin D => Without(stack', D)
  BY <1>1, <1>2, <1>3, <1>4, OneMoves
<1> QED
  BY <1>1, <1>3, <1>5 DEF x

\* Work.
LEMMA Pushed ==
    ASSUME StackInv, Running, Keeps, UNCHANGED stop_sent, Top.do = "work", NEW t, Leads(t, Top, Len(stack)),
           Calls(t) \/ Without(t, {"handler", "endtry"} \cup Stops \cup {"debugged"}),
           stack' = t \o stack
    PROVE  /\ Moves /\ ~signalled /\ Top' = t[1] /\ (Len(t) > 1 => Below' = t[2]) /\ (Len(t) = 1 => Below' = Top)
<1>1. ~signalled
  BY HandlerOrNone DEF InHandler, Dialogue
<1>2. /\ Len(stack) > 1 /\ t \in Seq(Step) /\ Len(t) \in Nat /\ Len(t) > 0
  BY MidIs, LenProperties DEF Leads
<1>3. /\ Without(t, {"handler", "endtry"}) /\ Without(t, Stops) /\ Without(t, {"debugged"}) /\ Without(t, {"wait"})
  <2>1. CASE Calls(t)
    <3>1. Apart({"handler", "endtry"}) /\ Apart(Stops) /\ Apart({"debugged"}) /\ Apart({"wait"})
      BY DEF Apart, Stops
    <3> QED
      BY <2>1, <3>1 DEF Calls
  <2>2. CASE Without(t, {"handler", "endtry"} \cup Stops \cup {"debugged"})
    BY <2>2 DEF Without, Stops
  <2> QED
    BY <2>1, <2>2
<1> DEFINE u == t \o <<Top>>
<1>4. /\ Fits(u) /\ Len(u) = Len(t) + 1
      /\ t \o stack = u \o Tail(stack)
      /\ \A k \in 1 .. Len(t) : u[k] = t[k]
      /\ u[Len(t) + 1] = Top
      /\ \A D : Without(t, D) /\ "work" \notin D => Without(u, D)
  BY <1>1, <1>2, <1>3, PushFits
<1> HIDE DEF u
<1>5. Without(u, Stops) /\ Without(u, {"debugged"}) /\ Without(u, {"wait"})
  <2>1. "work" \notin Stops
    BY DEF Stops
  <2> QED
    BY <2>1, <1>3, <1>4
<1>6. /\ StackInv' /\ Under /\ (NoEndtry => NoEndtry') /\ Len(stack) > 1
      /\ IF Len(u) = 0 THEN Top' = Below ELSE Top' = u[1]
      /\ IF Len(u) = 1 THEN Below' = Below ELSE Len(u) > 1 => Below' = u[2]
  <2>1. stack' = u \o Tail(stack)
    BY <1>4
  <2> QED
    BY <2>1, <1>4, <1>5, Replaced DEF Keeps
<1>7. Running' /\ Below \in Step /\ Link(Top, Below, Len(stack) - 1)
  BY MidIs DEF Running, Keeps
<1>8. Top' = t[1]
  <2>1. 1 \in 1 .. Len(t) /\ Len(t) + 1 # 0
    BY <1>2
  <2> QED
    BY <2>1, <1>4, <1>6
<1>9. Len(t) > 1 => Below' = t[2]
  <2> SUFFICES ASSUME Len(t) > 1 PROVE Below' = t[2]
    OBVIOUS
  <2>1. 2 \in 1 .. Len(t) /\ Len(t) + 1 # 1 /\ Len(t) + 1 > 1
    BY <1>2
  <2> QED
    BY <2>1, <1>4, <1>6
<1>10. Len(t) = 1 => Below' = Top
  <2> SUFFICES ASSUME Len(t) = 1 PROVE Below' = Top
    OBVIOUS
  <2>1. Len(u) = 2 /\ u[2] = Top
    BY <1>4
  <2> QED
    BY <2>1, <1>6
<1> QED
  BY <1>1, <1>6, <1>7, <1>8, <1>9, <1>10 DEF Moves

\* Its commands, reset() and execute().
LEMMA WorkMoves ==
    ASSUME StackInv, Running, Keeps, UNCHANGED stop_sent, Top.do = "work"
    PROVE  /\ \A c \in {"copy", "reboot"} : stack' = Command(c) \o stack
                 => Moves /\ ~signalled /\ Top' = Sends(c) /\ Below' = Flushes(c)
           /\ stack' = Opening("revert") \o stack
                 => Moves /\ ~signalled /\ Top' = Sends("revert") /\ Below' = Flushes("revert")
           /\ stack' = <<F("exec")>> \o stack
                 => Moves /\ ~signalled /\ Top' = F("exec") /\ Below' = Top
<1>1. Len(stack) \in Nat /\ Link(Top, Below, Len(stack) - 1) /\ Top \in Step /\ Len(stack) > 1
  BY MidIs
<1>2. ASSUME NEW c \in {"copy", "reboot"}, stack' = Command(c) \o stack
      PROVE  Moves /\ ~signalled /\ Top' = Sends(c) /\ Below' = Flushes(c)
  <2> DEFINE t == Command(c)
  <2>1. c \in Commands \ {"quit"} /\ Link(Expect(c), Top, Len(stack))
    BY DEF Commands, Link, Expect, AfterReply
  <2>2. /\ Leads(t, Top, Len(stack)) /\ t[1] = Sends(c) /\ t[2] = Flushes(c) /\ Len(t) = 3
        /\ \A D : D \cap {"write", "flush", "expect"} = {} => Without(t, D)
    BY <2>1, <1>1, CommandLeads
  <2> HIDE DEF t
  <2>3. Calls(t)
    <3>1. \A D : Apart(D) => D \cap {"write", "flush", "expect"} = {}
      BY DEF Apart
    <3> QED
      BY <3>1, <2>2 DEF Calls
  <2>4. stack' = t \o stack /\ Len(t) > 1
    BY <1>2, <2>2 DEF t
  <2> QED
    BY <2>2, <2>3, <2>4, Pushed
<1>3. ASSUME stack' = Opening("revert") \o stack
      PROVE  Moves /\ ~signalled /\ Top' = Sends("revert") /\ Below' = Flushes("revert")
  <2> DEFINE t == Opening("revert")
  <2>1. Front(t, "revert", Top, Len(stack), 11) /\ Calls(t)
    BY <1>1, OpeningLeads
  <2>2. stack' = t \o stack
    BY <1>3
  <2> HIDE DEF t
  <2>3. Leads(t, Top, Len(stack)) /\ t[1] = Sends("revert") /\ t[2] = Flushes("revert") /\ Len(t) > 1
    BY <2>1 DEF Front
  <2> QED
    BY <2>1, <2>2, <2>3, Pushed
<1>4. ASSUME stack' = <<F("exec")>> \o stack
      PROVE  Moves /\ ~signalled /\ Top' = F("exec") /\ Below' = Top
  <2> DEFINE x == F("exec")
             t == <<x>>
  <2>1. x \in Step /\ x.do = "exec"
    BY DEF F, Step, Doing
  <2>2. Link(x, Top, Len(stack))
    <3>1. Len(stack) - 1 = 4
      BY <1>1 DEF Link
    <3>2. Len(stack) = 5
      BY <3>1, <1>1
    <3> QED
      BY <3>2, <2>1 DEF Link
  <2> HIDE DEF x
  <2>3. /\ Leads(t, Top, Len(stack)) /\ t[1] = x /\ Len(t) = 1 /\ \A D : "exec" \notin D => Without(t, D)
    BY <2>1, <2>2, <1>1, OneLeads
  <2>4. stack' = t \o stack
    BY <1>4 DEF x
  <2> HIDE DEF t
  <2>5. Without(t, {"handler", "endtry"} \cup Stops \cup {"debugged"})
    BY <2>3 DEF Stops
  <2>6. Moves /\ ~signalled /\ Top' = t[1] /\ Below' = Top
    BY <2>3, <2>4, <2>5, Pushed
  <2> QED
    BY <2>3, <2>6 DEF x
<1> QED
  BY <1>2, <1>3, <1>4

-----------------------------------------------------------------------------
(* The invariant of the dialogue: what is under way, what the runner knows of the*)
(* testbed, and what it has told the server when it ends.                  *)

\* Queues.
InQueue(c) == \E k \in 1 .. Len(to_server) : to_server[k] = c
Serves(c) == srv = "busy" /\ serving = c
Alive == srv \in {"idle", "busy"}
NeedsTestbed == {"close", "copy", "reboot", "revert", "print-execute-command"}

\* The testbed is there, and will be when what is under way has been done.
Ready == Alive => tb = "there" /\ serving \notin {"open", "close"} /\ ~InQueue("open") /\ ~InQueue("close")

Scalars ==
    /\ aux \in {"none", "fresh", "stale"}
    /\ {scratch, started, stop_sent, tried, alarm, stray, signalled, listens, reverts, handlers, ec} \subseteq BOOLEAN
    /\ pending \in 0..2
    /\ end \in {"no", "exit", "failed", "killed", "unsaid", "interrupted"}
    /\ to_server \in Seq(Commands \cup {"bogus"})
    /\ to_runner \in Seq([for : Commands \cup {"banner"}, ok : BOOLEAN])
    /\ srv \in {"none", "idle", "busy", "gone"}
    /\ serving \in Commands \cup {"bogus", "none"}
    /\ tb \in {"none", "there", "lost"}

ServerInv ==
    /\ srv = "busy" <=> serving # "none"
    /\ srv = "none" => tb = "none" /\ handlers /\ (~signalled => to_server = <<>> /\ to_runner = <<>>)
    /\ srv = "gone" => tb # "there"
    /\ Alive =>
        /\ serving = "open" => tb = "none" /\ ~InQueue("open")
        /\ serving \in NeedsTestbed => tb = "there"
        /\ \A k \in 1 .. Len(to_server) :
              /\ to_server[k] = "open" => k = 1 /\ tb = "none" /\ serving = "none"
              /\ to_server[k] \in NeedsTestbed =>
                    /\ tb = "there" /\ serving \notin {"open", "close"}
                    /\ \A j \in 1 .. k - 1 : to_server[j] \notin {"open", "close"}
        /\ ~handlers => tb # "there" /\ serving # "open" /\ ~InQueue("open")
    /\ \A k \in 1 .. Len(to_runner) : to_runner[k].ok \/ to_runner[k].for = "copy"

AlarmInv ==
    Running /\ alarm =>
        /\ Top.do # "work"
        /\ ~stop_sent => Without(stack, Busy)
        /\ stop_sent /\ ~signalled => NoEndtry

Astray ==
    /\ stray /\ stop_sent /\ NoEndtry
    /\ Top.do \in {"debugged", "bomb", "stop", "raise", "failed"}
    /\ Top.do = "stop" => Below.do = "raise"

Unflushed ==
    Running =>
        /\ pending > 1 => Top.do = "flush" /\ signalled /\ ~alarm
        /\ pending > 0 /\ ~signalled => Top.do = "flush" \/ Astray
        /\ Top.do = "flush" => pending > 0
        /\ alarm /\ pending > 0 =>
              \/ Top.do = "flush"
              \/ signalled /\ stop_sent /\ (Top.do = "handler" \/ (Top.do = "stop" /\ Below.do = "handler"))

\* Nothing is under way.
Quiet == to_runner = <<>> /\ (srv = "gone" \/ (to_server = <<>> /\ srv \in {"none", "idle"}))

OneInFlight(c) ==
    \/ to_server = <<c>> /\ to_runner = <<>> /\ srv = "idle"
    \/ to_runner = <<>> /\ srv = "gone"
    \/ to_server = <<>> /\ to_runner = <<>> /\ Serves(c)
    \/ /\ to_server = <<>> /\ to_runner # <<>> /\ Tail(to_runner) = <<>> /\ Head(to_runner).for = c
       /\ srv \in {"idle", "gone"}

Flight ==
    Running /\ ~signalled =>
        /\ Top.do \in {"expect", "read"} => OneInFlight(Top.cmd)
        /\ Top.do = "wait" => OneInFlight("quit") /\ to_runner = <<>>
        /\ Top.do \notin {"expect", "read", "wait"} => Quiet \/ Astray

LastWords == serving \in {"quit", "bogus"} \/ InQueue("quit") \/ InQueue("bogus")

Waits ==
    Running =>
        /\ Top.do \in {"expect", "read"} => srv \in {"gone", "busy"} \/ to_server # <<>> \/ to_runner # <<>>
        /\ Top.do = "wait" => srv = "gone" \/ LastWords

\* points
Awaiting(x, c) == x.do \in {"expect", "read"} /\ x.cmd = c
Booting(x) == x.do = "popen" \/ Awaiting(x, "banner") \/ Sending(x, "open")
Usable(x) ==
    \/ x.do \in {"auxverb", "work"}
    \/ x.do \in Dialogue
       /\ x.cmd \in {"print-execute-command", "capabilities", "copy", "reboot", "revert"}
Stopping(x) ==
    x.do \in {"close", "hangup", "wait"} \/ (x.do \in Dialogue /\ x.cmd \in {"close", "quit"})
OnWork == Top.do \in {"exec", "running"} /\ Below.do = "work"

Points ==
    Running =>
        /\ Top.do = "popen" <=> srv = "none" /\ ~signalled
        /\ started => srv # "none"
        /\ ~started => srv \in {"none", "gone"}
        /\ Booting(Top) => ~stop_sent /\ ~scratch /\ tb = "none" /\ handlers
        /\ Awaiting(Top, "open") => ~stop_sent /\ ~scratch
        /\ ~signalled /\ Awaiting(Top, "open") /\ to_runner # <<>> => Ready
        /\ Top.do = "opened" => ~stop_sent /\ Ready
        /\ Usable(Top) \/ OnWork => scratch /\ ~stop_sent
        /\ scratch => Ready
        /\ Sending(Top, "close") => Ready
        /\ Stopping(Top) /\ Top.do # "close" => ~scratch
        /\ OnWork \/ Top.do = "work" \/ (Top.do \in Dialogue /\ Top.cmd \in {"capabilities", "copy", "reboot"})
              => aux = "fresh"
        /\ ~signalled /\ stop_sent => srv = "gone" \/ Stopping(Top) \/ Astray
        /\ Top.do = "exit" => stop_sent

\* killed
Exists == Alive /\ (tb = "there" \/ serving = "open" \/ InQueue("open"))
Told == serving \in {"close", "quit", "bogus"} \/ InQueue("close") \/ InQueue("quit") \/ InQueue("bogus")

Duty ==
    \/ Top.do = "stop" /\ ~stop_sent /\ (scratch \/ ~Reads(stack))
    \/ Top.do = "close" /\ (scratch \/ ~Reads(stack))
    \/ Sending(Top, "close")
    \/ Top.do = "hangup" /\ ~Reads(stack)
    \/ Sending(Top, "quit")

Telling ==
    ~stray =>
        /\ Running /\ ~signalled /\ Exists =>
              scratch \/ Told \/ Awaiting(Top, "open") \/ Top.do = "opened" \/ Sending(Top, "close")
        /\ Running /\ signalled /\ Exists /\ ~Untold(stack) => Told \/ Duty
        /\ end \in {"exit", "killed"} /\ Exists => Told

EndInv == ~Running => stack = <<>> /\ pending = 0 /\ ~listens /\ to_runner = <<>>

SInv ==
    /\ Scalars /\ StackInv /\ ServerInv /\ AlarmInv /\ Unflushed /\ Flight /\ Waits /\ Points
    /\ Telling /\ EndInv

-----------------------------------------------------------------------------
(* The pipes, and what a step leaves alone.                                *)

\* A line or a reply more in a pipe.
LEMMA Appended ==
    ASSUME NEW S, NEW q \in Seq(S), NEW x \in S, NEW r, r = Append(q, x)
    PROVE  /\ r \in Seq(S) /\ r # <<>> /\ Len(r) = Len(q) + 1 /\ r[Len(q) + 1] = x
           /\ \A k \in 1 .. Len(q) : r[k] = q[k]
           /\ q = <<>> => r = <<x>> /\ Head(r) = x /\ Tail(r) = <<>>
<1>1. r \in Seq(S) /\ r # <<>> /\ Len(r) = Len(q) + 1 /\ r[Len(q) + 1] = x /\ \A k \in 1 .. Len(q) : r[k] = q[k]
  BY AppendProperties
<1>2. q = <<>> => Head(r) = x /\ Tail(r) = <<>>
  BY HeadTailAppend
<1>3. q = <<>> => r = <<x>>
  <2>1. r = q \o <<x>>
    BY AppendIsConcat
  <2>2. <<x>> \in Seq(S) /\ <<>> \o <<x>> = <<x>>
    BY ConcatEmptySeq
  <2> QED
    BY <2>1, <2>2
<1> QED
  BY <1>1, <1>2, <1>3

\* One fewer.
LEMMA Taken ==
    ASSUME NEW S, NEW q \in Seq(S), q # <<>>, NEW r, r = Tail(q)
    PROVE  /\ r \in Seq(S) /\ Len(q) = Len(r) + 1 /\ Len(r) \in Nat /\ Head(q) = q[1] /\ Head(q) \in S
           /\ \A k \in 1 .. Len(r) : r[k] = q[k+1]
           /\ \A x : q = <<x>> => Head(q) = x /\ r = <<>>
  BY HeadTailProperties

\* An alarm that nothing will clear finds the runner where it waits for nothing.
LEMMA NotBusy ==
    ASSUME StackInv, Running, Without(stack, Busy)
    PROVE  Top.do \notin Busy
<1>1. Top = stack[1] /\ 1 \in 1 .. Len(stack)
  BY TopIs
<1> QED
  BY <1>1 DEF Without

\* Nothing is in an empty pipe.
LEMMA NoneQueued ==
    ASSUME to_server = <<>>
    PROVE  \A c : ~InQueue(c)
  BY DEF InQueue

\* Pipes and a server left alone.
Undisturbed == UNCHANGED <<to_server, to_runner, srv, serving, handlers, tb>>

\* What is under way between runner and server is the same, ...
LEMMA Same ==
    ASSUME Undisturbed
    PROVE  /\ Ready' <=> Ready
           /\ Exists' <=> Exists
           /\ Told' <=> Told
           /\ LastWords' <=> LastWords
           /\ Quiet' <=> Quiet
           /\ \A c : OneInFlight(c)' <=> OneInFlight(c)
           /\ \A c : InQueue(c)' <=> InQueue(c)
  BY DEF Undisturbed, Ready, Exists, Told, LastWords, Quiet, OneInFlight, InQueue, Serves, Alive

\* ... and so is what holds of the server.
LEMMA SameServer ==
    ASSUME Undisturbed, ServerInv, signalled => signalled'
    PROVE  ServerInv'
  BY DEF Undisturbed, ServerInv, InQueue, Alive

\* While the runner runs there is a step to do.
LEMMA Doings ==
    ASSUME SInv, NEW d, At(d)
    PROVE  StackInv /\ Running /\ Top.do = d
  BY DEF SInv, At, Running, Top

\* An alarm pending at a step that waits or fails comes after stop().
LEMMA LateAlarm ==
    ASSUME SInv, Running, Top.do \in Busy, alarm
    PROVE  stop_sent
  BY NotBusy DEF SInv, AlarmInv

-----------------------------------------------------------------------------
(* The steps of the runner.                                                *)

\* send() writes; the handler may find the words of what it has interrupted.
LEMMA WriteStep ==
    ASSUME SInv, Write
    PROVE  SInv'
<1>1. StackInv /\ Running /\ Top.do = "write"
  BY Doings DEF Write
<1>2. pending' = pending + 1 /\ UNCHANGED <<scratch, calls, aux, alarm, stray, end, to_server, to_runner, listens, server>>
  BY DEF Write
<1>3. Moves /\ Top' = Below /\ \A D : Without(stack, D) => Without(stack', D)
  <2>1. Keeps
    BY <1>2 DEF Keeps, calls
  <2> QED
    BY <2>1, <1>1, NoneMoves DEF Write
<1>4. Undisturbed /\ Running /\ StackInv /\ StackInv' /\ Running'
  BY <1>1, <1>2, <1>3 DEF Undisturbed, server, Moves
<1>5. /\ Ready' <=> Ready
      /\ Exists' <=> Exists
      /\ Told' <=> Told
      /\ LastWords' <=> LastWords
      /\ Quiet' <=> Quiet
      /\ \A c : OneInFlight(c)' <=> OneInFlight(c)
  BY <1>4, Same
<1>15. pending \in {0, 1}
  BY <1>1 DEF SInv, Unflushed, Astray, Scalars
<1>6. Scalars'
  BY <1>2, <1>15 DEF SInv, Scalars, calls, server
<1>7. Unflushed'
  BY <1>1, <1>2, <1>3, <1>15 DEF SInv, Unflushed, Moves, Link, calls, Astray
<1>8. AlarmInv'
  BY <1>1, <1>2, <1>3 DEF SInv, AlarmInv, Moves, Link, calls
<1>9. Flight'
  BY <1>1, <1>2, <1>3, <1>5 DEF SInv, Flight, Moves, Link, calls, Astray
<1>10. Waits'
  BY <1>1, <1>3 DEF Waits, Moves, Link
<1>11. Points'
  BY <1>1, <1>2, <1>3, <1>5 DEF SInv, Points, Moves, Link, calls, server, Booting, Sending,
     Awaiting, Usable, OnWork, Stopping, Dialogue, Astray
<1>12. Telling'
  BY <1>1, <1>2, <1>3, <1>5 DEF SInv, Telling, Moves, Link, calls, Sending, Awaiting, Duty, Under
<1>13. ServerInv' /\ EndInv'
  BY <1>2, <1>4, SameServer DEF SInv, EndInv, calls
<1> QED
  BY <1>4, <1>6, <1>7, <1>8, <1>9, <1>10, <1>11, <1>12, <1>13 DEF SInv

\* EPIPE in send().
LEMMA SendFailsStep ==
    ASSUME SInv, SendFails
    PROVE  SInv'
<1>1. StackInv /\ Running /\ Top.do = "flush"
  BY Doings DEF SendFails
<1>2. srv = "gone" /\ pending' = 0 /\ UNCHANGED <<scratch, calls, aux, alarm, stray, end, to_server, to_runner, listens, server>>
  BY DEF SendFails
<1>3. Moves /\ Top'.do = "debug_fail"
  <2>1. Keeps
    BY <1>2 DEF Keeps, calls
  <2> QED
    BY <2>1, <1>1, GivingUp DEF SendFails, F
<1>4. Undisturbed /\ Running /\ StackInv /\ StackInv' /\ Running'
  BY <1>1, <1>2, <1>3 DEF Undisturbed, server, Moves
<1>5. /\ Ready' <=> Ready
      /\ Exists' <=> Exists
      /\ Told' <=> Told
      /\ LastWords' <=> LastWords
      /\ Quiet' <=> Quiet
      /\ \A c : OneInFlight(c)' <=> OneInFlight(c)
  BY <1>4, Same
<1>14. alarm => stop_sent
  BY <1>1, LateAlarm DEF Busy
<1>15. ~Exists /\ ~Exists' /\ Ready /\ Ready'
  BY <1>2, <1>5 DEF Exists, Ready, Alive
<1>6. Scalars'
  BY <1>2 DEF SInv, Scalars, calls, server
<1>7. Unflushed'
  BY <1>2, <1>3 DEF Unflushed
<1>8. AlarmInv'
  BY <1>2, <1>3, <1>4, <1>14 DEF SInv, AlarmInv, Moves, calls
<1>9. Flight'
  BY <1>1, <1>2, <1>3, <1>5 DEF SInv, Flight, calls, Astray
<1>10. Waits'
  BY <1>3 DEF Waits
<1>11. Points'
  BY <1>2, <1>3, <1>15 DEF Points, server, Booting, Sending, Awaiting, Usable, OnWork, Stopping,
     Dialogue
<1>12. Telling'
  BY <1>15 DEF Telling
<1>13. ServerInv' /\ EndInv'
  BY <1>2, <1>4, SameServer DEF SInv, EndInv, calls
<1> QED
  BY <1>4, <1>6, <1>7, <1>8, <1>9, <1>10, <1>11, <1>12, <1>13 DEF SInv

\* End of file in readline().
LEMMA ReadEofStep ==
    ASSUME SInv, ReadEof
    PROVE  SInv'
<1>1. StackInv /\ Running /\ Top.do = "read"
  BY Doings DEF ReadEof
<1>2. srv = "gone" /\ to_runner = <<>> /\ UNCHANGED <<scratch, calls, aux, alarm, stray, end, pipes, server>>
  BY DEF ReadEof
<1>3. Moves /\ Top'.do = "debug_fail"
  <2>1. Keeps
    BY <1>2 DEF Keeps, calls
  <2> QED
    BY <2>1, <1>1, GivingUp DEF ReadEof, F
<1>4. Undisturbed /\ Running /\ StackInv /\ StackInv' /\ Running'
  BY <1>1, <1>2, <1>3 DEF Undisturbed, server, pipes, Moves
<1>5. /\ Ready' <=> Ready
      /\ Exists' <=> Exists
      /\ Told' <=> Told
      /\ LastWords' <=> LastWords
      /\ Quiet' <=> Quiet
      /\ \A c : OneInFlight(c)' <=> OneInFlight(c)
  BY <1>4, Same
<1>14. alarm => stop_sent
  BY <1>1, LateAlarm DEF Busy
<1>15. ~Exists /\ ~Exists' /\ Ready /\ Ready'
  BY <1>2, <1>5 DEF Exists, Ready, Alive
<1>16. Quiet
  BY <1>2 DEF Quiet
<1>6. Scalars'
  BY <1>2 DEF SInv, Scalars, calls, server, pipes
<1>7. Unflushed'
  BY <1>1, <1>2, <1>3 DEF SInv, Unflushed, calls, pipes, Astray
<1>8. AlarmInv'
  BY <1>2, <1>3, <1>4, <1>14 DEF SInv, AlarmInv, Moves, calls
<1>9. Flight'
  BY <1>3, <1>5, <1>16 DEF Flight
<1>10. Waits'
  BY <1>3 DEF Waits
<1>11. Points'
  BY <1>2, <1>3, <1>15 DEF Points, server, Booting, Sending, Awaiting, Usable, OnWork, Stopping,
     Dialogue
<1>12. Telling'
  BY <1>15 DEF Telling
<1>13. ServerInv' /\ EndInv'
  BY <1>2, <1>4, SameServer DEF SInv, EndInv, calls
<1> QED
  BY <1>4, <1>6, <1>7, <1>8, <1>9, <1>10, <1>11, <1>12, <1>13 DEF SInv

\* expect().
LEMMA EnterReadStep ==
    ASSUME SInv, EnterRead
    PROVE  SInv'
<1>1. StackInv /\ Running /\ Top.do = "expect"
  BY Doings DEF EnterRead
<1>2. UNCHANGED <<scratch, calls, aux, alarm, stray, end, pipes, server>>
  BY DEF EnterRead
<1>3. /\ StackInv' /\ Under /\ (NoEndtry => NoEndtry')
      /\ \/ Top'.do = "read" /\ Top'.cmd = Top.cmd
         \/ signalled /\ Top'.do \in {"debugged", "handler"}
  <2>1. Keeps
    BY <1>2 DEF Keeps, calls
  <2>2. CASE Interrupted
    <3>1. signalled
      BY <2>2, <1>1, InterruptedIs
    <3>2. Raise /\ UNCHANGED <<end, signalled, stop_sent, tried>>
      BY <2>2, <1>2 DEF EnterRead, calls
    <3> QED
      BY <3>1, <3>2, <1>1, RaisedIs
  <2>3. CASE ~Interrupted
    <3>1. Becomes(<<[do |-> "read", cmd |-> Top.cmd]>>)
      BY <2>3 DEF EnterRead, Top
    <3> QED
      BY <3>1, <2>1, <1>1, Reading DEF Moves
  <2> QED
    BY <2>2, <2>3
<1>4. Undisturbed /\ Running /\ StackInv /\ StackInv' /\ Running'
  BY <1>1, <1>2, <1>3 DEF Undisturbed, server, pipes, Running
<1>5. /\ Ready' <=> Ready
      /\ Exists' <=> Exists
      /\ Told' <=> Told
      /\ LastWords' <=> LastWords
      /\ Quiet' <=> Quiet
      /\ \A c : OneInFlight(c)' <=> OneInFlight(c)
  BY <1>4, Same
<1>14. alarm => stop_sent
  BY <1>1, LateAlarm DEF Busy
<1>6. Scalars'
  BY <1>2 DEF SInv, Scalars, calls, server, pipes
<1>7. Unflushed'
  BY <1>1, <1>2, <1>3 DEF SInv, Unflushed, calls, pipes, Astray
<1>8. AlarmInv'
  BY <1>2, <1>3, <1>4, <1>14 DEF SInv, AlarmInv, calls
<1>9. Flight'
  BY <1>1, <1>2, <1>3, <1>5 DEF SInv, Flight, calls
<1>10. Waits'
  BY <1>1, <1>2, <1>3 DEF SInv, Waits, pipes, server
<1>11. Points'
  BY <1>1, <1>2, <1>3, <1>5 DEF SInv, Points, calls, pipes, server, Booting, Sending, Awaiting,
     Usable, OnWork, Stopping, Dialogue, Astray
<1>12. Telling'
  BY <1>1, <1>2, <1>3, <1>5 DEF SInv, Telling, calls, Sending, Awaiting, Duty, Under
<1>13. ServerInv' /\ EndInv'
  BY <1>2, <1>4, SameServer DEF SInv, EndInv, calls
<1> QED
  BY <1>4, <1>6, <1>7, <1>8, <1>9, <1>10, <1>11, <1>12, <1>13 DEF SInv

\* bomb().
LEMMA BombStep ==
    ASSUME SInv, Bomb
    PROVE  SInv'
<1>1. StackInv /\ Running /\ Top.do = "bomb"
  BY Doings DEF Bomb
<1>2. UNCHANGED <<scratch, calls, aux, alarm, stray, end, pipes, server>>
  BY DEF Bomb
<1>3. Moves /\ Top'.do = "stop" /\ Below'.do = "raise"
  <2>1. Keeps
    BY <1>2 DEF Keeps, calls
  <2> QED
    BY <2>1, <1>1, Bombed DEF Bomb, F
<1>4. Undisturbed /\ Running /\ StackInv /\ StackInv' /\ Running'
  BY <1>1, <1>2, <1>3 DEF Undisturbed, server, pipes, Moves
<1>5. /\ Ready' <=> Ready
      /\ Exists' <=> Exists
      /\ Told' <=> Told
      /\ LastWords' <=> LastWords
      /\ Quiet' <=> Quiet
      /\ \A c : OneInFlight(c)' <=> OneInFlight(c)
  BY <1>4, Same
<1>14. alarm => stop_sent
  BY <1>1, LateAlarm DEF Busy
<1>6. Scalars'
  BY <1>2 DEF SInv, Scalars, calls, server, pipes
<1>7. Unflushed'
  BY <1>1, <1>2, <1>3 DEF SInv, Unflushed, Moves, calls, pipes, Astray
<1>8. AlarmInv'
  BY <1>2, <1>3, <1>4, <1>14 DEF SInv, AlarmInv, Moves, calls
<1>9. Flight'
  BY <1>1, <1>2, <1>3, <1>5 DEF SInv, Flight, Moves, calls, Astray
<1>10. Waits'
  BY <1>3 DEF Waits
<1>11. Points'
  BY <1>1, <1>2, <1>3, <1>5 DEF SInv, Points, Moves, calls, server, Booting, Sending, Awaiting,
     Usable, OnWork, Stopping, Dialogue, Astray
<1>12. Telling'
  BY <1>1, <1>2, <1>3, <1>5 DEF SInv, Telling, Moves, calls, Sending, Awaiting, Duty, Under
<1>13. ServerInv' /\ EndInv'
  BY <1>2, <1>4, SameServer DEF SInv, EndInv, calls
<1> QED
  BY <1>4, <1>6, <1>7, <1>8, <1>9, <1>10, <1>11, <1>12, <1>13 DEF SInv

\* An exception, and what is left of the stack.
LEMMA RaisedAt ==
    ASSUME StackInv, Running, Raise, UNCHANGED <<end, signalled, stop_sent, tried>>
    PROVE  /\ StackInv' /\ Running' /\ Under /\ (NoEndtry => NoEndtry')
           /\ Top'.do \in {"debugged", "handler", "endtry", "failed"}
           /\ signalled => Top'.do \in {"debugged", "handler"}
           /\ ~signalled => Top'.do # "handler"
           /\ NoEndtry => Top'.do # "endtry"
           /\ \A D : Without(stack, D) /\ "failed" \notin D => Without(stack', D)
<1>1. /\ StackInv' /\ Running' /\ Under /\ (NoEndtry => NoEndtry')
      /\ Top'.do \in {"debugged", "handler", "endtry", "failed"}
      /\ signalled => Top'.do \in {"debugged", "handler"}
      /\ \A D : Without(stack, D) /\ "failed" \notin D => Without(stack', D)
  BY RaisedIs
<1>2. stack' # <<>> /\ Top' = stack'[1] /\ 1 \in 1 .. Len(stack')
  <2>1. stack' \in Seq(Step) /\ stack' # <<>>
    BY <1>1 DEF StackInv, Placed, Shaped
  <2>2. Len(stack') \in Nat \ {0}
    BY <2>1, EmptySeq
  <2> QED
    BY <2>1, <2>2, HeadTailProperties DEF Top
<1>3. ~signalled => Top'.do # "handler"
  BY <1>1, <1>2 DEF StackInv, Counts, Without
<1>4. NoEndtry => Top'.do # "endtry"
  BY <1>1, <1>2 DEF NoEndtry, Without
<1> QED
  BY <1>1, <1>3, <1>4

\* debug_fail().
LEMMA DebugFailStep ==
    ASSUME SInv, DebugFail
    PROVE  SInv'
<1>1. StackInv /\ Running /\ Top.do = "debug_fail"
  BY Doings DEF DebugFail
<1>2. tried' = TRUE /\ UNCHANGED <<scratch, started, stop_sent, aux, alarm, stray, signalled, end, pipes, server>>
  BY DEF DebugFail
<1>3. Moves /\ (Top'.do = "bomb" \/ (Top'.do = "write" /\ Top'.cmd = "auxverb_debug_fail"))
  <2>1. Keeps
    BY <1>2 DEF Keeps, calls
  <2>2. CASE tried
    <3>1. Becomes(<<>>)
      BY <2>2 DEF DebugFail
    <3>2. Moves /\ Top' = Below
      BY <3>1, <2>1, <1>1, NoneMoves
    <3> QED
      BY <3>2, <1>1 DEF Moves, Link
  <2>3. CASE ~tried
    <3>1. Becomes(Command("auxverb_debug_fail") \o <<F("debugged")>>)
      BY <2>3 DEF DebugFail
    <3> QED
      BY <3>1, <2>1, <2>3, <1>1, <1>2, Debugging DEF Sends
  <2> QED
    BY <2>2, <2>3
<1>4. Undisturbed /\ Running /\ StackInv /\ StackInv' /\ Running'
  BY <1>1, <1>2, <1>3 DEF Undisturbed, server, pipes, Moves
<1>5. /\ Ready' <=> Ready
      /\ Exists' <=> Exists
      /\ Told' <=> Told
      /\ LastWords' <=> LastWords
      /\ Quiet' <=> Quiet
      /\ \A c : OneInFlight(c)' <=> OneInFlight(c)
  BY <1>4, Same
<1>14. alarm => stop_sent
  BY <1>1, LateAlarm DEF Busy
<1>6. Scalars'
  BY <1>2 DEF SInv, Scalars, server, pipes
<1>7. Unflushed'
  BY <1>1, <1>2, <1>3 DEF SInv, Unflushed, pipes, Astray
<1>8. AlarmInv'
  BY <1>2, <1>3, <1>4, <1>14 DEF SInv, AlarmInv, Moves
<1>9. Flight'
  BY <1>1, <1>2, <1>3, <1>5 DEF SInv, Flight, Astray
<1>10. Waits'
  BY <1>3 DEF Waits
<1>11. Points'
  BY <1>1, <1>2, <1>3, <1>5 DEF SInv, Points, server, Booting, Sending, Awaiting, Usable, OnWork,
     Stopping, Dialogue, Astray
<1>12. Telling'
  BY <1>1, <1>2, <1>3, <1>5 DEF SInv, Telling, Moves, Sending, Awaiting, Duty, Under
<1>13. ServerInv' /\ EndInv'
  BY <1>2, <1>4, SameServer DEF SInv, EndInv, calls
<1> QED
  BY <1>4, <1>6, <1>7, <1>8, <1>9, <1>10, <1>11, <1>12, <1>13 DEF SInv

\* The exception bomb() raises.
LEMMA RaisesStep ==
    ASSUME SInv, Raises
    PROVE  SInv'
<1>1. StackInv /\ Running /\ Top.do = "raise"
  BY Doings DEF Raises
<1>2. UNCHANGED <<scratch, calls, aux, alarm, stray, end, pipes, server>>
  BY DEF Raises
<1>3. /\ StackInv' /\ Under /\ (NoEndtry => NoEndtry') /\ Top'.do \in {"debugged", "handler", "endtry", "failed"}
      /\ signalled => Top'.do \in {"debugged", "handler"}
      /\ ~signalled => Top'.do # "handler"
      /\ NoEndtry => Top'.do # "endtry"
      /\ \A D : Without(stack, D) /\ "failed" \notin D => Without(stack', D)
  <2>1. Raise /\ UNCHANGED <<end, signalled, stop_sent, tried>>
    BY <1>2 DEF Raises, calls
  <2> QED
    BY <2>1, <1>1, RaisedAt
<1>4. Undisturbed /\ Running /\ StackInv /\ StackInv' /\ Running'
  BY <1>1, <1>2, <1>3 DEF Undisturbed, server, pipes, Running
<1>5. /\ Ready' <=> Ready
      /\ Exists' <=> Exists
      /\ Told' <=> Told
      /\ LastWords' <=> LastWords
      /\ Quiet' <=> Quiet
      /\ \A c : OneInFlight(c)' <=> OneInFlight(c)
  BY <1>4, Same
<1>14. alarm => stop_sent
  BY <1>1, LateAlarm DEF Busy
<1>6. Scalars'
  BY <1>2 DEF SInv, Scalars, calls, server, pipes
<1>7. Unflushed'
  BY <1>1, <1>2, <1>3 DEF SInv, Unflushed, calls, pipes, Astray
<1>8. AlarmInv'
  BY <1>2, <1>3, <1>4, <1>14 DEF SInv, AlarmInv, calls
<1>9. Flight'
  BY <1>1, <1>2, <1>3, <1>5 DEF SInv, Flight, calls, Astray
<1>10. Waits'
  BY <1>3 DEF Waits
<1>11. Points'
  BY <1>1, <1>2, <1>3, <1>5 DEF SInv, Points, calls, server, Booting, Sending, Awaiting, Usable,
     OnWork, Stopping, Dialogue, Astray
<1>12. Telling'
  BY <1>1, <1>2, <1>3, <1>5 DEF SInv, Telling, calls, Sending, Awaiting, Duty, Under
<1>13. ServerInv' /\ EndInv'
  BY <1>2, <1>4, SameServer DEF SInv, EndInv, calls
<1> QED
  BY <1>4, <1>6, <1>7, <1>8, <1>9, <1>10, <1>11, <1>12, <1>13 DEF SInv

\* stop().
LEMMA StopStep ==
    ASSUME SInv, Stop
    PROVE  SInv'
<1>1. StackInv /\ Running /\ Top.do = "stop"
  BY Doings DEF Stop
<1>2. stop_sent' = TRUE /\ UNCHANGED <<scratch, started, tried, aux, alarm, stray, signalled, end, pipes, server>>
  BY DEF Stop
<1>3. Moves /\ ((stop_sent /\ Top' = Below) \/ (~stop_sent /\ Top'.do = "close"))
  <2>1. Keeps
    BY <1>2 DEF Keeps, calls
  <2>2. CASE stop_sent
    BY <2>1, <2>2, <1>1, NoneMoves DEF Stop
  <2>3. CASE ~stop_sent
    BY <2>1, <2>3, <1>1, <1>2, StopBegins DEF Stop, F
  <2> QED
    BY <2>2, <2>3
<1>4. Undisturbed /\ Running /\ StackInv /\ StackInv' /\ Running'
  BY <1>1, <1>2, <1>3 DEF Undisturbed, server, pipes, Moves
<1>5. /\ Ready' <=> Ready
      /\ Exists' <=> Exists
      /\ Told' <=> Told
      /\ LastWords' <=> LastWords
      /\ Quiet' <=> Quiet
      /\ \A c : OneInFlight(c)' <=> OneInFlight(c)
  BY <1>4, Same
<1>15. alarm /\ ~stop_sent /\ ~signalled => NoEndtry
  BY <1>1, LastStop DEF SInv, AlarmInv
<1>6. Scalars'
  BY <1>2 DEF SInv, Scalars, server, pipes
<1>7. Unflushed'
  BY <1>1, <1>2, <1>3 DEF SInv, Unflushed, Moves, Link, pipes, Astray
<1>8. AlarmInv'
  BY <1>1, <1>2, <1>3, <1>15 DEF SInv, AlarmInv, Moves, Link
<1>9. Flight'
  BY <1>1, <1>2, <1>3, <1>5 DEF SInv, Flight, Moves, Link, Astray
<1>10. Waits'
  BY <1>1, <1>3 DEF Waits, Moves, Link
<1>11. Points'
  BY <1>1, <1>2, <1>3, <1>5 DEF SInv, Points, Moves, Link, server, Booting, Sending, Awaiting,
     Usable, OnWork, Stopping, Dialogue, Astray
<1>12. Telling'
  BY <1>1, <1>2, <1>3, <1>5 DEF SInv, Telling, Moves, Sending, Awaiting, Duty, Under
<1>13. ServerInv' /\ EndInv'
  BY <1>2, <1>4, SameServer DEF SInv, EndInv, calls
<1> QED
  BY <1>4, <1>6, <1>7, <1>8, <1>9, <1>10, <1>11, <1>12, <1>13 DEF SInv

\* close().
LEMMA CloseStep ==
    ASSUME SInv, Close
    PROVE  SInv'
<1>1. StackInv /\ Running /\ Top.do = "close"
  BY Doings DEF Close
<1>2. scratch' = FALSE /\ UNCHANGED <<calls, aux, alarm, stray, end, pipes, server>>
  BY DEF Close
<1>3. Moves /\ ((~scratch /\ Top' = Below) \/ (scratch /\ Top'.do = "write" /\ Top'.cmd = "close"))
  <2>1. Keeps
    BY <1>2 DEF Keeps, calls
  <2>2. CASE ~scratch
    BY <2>1, <2>2, <1>1, NoneMoves DEF Close
  <2>3. CASE scratch
    BY <2>1, <2>3, <1>1, <1>2, Closing DEF Close, Sends
  <2> QED
    BY <2>2, <2>3
<1>4. Undisturbed /\ Running /\ StackInv /\ StackInv' /\ Running'
  BY <1>1, <1>2, <1>3 DEF Undisturbed, server, pipes, Moves
<1>5. /\ Ready' <=> Ready
      /\ Exists' <=> Exists
      /\ Told' <=> Told
      /\ LastWords' <=> LastWords
      /\ Quiet' <=> Quiet
      /\ \A c : OneInFlight(c)' <=> OneInFlight(c)
  BY <1>4, Same
<1>14. alarm => stop_sent
  BY <1>1, LateAlarm DEF Busy
<1>6. Scalars'
  BY <1>1, <1>2 DEF SInv, Scalars, calls, server, pipes
<1>7. Unflushed'
  BY <1>1, <1>2, <1>3 DEF SInv, Unflushed, Moves, Link, calls, pipes, Astray
<1>8. AlarmInv'
  BY <1>1, <1>2, <1>3, <1>14 DEF SInv, AlarmInv, Moves, Link, calls
<1>9. Flight'
  BY <1>1, <1>2, <1>3, <1>5 DEF SInv, Flight, Moves, Link, calls, Astray
<1>10. Waits'
  BY <1>1, <1>3 DEF Waits, Moves, Link
<1>11. Points'
  BY <1>1, <1>2, <1>3, <1>5 DEF SInv, Points, Moves, Link, calls, server, Booting, Sending,
     Awaiting, Usable, OnWork, Stopping, Dialogue
<1>12. Telling'
  BY <1>1, <1>2, <1>3, <1>5 DEF SInv, Telling, Moves, Link, calls, Sending, Awaiting, Duty, Under
<1>13. ServerInv' /\ EndInv'
  BY <1>2, <1>4, SameServer DEF SInv, EndInv, calls
<1> QED
  BY <1>4, <1>6, <1>7, <1>8, <1>9, <1>10, <1>11, <1>12, <1>13 DEF SInv

\* stop() closes the pipe from the server and sends quit.
LEMMA HangupStep ==
    ASSUME SInv, Hangup
    PROVE  SInv'
<1>1. StackInv /\ Running /\ Top.do = "hangup"
  BY Doings DEF Hangup
<1>2. UNCHANGED <<scratch, calls, aux, alarm, stray, end, pending, to_server, to_runner, server>>
  BY DEF Hangup
<1>3. /\ StackInv' /\ Under /\ (NoEndtry => NoEndtry')
      /\ \/ Top'.do = "write" /\ Top'.cmd = "quit" /\ listens' = FALSE
         \/ signalled /\ Reads(stack) /\ Top'.do \in {"debugged", "handler"} /\ listens' = listens
  <2>1. Keeps
    BY <1>2 DEF Keeps, calls
  <2>2. CASE Interrupted
    <3>1. signalled /\ Reads(stack)
      BY <2>2, <1>1, InterruptedIs
    <3>2. Raise /\ listens' = listens /\ UNCHANGED <<end, signalled, stop_sent, tried>>
      BY <2>2, <1>2 DEF Hangup, calls
    <3> QED
      BY <3>1, <3>2, <1>1, RaisedIs
  <2>3. CASE ~Interrupted
    BY <2>1, <2>3, <1>1, Quitting DEF Moves, Hangup, Sends
  <2> QED
    BY <2>2, <2>3
<1>4. Undisturbed /\ Running /\ StackInv /\ StackInv' /\ Running'
  BY <1>1, <1>2, <1>3 DEF Undisturbed, server, Running
<1>5. /\ Ready' <=> Ready
      /\ Exists' <=> Exists
      /\ Told' <=> Told
      /\ LastWords' <=> LastWords
      /\ Quiet' <=> Quiet
      /\ \A c : OneInFlight(c)' <=> OneInFlight(c)
  BY <1>4, Same
<1>14. alarm => stop_sent
  BY <1>1, LateAlarm DEF Busy
<1>6. Scalars'
  BY <1>1, <1>2, <1>3 DEF SInv, Scalars, calls, server, pipes
<1>7. Unflushed'
  BY <1>1, <1>2, <1>3 DEF SInv, Unflushed, calls, Astray
<1>8. AlarmInv'
  BY <1>2, <1>3, <1>4, <1>14 DEF SInv, AlarmInv, calls
<1>9. Flight'
  BY <1>1, <1>2, <1>3, <1>5 DEF SInv, Flight, calls, Astray
<1>10. Waits'
  BY <1>3 DEF Waits
<1>11. Points'
  BY <1>1, <1>2, <1>3 DEF SInv, Points, calls, server, Booting, Sending, Awaiting, Usable, OnWork,
     Stopping, Dialogue
<1>12. Telling'
  BY <1>1, <1>2, <1>3, <1>5 DEF SInv, Telling, calls, Sending, Awaiting, Duty, Under
<1>13. ServerInv' /\ EndInv'
  BY <1>2, <1>4, SameServer DEF SInv, EndInv, calls
<1> QED
  BY <1>4, <1>6, <1>7, <1>8, <1>9, <1>10, <1>11, <1>12, <1>13 DEF SInv

\* stop() without a server.
LEMMA NoServerStep ==
    ASSUME SInv, NoServer
    PROVE  SInv'
<1>1. StackInv /\ Running /\ Top.do = "hangup"
  BY Doings DEF NoServer
<1>2. ~started /\ UNCHANGED <<scratch, calls, aux, alarm, stray, end, pipes, server>>
  BY DEF NoServer
<1>3. /\ StackInv' /\ Under /\ (NoEndtry => NoEndtry')
      /\ Top'.do \in {"exit", "handler", "raise"} /\ stop_sent
  <2>1. stop_sent
    BY <1>1, TopIs DEF Stops
  <2> QED
    BY <2>1, <1>1, <1>2, SkippedIs DEF NoServer, calls
<1>4. Undisturbed /\ Running /\ StackInv /\ StackInv' /\ Running'
  BY <1>1, <1>2, <1>3 DEF Undisturbed, server, pipes, Running
<1>5. /\ Ready' <=> Ready
      /\ Exists' <=> Exists
      /\ Told' <=> Told
      /\ LastWords' <=> LastWords
      /\ Quiet' <=> Quiet
      /\ \A c : OneInFlight(c)' <=> OneInFlight(c)
  BY <1>4, Same
<1>15. ~Exists /\ Ready
  BY <1>1, <1>2 DEF SInv, Points, Exists, Ready, Alive
<1>6. Scalars'
  BY <1>2 DEF SInv, Scalars, calls, server, pipes
<1>7. Unflushed'
  BY <1>1, <1>2, <1>3 DEF SInv, Unflushed, calls, pipes, Astray
<1>8. AlarmInv'
  BY <1>2, <1>3, <1>4 DEF SInv, AlarmInv, calls
<1>9. Flight'
  BY <1>1, <1>2, <1>3, <1>5 DEF SInv, Flight, calls, Astray
<1>10. Waits'
  BY <1>3 DEF Waits
<1>11. Points'
  BY <1>2, <1>3, <1>4, <1>5 DEF SInv, Points, calls, server, Booting, Sending, Awaiting, Usable,
     OnWork, Stopping, Dialogue
<1>12. Telling'
  BY <1>5, <1>15 DEF Telling
<1>13. ServerInv' /\ EndInv'
  BY <1>2, <1>4, SameServer DEF SInv, EndInv, calls
<1> QED
  BY <1>4, <1>6, <1>7, <1>8, <1>9, <1>10, <1>11, <1>12, <1>13 DEF SInv

\* The server has exited.
LEMMA WaitStep ==
    ASSUME SInv, Wait
    PROVE  SInv'
<1>1. StackInv /\ Running /\ Top.do = "wait"
  BY Doings DEF Wait
<1>2. srv = "gone" /\ started' = ec /\ UNCHANGED <<scratch, stop_sent, tried, aux, alarm, stray, signalled, end, pipes, server>>
  BY DEF Wait
<1>3. Moves /\ stop_sent /\ ((ec /\ Top'.do = "debug_fail") \/ (~ec /\ Top' = Below))
  <2>1. Keeps
    BY <1>2 DEF Keeps, calls
  <2>2. stop_sent
    BY <1>1, TopIs DEF Stops
  <2>3. CASE ec
    BY <2>1, <2>2, <2>3, <1>1, GivingUp DEF Wait, F
  <2>4. CASE ~ec
    BY <2>1, <2>2, <2>4, <1>1, NoneMoves DEF Wait
  <2> QED
    BY <2>3, <2>4
<1>4. Undisturbed /\ Running /\ StackInv /\ StackInv' /\ Running'
  BY <1>1, <1>2, <1>3 DEF Undisturbed, server, pipes, Moves
<1>5. /\ Ready' <=> Ready
      /\ Exists' <=> Exists
      /\ Told' <=> Told
      /\ LastWords' <=> LastWords
      /\ Quiet' <=> Quiet
      /\ \A c : OneInFlight(c)' <=> OneInFlight(c)
  BY <1>4, Same
<1>15. ~Exists /\ ~Exists' /\ Ready /\ Ready'
  BY <1>2, <1>5 DEF Exists, Ready, Alive
<1>16. ~signalled => Quiet
  BY <1>1, <1>2, <1>4 DEF SInv, Flight, Quiet
<1>6. Scalars'
  BY <1>2 DEF SInv, Scalars, server, pipes
<1>7. Unflushed'
  BY <1>1, <1>2, <1>3 DEF SInv, Unflushed, Moves, Link, pipes, Astray
<1>8. AlarmInv'
  BY <1>1, <1>2, <1>3 DEF SInv, AlarmInv, Moves, Link
<1>9. Flight'
  BY <1>1, <1>2, <1>3, <1>5, <1>16 DEF Flight, Moves, Link
<1>10. Waits'
  BY <1>2 DEF Waits, server
<1>11. Points'
  BY <1>1, <1>2, <1>3, <1>15 DEF Points, Moves, Link, server, Booting, Sending, Awaiting, Usable,
     OnWork, Stopping, Dialogue
<1>12. Telling'
  BY <1>15 DEF Telling
<1>13. ServerInv' /\ EndInv'
  BY <1>2, <1>4, SameServer DEF SInv, EndInv, calls
<1> QED
  BY <1>4, <1>6, <1>7, <1>8, <1>9, <1>10, <1>11, <1>12, <1>13 DEF SInv

\* _opened(): scratch is set when open is known to have succeeded.
LEMMA OpenedStep ==
    ASSUME SInv, Opened
    PROVE  SInv'
<1>1. StackInv /\ Running /\ Top.do = "opened"
  BY Doings DEF Opened
<1>2. scratch' = TRUE /\ UNCHANGED <<calls, aux, alarm, stray, end, pipes, server>>
  BY DEF Opened
<1>3. Moves /\ Top' = Below /\ \A D : Without(stack, D) => Without(stack', D)
  <2>1. Keeps
    BY <1>2 DEF Keeps, calls
  <2> QED
    BY <2>1, <1>1, NoneMoves DEF Opened
<1>4. Undisturbed /\ Running /\ StackInv /\ StackInv' /\ Running'
  BY <1>1, <1>2, <1>3 DEF Undisturbed, server, pipes, Moves
<1>5. /\ Ready' <=> Ready
      /\ Exists' <=> Exists
      /\ Told' <=> Told
      /\ LastWords' <=> LastWords
      /\ Quiet' <=> Quiet
      /\ \A c : OneInFlight(c)' <=> OneInFlight(c)
  BY <1>4, Same
<1>6. Scalars'
  BY <1>2 DEF SInv, Scalars, calls, server, pipes
<1>7. Unflushed'
  BY <1>1, <1>2, <1>3 DEF SInv, Unflushed, Moves, Link, calls, pipes, Astray
<1>8. AlarmInv'
  BY <1>1, <1>2, <1>3 DEF SInv, AlarmInv, Moves, Link, calls
<1>9. Flight'
  BY <1>1, <1>2, <1>3, <1>5 DEF SInv, Flight, Moves, Link, calls, Astray
<1>10. Waits'
  BY <1>1, <1>3 DEF Waits, Moves, Link
<1>11. Points'
  BY <1>1, <1>2, <1>3, <1>5 DEF SInv, Points, Moves, Link, calls, server, Booting, Sending,
     Awaiting, OnWork, Stopping
<1>12. Telling'
  BY <1>1, <1>2, <1>3, <1>5 DEF SInv, Telling, Moves, calls, Sending, Duty, Under
<1>13. ServerInv' /\ EndInv'
  BY <1>2, <1>4, SameServer DEF SInv, EndInv, calls
<1> QED
  BY <1>4, <1>6, <1>7, <1>8, <1>9, <1>10, <1>11, <1>12, <1>13 DEF SInv

\* _opened(): the auxverb.
LEMMA GotAuxverbStep ==
    ASSUME SInv, GotAuxverb
    PROVE  SInv'
<1>1. StackInv /\ Running /\ Top.do = "auxverb"
  BY Doings DEF GotAuxverb
<1>2. aux' = "fresh" /\ UNCHANGED <<scratch, calls, alarm, stray, end, pipes, server>>
  BY DEF GotAuxverb
<1>3. Moves /\ Top' = Below /\ \A D : Without(stack, D) => Without(stack', D)
  <2>1. Keeps
    BY <1>2 DEF Keeps, calls
  <2> QED
    BY <2>1, <1>1, NoneMoves DEF GotAuxverb
<1>4. Undisturbed /\ Running /\ StackInv /\ StackInv' /\ Running'
  BY <1>1, <1>2, <1>3 DEF Undisturbed, server, pipes, Moves
<1>5. /\ Ready' <=> Ready
      /\ Exists' <=> Exists
      /\ Told' <=> Told
      /\ LastWords' <=> LastWords
      /\ Quiet' <=> Quiet
      /\ \A c : OneInFlight(c)' <=> OneInFlight(c)
  BY <1>4, Same
<1>6. Scalars'
  BY <1>2 DEF SInv, Scalars, calls, server, pipes
<1>7. Unflushed'
  BY <1>1, <1>2, <1>3 DEF SInv, Unflushed, Moves, Link, calls, pipes, Astray
<1>8. AlarmInv'
  BY <1>1, <1>2, <1>3 DEF SInv, AlarmInv, Moves, Link, calls
<1>9. Flight'
  BY <1>1, <1>2, <1>3, <1>5 DEF SInv, Flight, Moves, Link, calls, Astray
<1>10. Waits'
  BY <1>1, <1>3 DEF Waits, Moves, Link
<1>11. Points'
  BY <1>1, <1>2, <1>3, <1>5 DEF SInv, Points, Moves, Link, calls, server, Booting, Sending,
     Awaiting, Usable, Stopping
<1>12. Telling'
  BY <1>1, <1>2, <1>3, <1>5 DEF SInv, Telling, Moves, calls, Sending, Awaiting, Duty, Under
<1>13. ServerInv' /\ EndInv'
  BY <1>2, <1>4, SameServer DEF SInv, EndInv, calls
<1> QED
  BY <1>4, <1>6, <1>7, <1>8, <1>9, <1>10, <1>11, <1>12, <1>13 DEF SInv

\* process_actions() calls the testbed, or raises an exception.
LEMMA WorkStep ==
    ASSUME SInv, Work
    PROVE  SInv'
<1>1. StackInv /\ Running /\ Top.do = "work"
  BY Doings DEF Work
<1>2. UNCHANGED <<scratch, started, stop_sent, tried, aux, alarm, stray, signalled, end, pipes, server>>
  BY DEF Work
<1>3. /\ StackInv' /\ Under /\ (NoEndtry => NoEndtry') /\ ~signalled
      /\ \/ Top'.do = "write" /\ Top'.cmd \in {"copy", "reboot", "revert"}
         \/ Top'.do = "exec" /\ Below'.do = "work"
         \/ /\ Top'.do \in {"debugged", "endtry", "failed"}
            /\ NoEndtry => Top'.do # "endtry"
  <2>1. Keeps
    BY <1>2 DEF Keeps, calls
  <2>2. ~signalled
    BY <1>1, HandlerOrNone DEF InHandler, Dialogue
  <2>3. ASSUME NEW c \in {"copy", "reboot"}, stack' = Command(c) \o stack PROVE Moves /\ Top'.do = "write" /\ Top'.cmd = c
    <3>1. \A e \in {"copy", "reboot"} : stack' = Command(e) \o stack => Moves /\ Top' = Sends(e)
      BY <2>1, <1>1, <1>2, WorkMoves
    <3>2. Moves /\ Top' = Sends(c)
      BY <3>1, <2>3, Zenon
    <3> QED
      BY <3>2 DEF Sends
  <2>4. CASE stack' = Opening("revert") \o stack
    BY <2>1, <2>2, <2>4, <1>1, <1>2, WorkMoves DEF Sends, Moves
  <2>5. CASE stack' = <<F("exec")>> \o stack
    BY <2>1, <2>2, <2>5, <1>1, <1>2, WorkMoves DEF F, Moves
  <2>6. CASE Raise
    <3>1. UNCHANGED <<end, signalled, stop_sent, tried>>
      BY <1>2
    <3> QED
      BY <2>2, <2>6, <3>1, <1>1, RaisedAt
  <2> QED
    BY <2>2, <2>3, <2>4, <2>5, <2>6 DEF Work, Moves
<1>4. Undisturbed /\ Running /\ StackInv /\ StackInv' /\ Running'
  BY <1>1, <1>2, <1>3 DEF Undisturbed, server, pipes, Running
<1>5. /\ Ready' <=> Ready
      /\ Exists' <=> Exists
      /\ Told' <=> Told
      /\ LastWords' <=> LastWords
      /\ Quiet' <=> Quiet
      /\ \A c : OneInFlight(c)' <=> OneInFlight(c)
  BY <1>4, Same
<1>6. Scalars'
  BY <1>2 DEF SInv, Scalars, server, pipes
<1>7. Unflushed'
  BY <1>1, <1>2, <1>3 DEF SInv, Unflushed, pipes, Astray
<1>8. AlarmInv'
  BY <1>1, <1>2 DEF SInv, AlarmInv
<1>9. Flight'
  BY <1>1, <1>3, <1>5 DEF SInv, Flight, Astray
<1>10. Waits'
  BY <1>3 DEF Waits
<1>11. Points'
  BY <1>1, <1>2, <1>3, <1>5 DEF SInv, Points, server, Booting, Sending, Awaiting, Usable, Stopping,
     Dialogue
<1>12. Telling'
  BY <1>1, <1>2, <1>3, <1>5 DEF SInv, Telling, Sending, Awaiting
<1>13. ServerInv' /\ EndInv'
  BY <1>2, <1>4, SameServer DEF SInv, EndInv, calls
<1> QED
  BY <1>4, <1>6, <1>7, <1>8, <1>9, <1>10, <1>11, <1>12, <1>13 DEF SInv

\* process_actions() is done.
LEMMA WorkDoneStep ==
    ASSUME SInv, WorkDone
    PROVE  SInv'
<1>1. StackInv /\ Running /\ Top.do = "work"
  BY Doings DEF WorkDone
<1>2. UNCHANGED <<scratch, calls, aux, alarm, stray, end, pipes, server>>
  BY DEF WorkDone
<1>3. Moves /\ Top'.do = "endtry"
  <2>1. Keeps
    BY <1>2 DEF Keeps, calls
  <2>2. Moves /\ Top' = Below
    BY <2>1, <1>1, NoneMoves DEF WorkDone
  <2> QED
    BY <2>2, <1>1 DEF Moves, Link
<1>4. Undisturbed /\ Running /\ StackInv /\ StackInv' /\ Running'
  BY <1>1, <1>2, <1>3 DEF Undisturbed, server, pipes, Moves
<1>5. /\ Ready' <=> Ready
      /\ Exists' <=> Exists
      /\ Told' <=> Told
      /\ LastWords' <=> LastWords
      /\ Quiet' <=> Quiet
      /\ \A c : OneInFlight(c)' <=> OneInFlight(c)
  BY <1>4, Same
<1>6. Scalars'
  BY <1>2 DEF SInv, Scalars, calls, server, pipes
<1>7. Unflushed'
  BY <1>1, <1>2, <1>3 DEF SInv, Unflushed, calls, pipes, Astray
<1>8. AlarmInv'
  BY <1>1, <1>2 DEF SInv, AlarmInv
<1>9. Flight'
  BY <1>1, <1>2, <1>3, <1>5 DEF SInv, Flight, calls, Astray
<1>10. Waits'
  BY <1>3 DEF Waits
<1>11. Points'
  BY <1>1, <1>2, <1>3, <1>5 DEF SInv, Points, calls, server, Booting, Sending, Awaiting, Usable,
     Stopping, Dialogue
<1>12. Telling'
  BY <1>1, <1>2, <1>3, <1>5 DEF SInv, Telling, Moves, calls, Sending, Awaiting, Duty, Under
<1>13. ServerInv' /\ EndInv'
  BY <1>2, <1>4, SameServer DEF SInv, EndInv, calls
<1> QED
  BY <1>4, <1>6, <1>7, <1>8, <1>9, <1>10, <1>11, <1>12, <1>13 DEF SInv

\* An exception is caught.
LEMMA GoOnStep ==
    ASSUME SInv, GoOn
    PROVE  SInv'
<1>1. StackInv /\ Running /\ Top.do \in {"endtry", "debugged"}
  BY Doings DEF GoOn
<1>2. UNCHANGED <<scratch, calls, aux, alarm, stray, end, pipes, server>>
  BY DEF GoOn
<1>3. /\ Moves /\ \A D : Without(stack, D) => Without(stack', D)
      /\ (Top.do = "endtry" /\ Top'.do = "reset") \/ (Top.do = "debugged" /\ Top'.do = "bomb")
  <2>1. Keeps
    BY <1>2 DEF Keeps, calls
  <2>2. Moves /\ Top' = Below /\ \A D : Without(stack, D) => Without(stack', D)
    BY <2>1, <1>1, NoneMoves DEF GoOn
  <2> QED
    BY <2>2, <1>1 DEF Moves, Link
<1>4. Undisturbed /\ Running /\ StackInv /\ StackInv' /\ Running'
  BY <1>1, <1>2, <1>3 DEF Undisturbed, server, pipes, Moves
<1>5. /\ Ready' <=> Ready
      /\ Exists' <=> Exists
      /\ Told' <=> Told
      /\ LastWords' <=> LastWords
      /\ Quiet' <=> Quiet
      /\ \A c : OneInFlight(c)' <=> OneInFlight(c)
  BY <1>4, Same
<1>6. Scalars'
  BY <1>2 DEF SInv, Scalars, calls, server, pipes
<1>7. Unflushed'
  BY <1>2, <1>3, <1>4 DEF SInv, Unflushed, Moves, calls, pipes, Astray
<1>8. AlarmInv'
  BY <1>2, <1>3, <1>4 DEF SInv, AlarmInv, Moves, calls
<1>9. Flight'
  BY <1>2, <1>3, <1>4, <1>5 DEF SInv, Flight, Moves, calls, Astray
<1>10. Waits'
  BY <1>3 DEF Waits
<1>11. Points'
  BY <1>2, <1>3, <1>4, <1>5 DEF SInv, Points, Moves, calls, server, Booting, Sending, Awaiting,
     Usable, OnWork, Stopping, Dialogue, Astray
<1>12. Telling'
  BY <1>2, <1>3, <1>4, <1>5 DEF SInv, Telling, Moves, calls, Sending, Awaiting, Duty, Under
<1>13. ServerInv' /\ EndInv'
  BY <1>2, <1>4, SameServer DEF SInv, EndInv, calls
<1> QED
  BY <1>4, <1>6, <1>7, <1>8, <1>9, <1>10, <1>11, <1>12, <1>13 DEF SInv

\* execute() sets its alarm.
LEMMA ExecuteStep ==
    ASSUME SInv, Execute
    PROVE  SInv'
<1>1. StackInv /\ Running /\ Top.do = "exec"
  BY Doings DEF Execute
<1>2. alarm' = TRUE /\ UNCHANGED <<scratch, calls, aux, stray, end, pipes, server>>
  BY DEF Execute
<1>3. /\ Moves /\ Top'.do = "running" /\ Below' = Below /\ Without(stack', Busy) /\ ~signalled
      /\ Below.do = "work" \/ NoEndtry
  <2>1. Keeps
    BY <1>2 DEF Keeps, calls
  <2>2. Moves /\ Top'.do = "running" /\ Below' = Below /\ Without(stack', Busy)
    BY <2>1, <1>1, Executing DEF Execute, F
  <2> QED
    BY <2>2, <1>1, ExecIs
<1>4. Undisturbed /\ Running /\ StackInv /\ StackInv' /\ Running'
  BY <1>1, <1>2, <1>3 DEF Undisturbed, server, pipes, Moves
<1>5. /\ Ready' <=> Ready
      /\ Exists' <=> Exists
      /\ Told' <=> Told
      /\ LastWords' <=> LastWords
      /\ Quiet' <=> Quiet
      /\ \A c : OneInFlight(c)' <=> OneInFlight(c)
  BY <1>4, Same
<1>15. Below.do = "work" => ~stop_sent
  BY <1>1 DEF SInv, Points, OnWork
<1>6. Scalars'
  BY <1>2 DEF SInv, Scalars, calls, server, pipes
<1>7. Unflushed'
  BY <1>1, <1>2, <1>3 DEF SInv, Unflushed, pipes, Astray
<1>8. AlarmInv'
  BY <1>2, <1>3, <1>15 DEF AlarmInv, Moves, calls
<1>9. Flight'
  BY <1>1, <1>3, <1>5 DEF SInv, Flight, Astray
<1>10. Waits'
  BY <1>3 DEF Waits
<1>11. Points'
  BY <1>1, <1>2, <1>3, <1>5 DEF SInv, Points, calls, server, Booting, Sending, Awaiting, Usable,
     OnWork, Stopping, Dialogue, Astray
<1>12. Telling'
  BY <1>1, <1>2, <1>3, <1>5 DEF SInv, Telling, calls, Sending, Awaiting
<1>13. ServerInv' /\ EndInv'
  BY <1>2, <1>4, SameServer DEF SInv, EndInv, calls
<1> QED
  BY <1>4, <1>6, <1>7, <1>8, <1>9, <1>10, <1>11, <1>12, <1>13 DEF SInv

\* It clears it.
LEMMA ExecutedStep ==
    ASSUME SInv, Executed
    PROVE  SInv'
<1>1. StackInv /\ Running /\ Top.do = "running"
  BY Doings DEF Executed
<1>2. alarm' = FALSE /\ UNCHANGED <<scratch, calls, aux, stray, end, pipes, server>>
  BY DEF Executed
<1>3. /\ Moves /\ ~signalled
      /\ \/ Top' = Below /\ Below.do \in {"work", "stop"}
         \/ Top'.do \in {"bomb", "debug_fail"}
  <2>1. Keeps
    BY <1>2 DEF Keeps, calls
  <2>2. ~signalled /\ Below.do \in {"work", "stop"}
    BY <1>1, ExecIs
  <2>3. CASE Becomes(<<>>)
    BY <2>1, <2>2, <2>3, <1>1, NoneMoves
  <2>4. CASE Becomes(<<F("bomb")>>)
    BY <2>1, <2>2, <2>4, <1>1, Bombing DEF F
  <2>5. CASE Becomes(GiveUp)
    BY <2>1, <2>2, <2>5, <1>1, GivingUp DEF F
  <2> QED
    BY <2>3, <2>4, <2>5 DEF Executed
<1>4. Undisturbed /\ Running /\ StackInv /\ StackInv' /\ Running'
  BY <1>1, <1>2, <1>3 DEF Undisturbed, server, pipes, Moves
<1>5. /\ Ready' <=> Ready
      /\ Exists' <=> Exists
      /\ Told' <=> Told
      /\ LastWords' <=> LastWords
      /\ Quiet' <=> Quiet
      /\ \A c : OneInFlight(c)' <=> OneInFlight(c)
  BY <1>4, Same
<1>6. Scalars'
  BY <1>1, <1>2 DEF SInv, Scalars, calls, server, pipes
<1>7. Unflushed'
  BY <1>1, <1>2, <1>3 DEF SInv, Unflushed, pipes, Astray
<1>8. AlarmInv'
  BY <1>2 DEF AlarmInv
<1>9. Flight'
  BY <1>1, <1>3, <1>5 DEF SInv, Flight, Astray
<1>10. Waits'
  BY <1>3 DEF Waits
<1>11. Points'
  BY <1>1, <1>2, <1>3, <1>5 DEF SInv, Points, calls, server, Booting, Sending, Awaiting, Usable,
     OnWork, Stopping, Dialogue, Astray
<1>12. Telling'
  BY <1>1, <1>2, <1>3, <1>5 DEF SInv, Telling, calls, Sending, Awaiting
<1>13. ServerInv' /\ EndInv'
  BY <1>2, <1>4, SameServer DEF SInv, EndInv, calls
<1> QED
  BY <1>4, <1>6, <1>7, <1>8, <1>9, <1>10, <1>11, <1>12, <1>13 DEF SInv

\* It raises an exception and leaves the alarm.
LEMMA UndecodableStep ==
    ASSUME SInv, Undecodable
    PROVE  SInv'
<1>1. StackInv /\ Running /\ Top.do = "running"
  BY Doings DEF Undecodable
<1>2. UNCHANGED <<scratch, calls, aux, alarm, stray, end, pipes, server>>
  BY DEF Undecodable
<1>3. /\ StackInv' /\ Under /\ (NoEndtry => NoEndtry') /\ Top'.do \in {"debugged", "handler", "endtry", "failed"}
      /\ signalled => Top'.do \in {"debugged", "handler"}
      /\ ~signalled => Top'.do # "handler"
      /\ NoEndtry => Top'.do # "endtry"
      /\ \A D : Without(stack, D) /\ "failed" \notin D => Without(stack', D)
  <2>1. Raise /\ UNCHANGED <<end, signalled, stop_sent, tried>>
    BY <1>2 DEF Undecodable, calls
  <2> QED
    BY <2>1, <1>1, RaisedAt
<1>4. Undisturbed /\ Running /\ StackInv /\ StackInv' /\ Running'
  BY <1>1, <1>2, <1>3 DEF Undisturbed, server, pipes, Running
<1>5. /\ Ready' <=> Ready
      /\ Exists' <=> Exists
      /\ Told' <=> Told
      /\ LastWords' <=> LastWords
      /\ Quiet' <=> Quiet
      /\ \A c : OneInFlight(c)' <=> OneInFlight(c)
  BY <1>4, Same
<1>6. Scalars'
  BY <1>2 DEF SInv, Scalars, calls, server, pipes
<1>7. Unflushed'
  BY <1>1, <1>2, <1>3 DEF SInv, Unflushed, calls, pipes, Astray
<1>8. AlarmInv'
  BY <1>2, <1>3, <1>4 DEF SInv, AlarmInv, Busy, calls
<1>9. Flight'
  BY <1>1, <1>2, <1>3, <1>5 DEF SInv, Flight, calls, Astray
<1>10. Waits'
  BY <1>3 DEF Waits
<1>11. Points'
  BY <1>1, <1>2, <1>3, <1>5 DEF SInv, Points, calls, server, Booting, Sending, Awaiting, Usable,
     OnWork, Stopping, Dialogue, Astray
<1>12. Telling'
  BY <1>1, <1>2, <1>3, <1>5 DEF SInv, Telling, calls, Sending, Awaiting, Duty, Under
<1>13. ServerInv' /\ EndInv'
  BY <1>2, <1>4, SameServer DEF SInv, EndInv, calls
<1> QED
  BY <1>4, <1>6, <1>7, <1>8, <1>9, <1>10, <1>11, <1>12, <1>13 DEF SInv

\* The alarm, expected or not.
LEMMA AlarmRingsStep ==
    ASSUME SInv, AlarmRings
    PROVE  SInv'
<1>1. StackInv /\ Running
  BY DEF SInv, AlarmRings, Running
<1>2. alarm /\ alarm' = FALSE /\ UNCHANGED <<scratch, calls, aux, end, pipes, server>>
  BY DEF AlarmRings
<1>3. \/ /\ Moves /\ stray' = stray /\ Top.do = "running" /\ ~signalled
         /\ (Top' = Below /\ Below.do \in {"work", "stop"}) \/ Top'.do = "debug_fail"
      \/ /\ StackInv' /\ Under /\ (NoEndtry => NoEndtry') /\ Top'.do \in {"debugged", "handler", "endtry", "failed"}
         /\ signalled => Top'.do \in {"debugged", "handler"}
         /\ ~signalled => Top'.do # "handler"
         /\ NoEndtry => Top'.do # "endtry"
         /\ stray' = TRUE
  <2>1. Keeps
    BY <1>2 DEF Keeps, calls
  <2>2. CASE Top.do = "running"
    <3>1. ~signalled /\ Below.do \in {"work", "stop"}
      BY <2>2, <1>1, ExecIs
    <3>2. stray' = stray /\ (Becomes(GiveUp) \/ Becomes(<<>>))
      BY <2>2 DEF AlarmRings, Top
    <3> QED
      BY <2>1, <2>2, <3>1, <3>2, <1>1, NoneMoves, GivingUp DEF F
  <2>3. CASE Top.do # "running"
    <3>1. Raise /\ stray' = TRUE /\ UNCHANGED <<end, signalled, stop_sent, tried>>
      BY <2>3, <1>2 DEF AlarmRings, Top, calls
    <3> QED
      BY <3>1, <1>1, RaisedAt
  <2> QED
    BY <2>2, <2>3
<1>4. Undisturbed /\ Running /\ StackInv /\ StackInv' /\ Running'
  BY <1>1, <1>2, <1>3 DEF Undisturbed, server, pipes, Moves, Running
<1>5. /\ Ready' <=> Ready
      /\ Exists' <=> Exists
      /\ Told' <=> Told
      /\ LastWords' <=> LastWords
      /\ Quiet' <=> Quiet
      /\ \A c : OneInFlight(c)' <=> OneInFlight(c)
  BY <1>4, Same
<1>14. /\ Top.do \in {"popen", "flush", "expect", "read", "wait"} => stop_sent
       /\ stop_sent /\ ~signalled => NoEndtry
  BY <1>1, <1>2, NotBusy DEF SInv, AlarmInv, Busy
<1>6. Scalars'
  <2>1. alarm' \in BOOLEAN /\ stray' \in BOOLEAN
    BY <1>2, <1>3 DEF SInv, Scalars
  <2>2. UNCHANGED <<aux, scratch, started, stop_sent, tried, signalled, listens, reverts, handlers, ec,
                    pending, end, to_server, to_runner, srv, serving, tb>>
    BY <1>2 DEF calls, server, pipes
  <2> QED
    BY <2>1, <2>2 DEF SInv, Scalars
<1>7. Unflushed'
  BY <1>2, <1>3, <1>4, <1>14 DEF SInv, Unflushed, calls, pipes, Astray
<1>8. AlarmInv'
  BY <1>2 DEF AlarmInv
<1>9. Flight'
  BY <1>2, <1>3, <1>4, <1>5, <1>14 DEF SInv, Flight, calls, Astray
<1>10. Waits'
  BY <1>3 DEF Waits
<1>11. Points'
  BY <1>2, <1>3, <1>4, <1>5, <1>14 DEF SInv, Points, calls, server, Booting, Sending, Awaiting,
     Usable, OnWork, Stopping, Dialogue, Astray
<1>12. Telling'
  BY <1>2, <1>3, <1>4, <1>5 DEF SInv, Telling, calls, Sending, Awaiting
<1>13. ServerInv' /\ EndInv'
  BY <1>2, <1>4, SameServer DEF SInv, EndInv, calls
<1> QED
  BY <1>4, <1>6, <1>7, <1>8, <1>9, <1>10, <1>11, <1>12, <1>13 DEF SInv

\* cleanup() before stop().
LEMMA ResetStep ==
    ASSUME SInv, Reset
    PROVE  SInv'
<1>1. StackInv /\ Running /\ Top.do = "reset"
  BY Doings DEF Reset
<1>2. UNCHANGED <<scratch, calls, aux, alarm, stray, end, pipes, server>>
  BY DEF Reset
<1>3. /\ Moves /\ (Without(stack, Busy) => Without(stack', Busy))
      /\ Top'.do = "stop" \/ (Top'.do = "exec" /\ Below'.do = "stop")
  <2>1. Keeps
    BY <1>2 DEF Keeps, calls
  <2>2. CASE Becomes(<<>>)
    <3>1. Moves /\ Top' = Below /\ \A D : Without(stack, D) => Without(stack', D)
      BY <2>1, <2>2, <1>1, NoneMoves
    <3> QED
      BY <3>1, <1>1 DEF Moves, Link
  <2>3. CASE Becomes(<<F("exec")>>)
    BY <2>1, <2>3, <1>1, Resetting DEF F
  <2> QED
    BY <2>2, <2>3 DEF Reset
<1>4. Undisturbed /\ Running /\ StackInv /\ StackInv' /\ Running'
  BY <1>1, <1>2, <1>3 DEF Undisturbed, server, pipes, Moves
<1>5. /\ Ready' <=> Ready
      /\ Exists' <=> Exists
      /\ Told' <=> Told
      /\ LastWords' <=> LastWords
      /\ Quiet' <=> Quiet
      /\ \A c : OneInFlight(c)' <=> OneInFlight(c)
  BY <1>4, Same
<1>6. Scalars'
  BY <1>2 DEF SInv, Scalars, calls, server, pipes
<1>7. Unflushed'
  BY <1>1, <1>2, <1>3 DEF SInv, Unflushed, calls, pipes, Astray
<1>8. AlarmInv'
  BY <1>2, <1>3, <1>4 DEF SInv, AlarmInv, Moves, calls
<1>9. Flight'
  BY <1>1, <1>2, <1>3, <1>5 DEF SInv, Flight, calls, Astray
<1>10. Waits'
  BY <1>3 DEF Waits
<1>11. Points'
  BY <1>1, <1>2, <1>3, <1>5 DEF SInv, Points, calls, server, Booting, Sending, Awaiting, Usable,
     OnWork, Stopping, Dialogue, Astray
<1>12. Telling'
  BY <1>1, <1>2, <1>3, <1>5 DEF SInv, Telling, Moves, calls, Sending, Awaiting, Duty, Under
<1>13. ServerInv' /\ EndInv'
  BY <1>2, <1>4, SameServer DEF SInv, EndInv, calls
<1> QED
  BY <1>4, <1>6, <1>7, <1>8, <1>9, <1>10, <1>11, <1>12, <1>13 DEF SInv

\* SIGTERM or SIGQUIT: what it interrupts stays on the stack.
LEMMA SignalStep ==
    ASSUME SInv, Signal
    PROVE  SInv'
<1>1. StackInv /\ Running /\ ~signalled
  BY DEF SInv, Signal, Running
<1>2. /\ signalled' = TRUE /\ stack' = <<F("stop"), F("handler")>> \o stack
      /\ UNCHANGED <<scratch, started, stop_sent, tried, aux, alarm, stray, end, pipes, server>>
  BY DEF Signal
<1>3. /\ StackInv' /\ (NoEndtry => NoEndtry') /\ Top'.do = "stop" /\ Below'.do = "handler"
      /\ Reads(stack)' <=> Top.do = "read"
      /\ Untold(stack)' <=> UnsaidAt(Top)
      /\ Without(stack, Busy) => Without(stack', Busy)
  <2>1. "stop" \notin Busy /\ "handler" \notin Busy
    BY DEF Busy
  <2> QED
    BY <2>1, <1>1, <1>2, SignalledIs DEF F
<1>4. Undisturbed /\ Running /\ StackInv /\ StackInv' /\ Running'
  BY <1>1, <1>2, <1>3 DEF Undisturbed, server, pipes, Running
<1>5. /\ Ready' <=> Ready
      /\ Exists' <=> Exists
      /\ Told' <=> Told
      /\ LastWords' <=> LastWords
  BY <1>4, Same
<1>14. alarm /\ Top.do = "flush" => stop_sent
  BY <1>1, LateAlarm DEF Busy
<1>6. Scalars'
  BY <1>1, <1>2 DEF SInv, Scalars, server, pipes
<1>7. Unflushed'
  BY <1>1, <1>2, <1>3, <1>14 DEF SInv, Unflushed, pipes
<1>8. AlarmInv'
  BY <1>1, <1>2, <1>3, <1>4 DEF SInv, AlarmInv
<1>9. Flight'
  BY <1>1, <1>2 DEF Flight
<1>10. Waits'
  BY <1>3 DEF Waits
<1>11. Points'
  BY <1>2, <1>3, <1>4, <1>5 DEF SInv, Points, server, Booting, Sending, Awaiting, Usable, OnWork,
     Stopping, Dialogue
<1>12. Telling'
  BY <1>1, <1>2, <1>3, <1>5 DEF SInv, Points, Telling, Exists, Alive, Awaiting, Astray, Duty,
     UnsaidAt
<1>13. ServerInv' /\ EndInv'
  BY <1>2, <1>4, SameServer DEF SInv, EndInv
<1> QED
  BY <1>4, <1>6, <1>7, <1>8, <1>9, <1>10, <1>11, <1>12, <1>13 DEF SInv

\* An end of the runner.
LEMMA EndsStep ==
    ASSUME SInv, Running, NEW how \in {"exit", "failed", "killed", "unsaid", "interrupted"}, Ends(how),
           how \in {"exit", "killed"} /\ ~stray /\ Exists => Told, UNCHANGED calls
    PROVE  SInv'
<1>1. /\ end' = how /\ stack' = <<>> /\ listens' = FALSE /\ pending' = 0 /\ to_runner' = <<>>
      /\ UNCHANGED <<scratch, calls, aux, alarm, stray, to_server, server>>
  BY DEF Ends
<1>2. ~Running'
  BY <1>1 DEF Running
<1>3. StackInv'
  <2>1. <<>> \in Seq(Step) /\ \A k \in 1 .. Len(<<>>) : FALSE
    BY EmptySeq
  <2>2. Counts'
    <3>1. Once(<<>>, "wait") /\ Once(<<>>, "debugged")
      BY <2>1 DEF Once
    <3>2. \A D : Without(<<>>, D)
      BY NoneFits
    <3> QED
      BY <3>1, <3>2, <1>1 DEF Counts
  <2> QED
    BY <2>1, <2>2, <1>1, <1>2 DEF StackInv, Placed, Handling
<1>4. (Exists' <=> Exists) /\ (Told' <=> Told)
  BY <1>1 DEF Exists, Told, InQueue, Alive, server
<1>5. Scalars'
  <2>1. to_runner' \in Seq([for : Commands \cup {"banner"}, ok : BOOLEAN])
    <3> DEFINE S == [for : Commands \cup {"banner"}, ok : BOOLEAN]
    <3>1. <<>> \in Seq(S)
      BY EmptySeq
    <3> HIDE DEF S
    <3>2. to_runner' \in Seq(S)
      BY <3>1, <1>1
    <3> QED
      BY <3>2 DEF S
  <2>2. /\ pending' \in 0 .. 2 /\ end' \in {"no", "exit", "failed", "killed", "unsaid", "interrupted"}
        /\ listens' \in BOOLEAN
    <3>1. pending' = 0 /\ listens' = FALSE /\ end' = how
      BY <1>1
    <3>2. end' \in {"no", "exit", "failed", "killed", "unsaid", "interrupted"}
      BY <3>1
    <3>3. pending' \in 0 .. 2
      BY <3>1
    <3>4. listens' \in BOOLEAN
      BY <3>1
    <3> QED
      BY <3>2, <3>3, <3>4
  <2>3. UNCHANGED <<aux, scratch, started, stop_sent, tried, alarm, stray, signalled, reverts, handlers, ec,
                    to_server, srv, serving, tb>>
    BY <1>1 DEF calls, server
  <2> QED
    BY <2>1, <2>2, <2>3 DEF SInv, Scalars
<1>6. ServerInv'
  <2> QED
    BY <1>1 DEF SInv, ServerInv, InQueue, Alive, server, calls
<1>7. AlarmInv' /\ Unflushed' /\ Flight' /\ Waits' /\ Points' /\ EndInv'
  BY <1>1, <1>2 DEF AlarmInv, Unflushed, Flight, Waits, Points, EndInv
<1>8. Telling'
  BY <1>1, <1>2, <1>4 DEF Telling
<1> QED
  BY <1>3, <1>5, <1>6, <1>7, <1>8 DEF SInv

\* The runner exits; without a stray alarm, stop() has been through.
LEMMA ExitStep ==
    ASSUME SInv, Exit
    PROVE  SInv'
<1>1. PICK how \in {"exit", "failed"} : At(how) /\ Ends(how)
  BY DEF Exit
<1>2. StackInv /\ Running /\ Top.do = how
  BY <1>1, Doings
<1>3. ~signalled
  BY <1>2, TopIs DEF InHandler, Dialogue
<1>4. how = "exit" /\ ~stray => ~Exists
  BY <1>2, <1>3 DEF SInv, Points, Stopping, Astray, Dialogue, Exists, Alive
<1>5. UNCHANGED calls
  BY <1>1 DEF Ends
<1> QED
  BY <1>1, <1>2, <1>4, <1>5, EndsStep

\* The handler kills the runner; what it could not tell the server, Unsaid says.
LEMMA KillStep ==
    ASSUME SInv, Kill
    PROVE  SInv'
<1>1. StackInv /\ Running /\ Top.do = "handler"
  BY Doings DEF Kill
<1>2. signalled
  BY <1>1, TopIs
<1>3. PICK how \in {"unsaid", "killed"} : Ends(how) /\ (how = "killed" => ~Unsaid)
  BY DEF Kill
<1>4. how = "killed" /\ ~stray /\ Exists => Told
  BY <1>1, <1>2, <1>3, UnsaidIs DEF SInv, Telling, Duty, Sending
<1>5. UNCHANGED calls
  BY <1>3 DEF Ends
<1> QED
  BY <1>1, <1>3, <1>4, <1>5, EndsStep

\* SIGINT ends the runner.
LEMMA InterruptStep ==
    ASSUME SInv, Interrupt
    PROVE  SInv'
<1>1. Running /\ Ends("interrupted")
  BY DEF Interrupt, Running
<1>2. UNCHANGED calls
  BY <1>1 DEF Ends
<1> QED
  BY <1>1, <1>2, EndsStep

\* start().
LEMMA PopenStep ==
    ASSUME SInv, Popen
    PROVE  SInv'
<1>1. StackInv /\ Running /\ Top.do = "popen"
  BY Doings DEF Popen
<1>2. /\ started' = TRUE /\ srv' = "idle"
      /\ to_runner' = <<[for |-> "banner", ok |-> TRUE]>>
      /\ UNCHANGED <<scratch, stop_sent, tried, aux, alarm, stray, signalled, end,
                     pending, to_server, listens, serving, handlers, ec, tb, reverts>>
  BY DEF Popen
<1>3. Moves /\ Top' = Below
  <2>1. Keeps
    BY <1>2 DEF Keeps
  <2> QED
    BY <2>1, <1>1, NoneMoves DEF Popen
<1>4. /\ StackInv' /\ Running' /\ Under /\ Top'.do = "expect" /\ Top'.cmd = "banner"
  BY <1>1, <1>3 DEF Moves, Link, Expect
<1>5. /\ srv = "none" /\ ~signalled /\ ~stop_sent /\ ~scratch /\ tb = "none" /\ handlers
      /\ to_server = <<>> /\ serving = "none"
  BY <1>1 DEF SInv, Points, Booting, ServerInv
<1>6. ~alarm
  BY <1>1, <1>5, LateAlarm DEF Busy
<1>7. \A c : ~InQueue(c)'
  <2>1. to_server' = <<>>
    BY <1>2, <1>5
  <2> QED
    BY <2>1 DEF InQueue
<1>8. /\ to_runner' \in Seq([for : Commands \cup {"banner"}, ok : BOOLEAN])
      /\ to_runner' # <<>> /\ Head(to_runner') = [for |-> "banner", ok |-> TRUE] /\ Tail(to_runner') = <<>>
      /\ \A k \in 1 .. Len(to_runner') : to_runner'[k] = [for |-> "banner", ok |-> TRUE]
  <2> DEFINE S == [for : Commands \cup {"banner"}, ok : BOOLEAN]
             m == [for |-> "banner", ok |-> TRUE]
  <2>1. m \in S
    OBVIOUS
  <2> HIDE DEF m, S
  <2>2. /\ <<m>> \in Seq(S) /\ Len(<<m>>) = 1 /\ <<m>>[1] = m
    BY <2>1
  <2>3. <<>> \in Seq(S) /\ Append(<<>>, m) = <<m>>
    BY <2>1, EmptySeq, Appended
  <2>4. <<m>> # <<>> /\ Head(<<m>>) = m /\ Tail(<<m>>) = <<>>
    BY <2>1, <2>3, Appended
  <2>5. \A k \in 1 .. Len(<<m>>) : <<m>>[k] = m
    BY <2>2
  <2>6. to_runner' = <<m>>
    BY <1>2 DEF m
  <2>7. to_runner' \in Seq(S) /\ to_runner' # <<>> /\ Head(to_runner') = m /\ Tail(to_runner') = <<>>
        /\ \A k \in 1 .. Len(to_runner') : to_runner'[k] = m
    BY <2>2, <2>4, <2>5, <2>6
  <2> QED
    BY <2>7 DEF m, S
<1>9. Scalars'
  BY <1>2, <1>8 DEF SInv, Scalars
<1>10. ServerInv'
  <2>1. \A k \in 1 .. Len(to_server') : FALSE
    BY <1>2, <1>5, EmptySeq
  <2> QED
    BY <2>1, <1>2, <1>5, <1>7, <1>8 DEF ServerInv, Alive, NeedsTestbed
<1>11. Unflushed' /\ AlarmInv' /\ EndInv'
  <2>1. pending = 0
    BY <1>1, <1>5 DEF SInv, Unflushed, Astray, Scalars
  <2> QED
    BY <2>1, <1>2, <1>4, <1>6 DEF Unflushed, AlarmInv, EndInv
<1>12. Flight' /\ Waits'
  BY <1>2, <1>4, <1>5, <1>8 DEF Flight, Waits, OneInFlight
<1>13. Points'
  BY <1>2, <1>4, <1>5 DEF Points, Sending, Awaiting, Usable, OnWork
<1>14. Telling'
  BY <1>2, <1>4, <1>5, <1>7 DEF Telling, Exists, Running
<1> QED
  BY <1>4, <1>9, <1>10, <1>11, <1>12, <1>13, <1>14 DEF SInv

\* The line goes to the server.
LEMMA FlushStep ==
    ASSUME SInv, Flush
    PROVE  SInv'
<1> DEFINE c == Top.cmd
           x == IF pending > 1 THEN "bogus" ELSE c
<1>1. StackInv /\ Running /\ Top.do = "flush"
  BY Doings DEF Flush
<1>2. /\ srv # "gone" /\ to_server' = Append(to_server, x) /\ pending' = 0
      /\ aux' = IF c \in {"close", "revert", "quit"} THEN "stale" ELSE aux
      /\ UNCHANGED <<scratch, calls, alarm, stray, end, to_runner, listens, server>>
  BY DEF Flush, Top
<1>3. Moves /\ Top' = Below
  <2>1. Keeps
    BY <1>2 DEF Keeps, calls
  <2> QED
    BY <2>1, <1>1, NoneMoves DEF Flush
<1>4. /\ StackInv' /\ Running' /\ Under /\ (NoEndtry => NoEndtry') /\ c \in Commands
      /\ IF c = "quit" THEN Top'.do = "wait" ELSE Top'.do = "expect" /\ Top'.cmd = c
      /\ signalled => c \in {"close", "quit", "auxverb_debug_fail"}
  <2>1. signalled => InHandler(Top)
    BY <1>1, HandlerOrNone
  <2> QED
    BY <2>1, <1>1, <1>3 DEF Moves, Link, Expect, InHandler
<1>5. pending > 1 => signalled
  BY <1>1 DEF SInv, Unflushed
<1>6. x \in Commands \cup {"bogus"} /\ to_server \in Seq(Commands \cup {"bogus"})
  BY <1>4 DEF SInv, Scalars
<1> HIDE DEF x, c
<1>7. /\ to_server' \in Seq(Commands \cup {"bogus"}) /\ to_server' # <<>> /\ Len(to_server') = Len(to_server) + 1
      /\ to_server'[Len(to_server) + 1] = x /\ \A k \in 1 .. Len(to_server) : to_server'[k] = to_server[k]
      /\ to_server = <<>> => to_server' = <<x>>
  <2> DEFINE S == Commands \cup {"bogus"}
  <2>1. x \in S /\ to_server \in Seq(S)
    BY <1>6
  <2>3. to_server' = Append(to_server, x)
    BY <1>2
  <2> HIDE DEF S
  <2>4. to_server' \in Seq(S) /\ to_server' # <<>>
    BY ONLY <2>1, <2>3, Appended
  <2>5. Len(to_server') = Len(to_server) + 1
    BY ONLY <2>1, <2>3, Appended
  <2>6. to_server'[Len(to_server) + 1] = x
    BY ONLY <2>1, <2>3, Appended
  <2>7. \A k \in 1 .. Len(to_server) : to_server'[k] = to_server[k]
    BY ONLY <2>1, <2>3, Appended
  <2>8. to_server = <<>> => to_server' = <<x>>
    BY ONLY <2>1, <2>3, Appended
  <2> QED
    BY <2>4, <2>5, <2>6, <2>7, <2>8 DEF S
<1>8. Len(to_server) \in Nat /\ (to_server = <<>> => Len(to_server) = 0)
  BY <1>6, LenProperties, EmptySeq
<1>9. \A k \in 1 .. Len(to_server') : k \in 1 .. Len(to_server) \/ k = Len(to_server) + 1
  BY <1>7, <1>8
<1>10. \A k \in 1 .. Len(to_server) : k \in 1 .. Len(to_server')
  BY <1>7, <1>8
<1>11. Len(to_server) + 1 \in 1 .. Len(to_server')
  BY <1>7, <1>8
<1>12. ASSUME NEW d PROVE InQueue(d)' <=> InQueue(d) \/ d = x
  BY <1>7, <1>9, <1>10, <1>11 DEF InQueue
<1>13. /\ ~signalled => x = c /\ Quiet /\ srv = "idle" /\ to_server = <<>> /\ to_runner = <<>>
       /\ x = c \/ (x = "bogus" /\ signalled)
  <2>1. ~signalled => Quiet
    BY <1>1 DEF SInv, Flight, Astray
  <2>2. ~signalled => srv # "none"
    BY <1>1 DEF SInv, Points
  <2>3. x = c \/ (x = "bogus" /\ signalled)
    BY <1>5 DEF x
  <2> QED
    BY <2>1, <2>2, <2>3, <1>2, <1>5 DEF Quiet, x
<1>14. c = "open" => /\ ~signalled /\ ~stop_sent /\ ~scratch /\ tb = "none" /\ handlers
  BY <1>1, <1>4 DEF SInv, Points, Booting, Sending, c
<1>15. c \in NeedsTestbed => Ready
  BY <1>1 DEF SInv, Points, Usable, Sending, Dialogue, NeedsTestbed, c
<1>16. srv = "busy" <=> serving # "none"
  BY DEF SInv, ServerInv
<1>17. alarm => stop_sent
  BY <1>1, LateAlarm DEF Busy
<1>18. Scalars'
  BY <1>2, <1>7 DEF SInv, Scalars, calls, server
<1>19. ServerInv'
  <2>1. Alive' <=> Alive
    BY <1>2 DEF Alive, server
  <2>2. Alive => /\ serving = "open" => tb = "none" /\ ~InQueue("open")'
                 /\ serving \in NeedsTestbed => tb = "there"
                 /\ ~handlers => tb # "there" /\ serving # "open" /\ ~InQueue("open")'
    BY <1>12, <1>13, <1>14, <1>16 DEF SInv, ServerInv
  <2>3. ASSUME Alive, NEW k \in 1 .. Len(to_server')
        PROVE  /\ to_server'[k] = "open" => k = 1 /\ tb = "none" /\ serving = "none"
               /\ to_server'[k] \in NeedsTestbed =>
                     /\ tb = "there" /\ serving \notin {"open", "close"}
                     /\ \A j \in 1 .. k - 1 : to_server'[j] \notin {"open", "close"}
    <3>1. CASE k \in 1 .. Len(to_server)
      <4>1. \A j \in 1 .. k - 1 : to_server'[j] = to_server[j]
        BY <3>1, <1>7, <1>8
      <4>2. to_server'[k] = to_server[k]
        BY <3>1, <1>7
      <4> QED
        BY <4>1, <4>2, <3>1, <2>3 DEF SInv, ServerInv
    <3>2. CASE k = Len(to_server) + 1
      <4>1. to_server'[k] = x
        BY <3>2, <1>7
      <4>2. x = "open" => k = 1 /\ tb = "none" /\ serving = "none"
        <5>1. x = "open" => ~signalled /\ tb = "none" /\ srv = "idle" /\ Len(to_server) = 0
          BY <1>8, <1>13, <1>14
        <5> QED
          BY <5>1, <3>2, <1>16
      <4>3. x \in NeedsTestbed => Ready
        BY <1>13, <1>15 DEF NeedsTestbed
      <4>4. Ready => /\ tb = "there" /\ serving \notin {"open", "close"}
                     /\ \A j \in 1 .. Len(to_server) : to_server'[j] \notin {"open", "close"}
        BY <2>3, <1>7 DEF Ready, InQueue
      <4>5. k - 1 = Len(to_server)
        BY <3>2, <1>8
      <4> QED
        BY <4>1, <4>2, <4>3, <4>4, <4>5
    <3> QED
      BY <3>1, <3>2, <1>9
  <2>4. /\ srv = "none" => tb = "none" /\ handlers /\ signalled
        /\ srv = "gone" => tb # "there"
        /\ \A k \in 1 .. Len(to_runner) : to_runner[k].ok \/ to_runner[k].for = "copy"
    BY <1>13 DEF SInv, ServerInv
  <2> QED
    BY <2>1, <2>2, <2>3, <2>4, <1>2, <1>16 DEF ServerInv, server, calls
<1>20. Unflushed' /\ AlarmInv' /\ EndInv'
  BY <1>1, <1>2, <1>4, <1>17 DEF SInv, Unflushed, AlarmInv, EndInv, calls
<1>21. Flight'
  BY <1>2, <1>4, <1>7, <1>13 DEF Flight, OneInFlight, calls, server
<1>22. Waits'
  BY <1>4, <1>7, <1>12, <1>13 DEF Waits, LastWords
<1>23. scratch => Ready'
  <2>1. scratch => Ready /\ x \notin {"open", "close"}
    BY <1>1, <1>13, <1>14 DEF SInv, Points, Stopping, Dialogue, c
  <2> QED
    BY <2>1, <1>2, <1>12 DEF Ready, Alive, server
<1>24. Points'
  <2> DEFINE y == Top'
  <2>1. /\ y.do \in {"wait", "expect"}
        /\ y.do = "wait" <=> c = "quit"
        /\ y.do = "expect" => y.cmd = c /\ c # "quit" /\ c # "banner"
    BY <1>4 DEF Commands
  <2>2. /\ c = "close" \/ c = "quit" => ~scratch
        /\ c \in {"print-execute-command", "capabilities", "copy", "reboot", "revert"} => scratch /\ ~stop_sent
        /\ c \in {"capabilities", "copy", "reboot"} => aux = "fresh"
    BY <1>1 DEF SInv, Points, Usable, Stopping, Dialogue, c
  <2>3. (started => srv # "none") /\ (~started => srv \in {"none", "gone"}) /\ (srv = "none" => signalled)
    BY <1>1 DEF SInv, Points
  <2>4. ~signalled /\ stop_sent => srv = "gone" \/ c \in {"close", "quit"} \/ Astray
    BY <1>1 DEF SInv, Points, Stopping, c
  <2>5. /\ c \in {"capabilities", "copy", "reboot"} => aux' = "fresh"
        /\ UNCHANGED <<scratch, started, stop_sent, signalled, srv, tb, handlers, to_runner>>
    BY <2>2, <1>2 DEF calls, server
  <2>6. ~Astray
    BY <1>1 DEF Astray
  <2> HIDE DEF y
  <2>7. /\ ~(y.do \in {"popen", "opened", "auxverb", "work", "close", "hangup", "exit", "exec", "running", "write", "flush", "read"})
        /\ y.do \in Dialogue => y.do = "expect"
    BY <2>1 DEF Dialogue
  <2>8. ~Booting(Top)' /\ ~Sending(Top, "close")' /\ (Awaiting(Top, "open")' => c = "open") /\ ~OnWork'
    BY <2>1 DEF Booting, Sending, Awaiting, OnWork, y
  <2>9. Usable(Top)' => c \in {"print-execute-command", "capabilities", "copy", "reboot", "revert"}
    BY <2>1, <2>7 DEF Usable, y
  <2>10. Stopping(Top)' <=> c \in {"close", "quit"}
    BY <2>1, <2>7 DEF Stopping, Dialogue, y
  <2>11. c = "open" /\ ~signalled => to_runner' = <<>>
    BY <2>5, <1>13 DEF Quiet
  <2>12. (Top.do = "popen" <=> srv = "none" /\ ~signalled)' /\ (Top.do = "exit")' = FALSE /\ (Top.do = "opened")' = FALSE
    BY <2>3, <2>5, <2>7 DEF y
  <2>13. ~(OnWork \/ Top.do = "work")' /\ ((Top.do \in Dialogue)' => Top'.cmd = c)
    BY <2>1, <2>7, <2>8 DEF y
  <2> QED
    BY <2>2, <2>3, <2>4, <2>5, <2>6, <2>8, <2>9, <2>10, <2>11, <2>12, <2>13, <1>14, <1>23 DEF Points
<1>25. Telling'
  <2>1. (Exists' => Exists \/ c = "open") /\ (Told => Told')
    BY <1>2, <1>12, <1>13 DEF Exists, Told, Alive, server
  <2>2. c \in {"close", "quit"} => Told'
    BY <1>12, <1>13 DEF Told
  <2> QED
    BY <2>1, <2>2, <1>1, <1>2, <1>4 DEF SInv, Telling, calls, Under, Duty, Sending, Awaiting,
       Running, c
<1> QED
  BY <1>4, <1>18, <1>19, <1>20, <1>21, <1>22, <1>24, <1>25 DEF SInv

\* A reply comes.
LEMMA ReadStep ==
    ASSUME SInv, Read
    PROVE  SInv'
<1> DEFINE r == Head(to_runner)
           c == Top.cmd
           fails == ~r.ok \/ (c # "capabilities" /\ r.for # "banner" /\ Results(r.for) # Results(c))
<1>1. StackInv /\ Running /\ Top.do = "read"
  BY Doings DEF Read
<1>2. /\ to_runner # <<>> /\ to_runner' = Tail(to_runner)
      /\ UNCHANGED <<scratch, calls, aux, alarm, stray, end, pending, to_server, listens, server>>
  BY DEF Read
<1>3. /\ Moves
      /\ \/ fails /\ Top'.do \in {"debug_fail", "bomb"}
         \/ ~fails /\ Top' = Below
  <2>1. Keeps
    BY <1>2 DEF Keeps, calls
  <2>2. CASE ~r.ok
    BY <2>1, <2>2, <1>1, GivingUp DEF Read, F
  <2>3. CASE r.ok /\ fails
    BY <2>1, <2>3, <1>1, Bombing DEF Read, F, Top
  <2>4. CASE ~fails
    BY <2>1, <2>4, <1>1, NoneMoves DEF Read, Top
  <2> QED
    BY <2>2, <2>3, <2>4
<1>4. StackInv' /\ Running' /\ Under /\ (NoEndtry => NoEndtry') /\ Link(Top, Below, Len(stack) - 1)
  BY <1>3 DEF Moves
<1>5. /\ to_runner' \in Seq([for : Commands \cup {"banner"}, ok : BOOLEAN])
      /\ Len(to_runner) = Len(to_runner') + 1 /\ Len(to_runner') \in Nat /\ r = to_runner[1]
      /\ \A k \in 1 .. Len(to_runner') : to_runner'[k] = to_runner[k+1]
  BY <1>2, Taken DEF SInv, Scalars
<1>6. /\ ~signalled => /\ r.for = c /\ to_runner' = <<>> /\ Quiet'
                       /\ c # "copy" => r.ok
  <2>1. ~signalled => OneInFlight(c)
    BY <1>1 DEF SInv, Flight
  <2>2. r.ok \/ r.for = "copy"
    <3>1. 1 \in 1 .. Len(to_runner)
      BY <1>5
    <3> QED
      BY <3>1, <1>5 DEF SInv, ServerInv
  <2> QED
    BY <2>1, <2>2, <1>2 DEF OneInFlight, Quiet, server
<1>7. ~signalled /\ c # "copy" => ~fails
  BY <1>6
<1> HIDE DEF fails, c
<1>8. /\ Ready' <=> Ready
      /\ Exists' <=> Exists
      /\ Told' <=> Told
      /\ LastWords' <=> LastWords
  BY <1>2 DEF Ready, Exists, Told, LastWords, InQueue, Alive, server
<1>9. alarm => stop_sent
  BY <1>1, LateAlarm DEF Busy
<1>10. Scalars'
  BY <1>2, <1>5 DEF SInv, Scalars, calls, server
<1>11. ServerInv'
  <2> QED
    BY <1>2 DEF SInv, ServerInv, InQueue, Alive, server, calls
<1>12. /\ signalled => c \in {"close", "auxverb_debug_fail"}
       /\ c \in Commands \cup {"banner"} /\ c # "quit"
  <2>1. Link(Top, Below, Len(stack) - 1)
    BY <1>4
  <2>2. c # "quit"
    BY <2>1, <1>1 DEF Link, AfterReply, c
  <2>3. signalled => c \in {"close", "quit", "auxverb_debug_fail"}
    BY <1>1, HandlerOrNone DEF InHandler, Dialogue, c
  <2>4. r.for \in Commands \cup {"banner"}
    <3>1. to_runner \in Seq([for : Commands \cup {"banner"}, ok : BOOLEAN]) /\ to_runner # <<>>
      BY <1>2 DEF SInv, Scalars
    <3>2. r \in [for : Commands \cup {"banner"}, ok : BOOLEAN]
      BY ONLY <3>1, HeadTailProperties
    <3> QED
      BY <3>2
  <2>5. ~signalled => c \in Commands \cup {"banner"}
    BY <2>4, <1>6
  <2>6. signalled => c \in Commands \cup {"banner"}
    BY <2>3 DEF Commands
  <2> QED
    BY <2>2, <2>3, <2>5, <2>6
<1>13. \/ Top'.do \in {"debug_fail", "bomb"} /\ (signalled \/ c = "copy")
       \/ /\ c = "banner" => Top'.do = "write" /\ Top'.cmd = "open"
          /\ c \in {"open", "revert"} => Top'.do = "opened"
          /\ c = "print-execute-command" => Top'.do = "auxverb"
          /\ c \in {"capabilities", "copy", "reboot"} => Top'.do = "work"
          /\ c = "close" => Top'.do = "hangup"
          /\ c = "auxverb_debug_fail" => Top'.do = "debugged"
  <2>1. AfterReply(c, Below)
    BY <1>1, <1>4 DEF Link, c
  <2> QED
    BY <2>1, <1>3, <1>7 DEF AfterReply
<1> DEFINE y == Top'.do
<1> HIDE DEF y
<1>14. /\ y \in {"debug_fail", "bomb", "write", "opened", "auxverb", "work", "hangup", "debugged"}
       /\ y \in {"debug_fail", "bomb"} => signalled \/ c = "copy"
       /\ y = "write" => c = "banner" /\ Top'.cmd = "open"
       /\ y = "opened" => c \in {"open", "revert"}
       /\ y = "auxverb" => c = "print-execute-command"
       /\ y = "work" => c \in {"capabilities", "copy", "reboot"}
       /\ y = "hangup" => c = "close"
       /\ y # "hangup" => c # "close" \/ signalled
       /\ y # "opened" => c # "open" \/ signalled
  BY <1>12, <1>13 DEF Commands, y
<1>15. Top.do = "read" /\ Top.cmd = c /\ Top'.do = y
  BY <1>1 DEF c, y
<1>16. /\ Awaiting(Top, "banner") <=> c = "banner"
       /\ Awaiting(Top, "open") <=> c = "open"
       /\ Stopping(Top) <=> c = "close"
       /\ Usable(Top) <=> c \in {"print-execute-command", "capabilities", "copy", "reboot", "revert"}
       /\ Top.do \in Dialogue
       /\ ~Astray /\ ~Duty
       /\ \A b : ~Sending(Top, b)
  BY <1>12, <1>15 DEF Awaiting, Stopping, Usable, Dialogue, Astray, Duty, Sending
<1>17. /\ c = "banner" => ~stop_sent /\ ~scratch /\ tb = "none" /\ handlers
       /\ c = "open" => ~stop_sent /\ (~signalled => Ready)
       /\ c \in {"print-execute-command", "capabilities", "copy", "reboot", "revert"} => scratch /\ ~stop_sent
       /\ c = "close" => ~scratch
       /\ c \in {"capabilities", "copy", "reboot"} => aux = "fresh"
       /\ ~signalled /\ stop_sent => srv = "gone" \/ c = "close"
       /\ scratch => Ready
       /\ started => srv # "none"
       /\ ~started => srv \in {"none", "gone"}
       /\ srv = "none" => signalled
  BY <1>1, <1>2, <1>15, <1>16 DEF SInv, Points, Booting
<1>18. Unflushed'
  <2>1. /\ pending > 1 => FALSE
        /\ pending > 0 => signalled /\ ~alarm
    BY <1>1, <1>16 DEF SInv, Unflushed
  <2>2. y # "flush" /\ UNCHANGED <<pending, signalled, alarm>>
    BY <1>2, <1>14 DEF calls
  <2> QED
    BY <2>1, <2>2, <1>15 DEF Unflushed
<1>19. AlarmInv'
  <2>1. alarm => y # "work"
    BY <1>9, <1>14, <1>17
  <2>2. stop_sent /\ ~signalled /\ alarm => NoEndtry
    BY <1>1 DEF SInv, AlarmInv
  <2> QED
    BY <2>1, <2>2, <1>2, <1>4, <1>9, <1>15 DEF AlarmInv, calls
<1>20. EndInv'
  BY <1>4 DEF EndInv
<1>21. Flight' /\ Waits'
  BY <1>2, <1>6, <1>14, <1>15 DEF Flight, Waits, calls
<1>22. Points'
  <2>1. /\ Booting(Top)' => c = "banner"
        /\ ~Awaiting(Top, "open")' /\ ~Sending(Top, "close")' /\ ~OnWork'
        /\ Usable(Top)' => y \in {"auxverb", "work"}
        /\ Stopping(Top)' <=> y = "hangup"
        /\ (Top.do \in Dialogue)' => y = "write" /\ Top'.cmd = "open"
    BY <1>14, <1>15 DEF Booting, Awaiting, Sending, OnWork, Usable, Stopping, Dialogue
  <2>2. /\ y \notin {"popen", "exit", "close"}
        /\ y = "opened" => ~signalled
    BY <1>12, <1>14
  <2>3. ~signalled /\ stop_sent => srv = "gone" \/ y = "hangup"
    BY <1>14, <1>17
  <2> QED
    BY <2>1, <2>2, <2>3, <1>2, <1>4, <1>8, <1>14, <1>15, <1>17 DEF Points, calls, server
<1>23. Telling'
  <2>1. ~stray /\ ~signalled /\ Exists => scratch \/ Told \/ y = "opened"
    BY <1>1, <1>14, <1>15, <1>16 DEF SInv, Telling
  <2>2. ~stray /\ signalled /\ Exists /\ ~Untold(stack) => Told
    BY <1>1, <1>16 DEF SInv, Telling
  <2> QED
    BY <2>1, <2>2, <1>2, <1>4, <1>8, <1>15 DEF Telling, calls, Under, Running
<1> QED
  BY <1>4, <1>10, <1>11, <1>18, <1>19, <1>20, <1>21, <1>22, <1>23 DEF SInv

-----------------------------------------------------------------------------
(* The steps of the server.                                                *)

\* A step of the server leaves what the runner knows alone.
LEMMA SameRunner ==
    ASSUME SInv, UNCHANGED <<runner, pending>>
    PROVE  /\ StackInv' /\ Unflushed' /\ AlarmInv'
           /\ Running' <=> Running
           /\ Top' = Top
           /\ Duty' <=> Duty
           /\ OnWork' <=> OnWork
           /\ Astray' <=> Astray
           /\ Untold(stack)' <=> Untold(stack)
<1>1. UNCHANGED <<stack, scratch, started, stop_sent, tried, aux, alarm, stray, signalled, end, pending>>
  BY DEF runner
<1>2. Top' = Top /\ Below' = Below /\ (Running' <=> Running)
  BY <1>1 DEF Top, Below, Running
<1>3. /\ Reads(stack)' <=> Reads(stack)
      /\ Untold(stack)' <=> Untold(stack)
  BY <1>1
<1>4. NoEndtry' <=> NoEndtry
  BY <1>1 DEF NoEndtry
<1>5. StackInv'
  BY <1>1, <1>2 DEF SInv, StackInv, Placed, Counts, Handling
<1>6. /\ Duty' <=> Duty
      /\ OnWork' <=> OnWork
      /\ Astray' <=> Astray
  BY <1>1, <1>2, <1>3, <1>4 DEF Duty, OnWork, Astray
<1>7. AlarmInv'
  BY <1>1, <1>2, <1>4 DEF SInv, AlarmInv
<1>8. Unflushed'
  BY <1>1, <1>2, <1>6 DEF SInv, Unflushed
<1> QED
  BY <1>2, <1>3, <1>5, <1>6, <1>7, <1>8

\* Until the server has taken open, it has nothing to do and no signal has come.
LEMMA BootingIs ==
    ASSUME SInv, Running, Booting(Top)
    PROVE  srv # "busy" /\ ~signalled
<1>1. StackInv /\ Flight /\ ServerInv /\ Scalars /\ Points
  BY DEF SInv
<1>2. ~signalled
  BY <1>1, HandlerOrNone DEF Booting, Sending, Awaiting, InHandler, Dialogue
<1>3. serving # "banner"
  BY <1>1 DEF Scalars, Commands
<1>4. CASE Top.do = "popen"
  BY <1>1, <1>4 DEF Points
<1>5. CASE Awaiting(Top, "banner")
  <2>1. OneInFlight("banner")
    BY <1>1, <1>2, <1>5 DEF Flight, Awaiting
  <2> QED
    BY <2>1, <1>2, <1>3 DEF OneInFlight, Serves
<1>6. CASE Sending(Top, "open")
  <2>1. Quiet
    BY <1>1, <1>2, <1>6 DEF Flight, Sending, Astray
  <2> QED
    BY <2>1, <1>2 DEF Quiet
<1> QED
  BY <1>4, <1>5, <1>6 DEF Booting

\* The server takes a line.
LEMMA TakeStep ==
    ASSUME SInv, Take
    PROVE  SInv'
<1> DEFINE h == Head(to_server)
<1>1. /\ srv = "idle" /\ to_server # <<>> /\ srv' = "busy" /\ serving' = h /\ to_server' = Tail(to_server)
      /\ UNCHANGED <<runner, pending, to_runner, listens, handlers, ec, tb, reverts>>
  BY DEF Take
<1>2. /\ StackInv' /\ Unflushed' /\ AlarmInv'
      /\ Running' <=> Running
      /\ Top' = Top
      /\ Duty' <=> Duty
      /\ OnWork' <=> OnWork
      /\ Astray' <=> Astray
      /\ Untold(stack)' <=> Untold(stack)
  BY <1>1, SameRunner
<1>3. UNCHANGED <<scratch, started, stop_sent, tried, aux, alarm, stray, signalled, end, to_runner, listens, handlers, ec, tb, reverts, pending>>
  BY <1>1 DEF runner
<1>4. /\ to_server' \in Seq(Commands \cup {"bogus"}) /\ h \in Commands \cup {"bogus"}
      /\ Len(to_server) = Len(to_server') + 1 /\ Len(to_server') \in Nat /\ h = to_server[1]
      /\ \A k \in 1 .. Len(to_server') : to_server'[k] = to_server[k+1]
      /\ \A x : to_server = <<x>> => h = x /\ to_server' = <<>>
  <2> DEFINE S == Commands \cup {"bogus"}
  <2>1. to_server \in Seq(S) /\ to_server # <<>>
    BY <1>1 DEF SInv, Scalars
  <2>2. to_server' = Tail(to_server)
    BY <1>1
  <2> HIDE DEF S
  <2>3. to_server' \in Seq(S) /\ h \in S
    BY ONLY <2>1, <2>2, Taken
  <2>4. Len(to_server) = Len(to_server') + 1 /\ Len(to_server') \in Nat /\ h = to_server[1]
    BY ONLY <2>1, <2>2, Taken
  <2>5. \A k \in 1 .. Len(to_server') : to_server'[k] = to_server[k+1]
    BY ONLY <2>1, <2>2, Taken
  <2>6. \A x : to_server = <<x>> => h = x /\ to_server' = <<>>
    BY ONLY <2>1, <2>2, Taken
  <2> QED
    BY <2>3, <2>4, <2>5, <2>6 DEF S
<1> HIDE DEF h
<1>5. /\ h # "none"
      /\ srv = "busy" <=> serving # "none"
  BY <1>4 DEF SInv, ServerInv, Commands
<1>6. serving = "none"
  BY <1>1, <1>5
<1>7. /\ \A k \in 1 .. Len(to_server') : k + 1 \in 1 .. Len(to_server) /\ k + 1 # 1
      /\ 1 \in 1 .. Len(to_server)
      /\ \A k \in 1 .. Len(to_server) : k = 1 \/ (k - 1 \in 1 .. Len(to_server') /\ (k - 1) + 1 = k)
  BY <1>4
<1>8. ASSUME NEW d PROVE InQueue(d) <=> d = h \/ InQueue(d)'
  <2>1. ASSUME NEW k \in 1 .. Len(to_server), to_server[k] = d PROVE d = h \/ InQueue(d)'
    <3>1. k = 1 => d = h
      BY <2>1, <1>4
    <3>2. ASSUME k - 1 \in 1 .. Len(to_server'), (k - 1) + 1 = k PROVE InQueue(d)'
      <4>1. to_server'[k - 1] = to_server[(k - 1) + 1]
        BY <3>2, <1>4
      <4>2. to_server'[k - 1] = d
        BY <4>1, <3>2, <2>1
      <4> QED
        BY <4>2, <3>2 DEF InQueue
    <3> QED
      BY <3>1, <3>2, <1>7
  <2>2. h = d => InQueue(d)
    BY <1>4, <1>7 DEF InQueue
  <2>3. ASSUME NEW k \in 1 .. Len(to_server'), to_server'[k] = d PROVE InQueue(d)
    BY <2>3, <1>4, <1>7 DEF InQueue
  <2> QED
    BY <2>1, <2>2, <2>3 DEF InQueue
<1>9. Alive /\ Alive'
  BY <1>1 DEF Alive
<1>10. /\ Ready' <=> Ready
       /\ Exists' <=> Exists
       /\ Told' <=> Told
       /\ LastWords' <=> LastWords
  BY <1>1, <1>3, <1>6, <1>8, <1>9 DEF Ready, Exists, Told, LastWords
<1>11. Scalars'
  BY <1>1, <1>3, <1>4 DEF SInv, Scalars
<1>12. ServerInv'
  <2>1. ASSUME NEW k \in 1 .. Len(to_server)
        PROVE  /\ to_server[k] = "open" => k = 1 /\ tb = "none"
               /\ to_server[k] \in NeedsTestbed =>
                     tb = "there" /\ \A j \in 1 .. k - 1 : to_server[j] \notin {"open", "close"}
    BY <1>9 DEF SInv, ServerInv
  <2>2. \A k \in 1 .. Len(to_server') : to_server'[k] # "open"
    BY <2>1, <1>4, <1>7
  <2>3. ~InQueue("open")'
    BY <2>2 DEF InQueue
  <2>4. /\ serving' = "open" => tb' = "none"
        /\ serving' \in NeedsTestbed => tb' = "there"
    <3>1. 1 \in 1 .. Len(to_server) /\ to_server[1] = h
      BY <1>4, <1>7
    <3>2. /\ to_server[1] = "open" => tb = "none"
          /\ to_server[1] \in NeedsTestbed => tb = "there"
      BY ONLY <3>1, <2>1
    <3> QED
      BY ONLY <3>1, <3>2, <1>1
  <2>5. ASSUME NEW k \in 1 .. Len(to_server'), to_server'[k] \in NeedsTestbed
        PROVE  /\ tb' = "there" /\ serving' \notin {"open", "close"}
               /\ \A j \in 1 .. k - 1 : to_server'[j] \notin {"open", "close"}
    <3>1. to_server[k+1] \in NeedsTestbed /\ k + 1 \in 1 .. Len(to_server)
      BY <2>5, <1>4, <1>7
    <3>2. tb = "there" /\ \A j \in 1 .. (k + 1) - 1 : to_server[j] \notin {"open", "close"}
      BY <3>1, <2>1
    <3>3. k \in Nat /\ 1 \in 1 .. (k + 1) - 1
      OBVIOUS
    <3>4. ASSUME NEW j \in 1 .. k - 1 PROVE to_server'[j] \notin {"open", "close"}
      <4>1. j + 1 \in 1 .. (k + 1) - 1 /\ j \in 1 .. Len(to_server')
        BY <3>3, <1>4
      <4> QED
        BY <4>1, <3>2, <1>4
    <3> QED
      BY <3>2, <3>3, <3>4, <1>1, <1>3, <1>4
  <2>6. ~handlers' => tb' # "there" /\ serving' # "open"
    BY <1>1, <1>3, <1>8, <1>9 DEF SInv, ServerInv
  <2>7. \A k \in 1 .. Len(to_runner') : to_runner'[k].ok \/ to_runner'[k].for = "copy"
    BY <1>3 DEF SInv, ServerInv
  <2> QED
    BY <2>2, <2>3, <2>4, <2>5, <2>6, <2>7, <1>1, <1>5 DEF ServerInv
<1>13. Flight'
  <2>1. ASSUME NEW c, OneInFlight(c) PROVE OneInFlight(c)' /\ to_runner = <<>>
    BY <2>1, <1>1, <1>3, <1>4 DEF OneInFlight, Serves
  <2>2. ~Quiet
    BY <1>1 DEF Quiet
  <2> QED
    BY <2>1, <2>2, <1>2, <1>3 DEF SInv, Flight
<1>14. Waits'
  BY <1>1, <1>2, <1>10 DEF SInv, Waits
<1>15. Points'
  BY <1>1, <1>2, <1>3, <1>10 DEF SInv, Points
<1>16. Telling' /\ EndInv'
  BY <1>2, <1>3, <1>10, <1>1 DEF SInv, Telling, EndInv, runner
<1> QED
  BY <1>2, <1>11, <1>12, <1>13, <1>14, <1>15, <1>16 DEF SInv

\* The server exits.
LEMMA DiesStep ==
    ASSUME SInv, Alive, NEW status \in BOOLEAN, NEW how \in {"none", "lost"}, Dies(status, how),
           tb = "none" /\ srv = "idle" => how = "none"
    PROVE  SInv'
<1>1. /\ srv' = "gone" /\ ec' = status /\ tb' = how /\ serving' = "none"
      /\ UNCHANGED <<runner, pipes, handlers, reverts>>
  BY DEF Dies
<1>2. /\ StackInv' /\ Unflushed' /\ AlarmInv'
      /\ Running' <=> Running
      /\ Top' = Top
      /\ Duty' <=> Duty
      /\ OnWork' <=> OnWork
      /\ Astray' <=> Astray
      /\ Untold(stack)' <=> Untold(stack)
  BY <1>1, SameRunner DEF pipes
<1>3. UNCHANGED <<stack, scratch, started, stop_sent, tried, aux, alarm, stray, signalled, end, to_server, to_runner, listens, handlers, reverts, pending>>
  BY <1>1 DEF runner, pipes
<1>4. Ready' /\ ~Exists'
  BY <1>1 DEF Ready, Exists, Alive
<1>5. Scalars'
  BY <1>1, <1>3 DEF SInv, Scalars
<1>6. ServerInv'
  <2>1. \A k \in 1 .. Len(to_runner) : to_runner[k].ok \/ to_runner[k].for = "copy"
    BY DEF SInv, ServerInv
  <2> QED
    BY <2>1, <1>1, <1>3 DEF ServerInv, Alive
<1>7. Flight'
  <2>1. ASSUME NEW c, OneInFlight(c) PROVE OneInFlight(c)'
    BY <2>1, <1>1, <1>3 DEF OneInFlight, Serves
  <2>2. Quiet => Quiet'
    BY <1>1, <1>3 DEF Quiet
  <2> QED
    BY <2>1, <2>2, <1>2, <1>3 DEF SInv, Flight
<1>8. Waits'
  BY <1>1 DEF Waits
<1>9. Points'
  <2>1. Running /\ Booting(Top) => how = "none"
    BY BootingIs DEF SInv, Points, Alive
  <2>2. Running => Top.do # "popen"
    BY DEF SInv, Points, Alive
  <2> QED
    BY <2>1, <2>2, <1>1, <1>2, <1>3, <1>4 DEF SInv, Points
<1>10. Telling' /\ EndInv'
  BY <1>2, <1>3, <1>4 DEF SInv, Telling, EndInv
<1> QED
  BY <1>2, <1>5, <1>6, <1>7, <1>8, <1>9, <1>10 DEF SInv

\* quit.
LEMMA QuitStep ==
    ASSUME SInv, Quit
    PROVE  SInv'
<1>1. PICK how \in {"none", "lost"} : srv = "busy" /\ Dies(FALSE, how)
  BY DEF Quit
<1> QED
  BY <1>1, DiesStep DEF Alive

\* The server exits on its own.
LEMMA ServerFailsStep ==
    ASSUME SInv, ServerFails
    PROVE  SInv'
<1>1. PICK how \in {"none", "lost"} :
        Alive /\ (how = "lost" => tb = "there" \/ serving = "open") /\ Dies(TRUE, how)
  BY DEF ServerFails, Alive
<1>2. srv = "idle" => serving = "none"
  BY DEF SInv, ServerInv
<1> QED
  BY <1>1, <1>2, DiesStep

\* A command done whose reply nobody reads.
LEMMA UnheardStep ==
    ASSUME SInv, Serve, ~listens
    PROVE  SInv'
<1> DEFINE after == IF serving = "open" THEN "there" ELSE IF serving = "close" THEN "none" ELSE tb
           catch == handlers /\ serving # "close"
           how == IF catch THEN "none" ELSE after
<1>1. srv = "busy" /\ Dies(TRUE, how)
  BY DEF Serve
<1>2. ~handlers => tb # "there" /\ serving # "open"
  BY <1>1 DEF SInv, ServerInv, Alive
<1>3. how \in {"none", "lost"}
  BY <1>2 DEF SInv, Scalars
<1> HIDE DEF how
<1> QED
  BY <1>1, <1>3, DiesStep DEF Alive

\* A command done and its reply.
LEMMA HeardStep ==
    ASSUME SInv, Serve, listens
    PROVE  SInv'
<1> DEFINE after == IF serving = "open" THEN "there" ELSE IF serving = "close" THEN "none" ELSE tb
           catch == handlers /\ serving # "close"
<1>1. /\ srv = "busy" /\ serving \notin {"quit", "bogus"}
      /\ srv' = "idle" /\ serving' = "none" /\ tb' = after /\ handlers' = catch
      /\ UNCHANGED <<runner, pending, to_server, listens, ec, reverts>>
  BY DEF Serve
<1>2. PICK good \in BOOLEAN :
        /\ good \/ serving = "copy"
        /\ to_runner' = Append(to_runner, [for |-> serving, ok |-> good])
  BY DEF Serve
<1>3. /\ StackInv' /\ Unflushed' /\ AlarmInv'
      /\ Running' <=> Running
      /\ Top' = Top
      /\ Duty' <=> Duty
      /\ OnWork' <=> OnWork
      /\ Astray' <=> Astray
      /\ Untold(stack)' <=> Untold(stack)
  BY <1>1, SameRunner
<1>4. UNCHANGED <<stack, scratch, started, stop_sent, tried, aux, alarm, stray, signalled, end, to_server, listens, ec, reverts, pending>>
  BY <1>1 DEF runner
<1>5. Running
  BY DEF SInv, EndInv
<1>6. serving # "none" /\ serving \in Commands
  BY <1>1 DEF SInv, ServerInv, Scalars
<1> DEFINE m == [for |-> serving, ok |-> good]
<1>7. /\ to_runner' \in Seq([for : Commands \cup {"banner"}, ok : BOOLEAN]) /\ to_runner' # <<>>
      /\ \A k \in 1 .. Len(to_runner') : to_runner'[k] = m \/ (k \in 1 .. Len(to_runner) /\ to_runner'[k] = to_runner[k])
      /\ to_runner = <<>> => Head(to_runner') = m /\ Tail(to_runner') = <<>>
  <2> DEFINE S == [for : Commands \cup {"banner"}, ok : BOOLEAN]
  <2>1. m \in S /\ to_runner \in Seq(S)
    BY <1>6 DEF SInv, Scalars
  <2>2. to_runner' = Append(to_runner, m)
    BY <1>2
  <2> HIDE DEF S, m
  <2>3. to_runner' \in Seq(S) /\ to_runner' # <<>>
    BY ONLY <2>1, <2>2, Appended
  <2>4. Len(to_runner') = Len(to_runner) + 1
    BY ONLY <2>1, <2>2, Appended
  <2>5. to_runner'[Len(to_runner) + 1] = m
    BY ONLY <2>1, <2>2, Appended
  <2>6. \A k \in 1 .. Len(to_runner) : to_runner'[k] = to_runner[k]
    BY ONLY <2>1, <2>2, Appended
  <2>7. to_runner = <<>> => Head(to_runner') = m /\ Tail(to_runner') = <<>>
    BY ONLY <2>1, <2>2, Appended
  <2>8. Len(to_runner) \in Nat
    BY <2>1, LenProperties
  <2>9. \A k \in 1 .. Len(to_runner') : k \in 1 .. Len(to_runner) \/ k = Len(to_runner) + 1
    BY <2>4, <2>8
  <2> QED
    BY <2>3, <2>5, <2>6, <2>7, <2>9 DEF S
<1>8. m.for = serving /\ m.ok = good
  OBVIOUS
<1> HIDE DEF m
<1>9. Alive /\ Alive' /\ \A c : InQueue(c)' <=> InQueue(c)
  BY <1>1, <1>4 DEF Alive, InQueue
<1>10. /\ serving = "open" => tb = "none"
       /\ serving \in NeedsTestbed => tb = "there"
       /\ ~handlers => tb # "there" /\ serving # "open"
       /\ ~InQueue("open")
  <2>1. ~InQueue("open")
    BY <1>6, <1>9 DEF SInv, ServerInv, InQueue
  <2> QED
    BY <2>1, <1>9 DEF SInv, ServerInv
<1>11. /\ serving = "close" => tb' = "none"
       /\ serving = "open" => tb' = "there"
       /\ serving \notin {"open", "close"} => tb' = tb
  BY <1>1
<1>12. Ready => Ready'
  BY <1>1, <1>9, <1>11 DEF Ready
<1>13. Exists' => Exists /\ serving # "close"
  BY <1>1, <1>9, <1>10, <1>11 DEF Exists
<1>14. serving # "close" => (Told => Told')
  BY <1>1, <1>9 DEF Told
<1>15. LastWords => LastWords'
  BY <1>1, <1>9 DEF LastWords
<1>16. Scalars'
  <2>1. tb' \in {"none", "there", "lost"} /\ handlers' \in BOOLEAN
    BY <1>1 DEF SInv, Scalars
  <2> QED
    BY <2>1, <1>1, <1>4, <1>7 DEF SInv, Scalars
<1>17. ServerInv'
  <2>1. ASSUME NEW k \in 1 .. Len(to_server)
        PROVE  /\ to_server[k] # "open"
               /\ to_server[k] \in NeedsTestbed =>
                     /\ tb' = "there"
                     /\ \A j \in 1 .. k - 1 : to_server[j] \notin {"open", "close"}
    BY <1>9, <1>10, <1>11 DEF SInv, ServerInv, InQueue
  <2>2. ~handlers' => tb' # "there"
    BY <1>1, <1>10, <1>11
  <2>3. \A k \in 1 .. Len(to_runner') : to_runner'[k].ok \/ to_runner'[k].for = "copy"
    <3>1. \A k \in 1 .. Len(to_runner) : to_runner[k].ok \/ to_runner[k].for = "copy"
      BY DEF SInv, ServerInv
    <3>2. m.ok \/ m.for = "copy"
      BY <1>2, <1>8
    <3> QED
      BY <3>1, <3>2, <1>7
  <2> QED
    BY <2>1, <2>2, <2>3, <1>1, <1>4, <1>9, <1>10 DEF ServerInv, NeedsTestbed
<1>18. Flight'
  <2>1. ASSUME NEW c, OneInFlight(c) PROVE OneInFlight(c)' /\ serving = c
    <3>1. to_server = <<>> /\ to_runner = <<>> /\ serving = c
      BY <2>1, <1>1 DEF OneInFlight, Serves
    <3> QED
      BY <3>1, <1>1, <1>4, <1>7, <1>8 DEF OneInFlight
  <2>2. ~Quiet
    BY <1>1 DEF Quiet
  <2> QED
    BY <2>1, <2>2, <1>1, <1>3, <1>4 DEF SInv, Flight
<1>19. Waits'
  BY <1>1, <1>3, <1>7, <1>15 DEF SInv, Waits
<1>20. Points'
  <2>1. ~Booting(Top)
    BY <1>1, <1>5, BootingIs
  <2>2. ~signalled /\ Awaiting(Top, "open") => Ready'
    <3>1. ASSUME ~signalled, Awaiting(Top, "open") PROVE serving = "open" /\ to_server = <<>>
      BY <3>1, <1>1, <1>5 DEF SInv, Flight, Awaiting, OneInFlight, Serves
    <3> QED
      BY <3>1, <1>1, <1>9, <1>11, NoneQueued DEF Ready
  <2> QED
    BY <2>1, <2>2, <1>1, <1>3, <1>4, <1>12 DEF SInv, Points
<1>21. Telling' /\ EndInv'
  BY <1>3, <1>4, <1>5, <1>13, <1>14 DEF SInv, Telling, EndInv
<1> QED
  BY <1>3, <1>16, <1>17, <1>18, <1>19, <1>20, <1>21 DEF SInv

\* A command done.
LEMMA ServeStep ==
    ASSUME SInv, Serve
    PROVE  SInv'
  BY UnheardStep, HeardStep

\* Nothing happens.
LEMMA Stutters ==
    ASSUME SInv, UNCHANGED vars
    PROVE  SInv'
<1>1. UNCHANGED <<runner, pending, to_server, to_runner, listens, srv, serving, handlers, ec, tb, reverts>>
  BY DEF vars, pipes, server
<1>2. UNCHANGED <<scratch, started, stop_sent, tried, aux, alarm, stray, signalled, end>>
  BY <1>1 DEF runner
<1>3. /\ StackInv' /\ Unflushed' /\ AlarmInv'
      /\ Running' <=> Running
      /\ Top' = Top
      /\ Duty' <=> Duty
      /\ OnWork' <=> OnWork
      /\ Astray' <=> Astray
      /\ Untold(stack)' <=> Untold(stack)
  BY <1>1, SameRunner
<1>4. Undisturbed
  BY <1>1 DEF Undisturbed
<1>5. /\ Ready' <=> Ready
      /\ Exists' <=> Exists
      /\ Told' <=> Told
      /\ LastWords' <=> LastWords
      /\ Quiet' <=> Quiet
      /\ \A c : OneInFlight(c)' <=> OneInFlight(c)
  BY <1>4, Same
<1>6. Scalars'
  BY <1>1, <1>2 DEF SInv, Scalars
<1>7. ServerInv'
  BY <1>2, <1>4, SameServer DEF SInv
<1>8. Flight' /\ Waits' /\ Points' /\ Telling' /\ EndInv'
  BY <1>1, <1>3, <1>5 DEF SInv, Flight, Waits, Points, Telling, EndInv, runner
<1> QED
  BY <1>3, <1>6, <1>7, <1>8 DEF SInv

-----------------------------------------------------------------------------
(* The theorems.                                                           *)

\* main() begins.
LEMMA SessionInit == Init => SInv
<1> SUFFICES ASSUME Init PROVE SInv
  OBVIOUS
<1>1. /\ stack = Main /\ end = "no"
      /\ scratch = FALSE /\ started = FALSE /\ stop_sent = FALSE /\ tried = FALSE
      /\ aux = "none" /\ alarm = FALSE /\ stray = FALSE /\ signalled = FALSE
      /\ pending = 0 /\ to_server = <<>> /\ to_runner = <<>> /\ listens = TRUE
      /\ reverts \in BOOLEAN
      /\ srv = "none" /\ serving = "none" /\ handlers = TRUE /\ ec = FALSE
      /\ tb = "none"
  BY DEF Init
<1>2. /\ stack \in Seq(Step) /\ Shaped(stack) /\ Top = F("popen") /\ Top.do = "popen"
      /\ Without(stack, Stops) /\ Without(stack, {"debugged"}) /\ Without(stack, {"handler"})
      /\ Without(stack, {"wait"}) /\ Running
  BY <1>1, MainIs DEF Top, F, Running
<1>3. Once(stack, "wait") /\ Once(stack, "debugged")
  BY <1>2 DEF Without, Once
<1>4. StackInv
  BY <1>1, <1>2, <1>3 DEF StackInv, Placed, Counts, Handling
<1>5. \A c : ~InQueue(c)
  BY <1>1, NoneQueued
<1>6. Scalars
  <2>1. to_server \in Seq(Commands \cup {"bogus"})
    BY <1>1, EmptySeq
  <2>2. to_runner \in Seq([for : Commands \cup {"banner"}, ok : BOOLEAN])
    <3> DEFINE S == [for : Commands \cup {"banner"}, ok : BOOLEAN]
    <3>1. <<>> \in Seq(S)
      BY EmptySeq
    <3> HIDE DEF S
    <3>2. to_runner \in Seq(S)
      BY <3>1, <1>1
    <3> QED
      BY <3>2 DEF S
  <2>3. pending \in 0 .. 2
    BY <1>1
  <2>4. end \in {"no", "exit", "failed", "killed", "unsaid", "interrupted"} /\ aux \in {"none", "fresh", "stale"}
    BY <1>1
  <2>5. {scratch, started, stop_sent, tried, alarm, stray, signalled, listens, reverts, handlers, ec} \subseteq BOOLEAN
    BY <1>1
  <2>6. /\ srv \in {"none", "idle", "busy", "gone"} /\ tb \in {"none", "there", "lost"}
        /\ serving \in Commands \cup {"bogus", "none"}
    BY <1>1
  <2> QED
    BY <2>1, <2>2, <2>3, <2>4, <2>5, <2>6 DEF Scalars
<1>7. ServerInv
  <2>1. \A k \in 1 .. Len(to_runner) : FALSE
    BY <1>1, EmptySeq
  <2> QED
    BY <2>1, <1>1 DEF ServerInv, Alive
<1>8. AlarmInv /\ EndInv /\ Flight /\ Waits
  BY <1>1, <1>2 DEF AlarmInv, EndInv, Flight, Waits, Quiet
<1>9. Unflushed
  BY <1>1, <1>2 DEF Unflushed
<1>10. Points /\ Telling
  BY <1>1, <1>2, <1>5 DEF Points, Telling, Exists, Sending, Usable, OnWork, Dialogue
<1> QED
  BY <1>4, <1>6, <1>7, <1>8, <1>9, <1>10 DEF SInv

\* Every step.
LEMMA SessionNext == SInv /\ [Next]_vars => SInv'
<1> SUFFICES ASSUME SInv, [Next]_vars PROVE SInv'
  OBVIOUS
<1>1. CASE Popen \/ Write \/ Flush \/ SendFails \/ EnterRead \/ Read \/ ReadEof
  BY <1>1, PopenStep, WriteStep, FlushStep, SendFailsStep, EnterReadStep, ReadStep, ReadEofStep
<1>2. CASE DebugFail \/ Bomb \/ Raises \/ Stop \/ Close \/ Hangup \/ NoServer \/ Wait
  BY <1>2, DebugFailStep, BombStep, RaisesStep, StopStep, CloseStep, HangupStep, NoServerStep,
     WaitStep
<1>3. CASE Opened \/ GotAuxverb \/ Work \/ WorkDone \/ GoOn \/ Execute \/ Executed \/ Undecodable
  BY <1>3, OpenedStep, GotAuxverbStep, WorkStep, WorkDoneStep, GoOnStep, ExecuteStep, ExecutedStep,
     UndecodableStep
<1>4. CASE AlarmRings \/ Reset \/ Exit \/ Kill \/ Signal \/ Interrupt
  BY <1>4, AlarmRingsStep, ResetStep, ExitStep, KillStep, SignalStep, InterruptStep
<1>5. CASE Take \/ Serve \/ Quit \/ ServerFails
  BY <1>5, TakeStep, ServeStep, QuitStep, ServerFailsStep
<1>6. CASE Ended \/ UNCHANGED vars
  BY <1>6, Stutters DEF Ended
<1> QED
  BY <1>1, <1>2, <1>3, <1>4, <1>5, <1>6 DEF Next, Runner

\* The invariant of the dialogue holds.
LEMMA SessionInvariant == Spec => []SInv
  BY SessionInit, SessionNext, PTL DEF Spec

\* InStep: whatever has failed and wherever a signal has interrupted the runner, it
\* and the server never wait for each other, each command finds the testbed it
\* needs, a reply is taken for its own command's, stop() and debug_fail() do not
\* recurse, and commands run with the auxverb of the latest open or revert.
THEOREM SessionInStep == Spec => []InStep
<1>1. ASSUME SInv PROVE InStep
  <2>1. StackInv /\ Scalars /\ ServerInv /\ Flight /\ Waits /\ Points
    BY <1>1 DEF SInv
  <2>2. TypeOK
    BY <2>1 DEF StackInv, Scalars, TypeOK
  <2>3. end = "no" => Running /\ Top = Head(stack)
    BY DEF Running, Top
  <2>4. NoMutualWait
    <3>1. srv = "idle" => serving = "none"
      BY <2>1 DEF ServerInv
    <3>2. srv = "idle" /\ LastWords => to_server # <<>>
      BY <3>1, NoneQueued DEF LastWords
    <3> QED
      BY <2>1, <2>3, <3>2 DEF NoMutualWait, Waits
  <2>5. LegalCommands
    <3>1. srv = "busy" =>
            /\ serving = "open" => tb = "none"
            /\ serving \in {"close", "copy", "reboot", "revert", "print-execute-command"} => tb = "there"
      BY <2>1 DEF ServerInv, Alive, NeedsTestbed
    <3> QED
      BY <3>1 DEF LegalCommands
  <2>6. RepliesMatch
    BY <2>1, <2>3 DEF RepliesMatch, Flight, OneInFlight
  <2>7. stack \in Seq(Step) /\ DOMAIN stack = 1 .. Len(stack)
    BY <2>1, LenProperties DEF StackInv
  <2>8. NoRecursion
    BY <2>1, <2>7 DEF NoRecursion, StackInv, Counts, Once
  <2>9. FreshAuxverb
    <3>1. ASSUME end = "no", Head(stack).do = "exec", NEW k \in DOMAIN stack, stack[k].do = "endtry"
          PROVE  aux = "fresh"
      <4>1. Running /\ Top.do = "exec" /\ ~NoEndtry
        BY <3>1, <2>3, <2>7 DEF NoEndtry, Without
      <4>2. OnWork
        BY <4>1, <2>1, ExecIs DEF OnWork
      <4> QED
        BY <4>1, <4>2, <2>1 DEF Points
    <3> QED
      BY <3>1 DEF FreshAuxverb
  <2> QED
    BY <2>2, <2>4, <2>5, <2>6, <2>8, <2>9 DEF InStep
<1> QED
  BY <1>1, SessionInvariant, PTL

\* NotForgotten: a runner that exits, or that a signal ends, has told the server of
\* each testbed that is left, but for what the property names.
THEOREM TestbedNotForgotten == Spec => []NotForgotten
<1>1. ASSUME SInv PROVE NotForgotten
  <2> SUFFICES ASSUME ~stray, end \in {"exit", "killed"}, tb = "there" PROVE Learns
    BY DEF NotForgotten
  <2>1. Scalars /\ ServerInv /\ Telling
    BY <1>1 DEF SInv
  <2>2. Exists
    BY <2>1 DEF Scalars, ServerInv, Exists, Alive
  <2>3. Told
    BY <2>1, <2>2 DEF Telling
  <2>4. serving \in {"close", "quit", "bogus"} => srv = "busy"
    BY <2>1 DEF ServerInv
  <2>5. DOMAIN to_server = 1 .. Len(to_server)
    <3>1. to_server \in Seq(Commands \cup {"bogus"})
      BY <2>1 DEF Scalars
    <3> QED
      BY <3>1, LenProperties
  <2> QED
    BY <2>3, <2>4, <2>5 DEF Told, Learns, InQueue
<1> QED
  BY <1>1, SessionInvariant, PTL

-----------------------------------------------------------------------------
(* Copies.                                                                 *)

\* The steps of each way.
LEMMA StepsAre ==
    \A c \in Copies \cup {Piped} : c \in Seq(Steps) /\ Len(c) <= 4
<1>3. UpSame \in Seq(Steps) /\ Len(UpSame) <= 4
  BY EmptySeq DEF UpSame
<1> USE DEF Steps
<1>1. UpOutside \in Seq(Steps) /\ Len(UpOutside) <= 4
  BY DEF UpOutside
<1>2. UpInside \in Seq(Steps) /\ Len(UpInside) <= 4
  BY DEF UpInside
<1>4. DownOutside \in Seq(Steps) /\ Len(DownOutside) <= 4
  BY DEF DownOutside
<1>5. DownInside \in Seq(Steps) /\ Len(DownInside) <= 4
  BY DEF DownInside
<1>6. DownShared \in Seq(Steps) /\ Len(DownShared) <= 4
  BY DEF DownShared
<1>7. Piped \in Seq(Steps) /\ Len(Piped) <= 4
  BY DEF Piped
<1> HIDE DEF Steps
<1>8. \A c \in Shared \cup {Piped} : c \in Seq(Steps) /\ Len(c) <= 4
  BY <1>1, <1>2, <1>3, <1>4, <1>5, <1>6, <1>7, Zenon DEF Shared
<1> QED
  BY <1>8, CopiesAssumption

\* No two of them are one.
LEMMA WaysDiffer ==
    /\ UpOutside \notin {UpInside, UpSame, DownOutside, DownShared, Piped}
    /\ UpInside \notin {UpSame, DownOutside, DownShared, Piped}
    /\ UpSame \notin {DownOutside, DownShared, Piped}
    /\ DownOutside \notin {DownShared, Piped}
    /\ DownShared # Piped
<1>1. UpOutside \notin {UpInside, UpSame, DownOutside, DownShared, Piped}
  BY DEF UpOutside, UpInside, UpSame, DownOutside, DownShared, Piped
<1>2. UpInside \notin {UpSame, DownOutside, DownShared}
  BY DEF UpInside, UpSame, DownOutside, DownShared
<1>3. UpSame \notin {DownOutside, DownShared, Piped}
  BY DEF UpSame, DownOutside, DownShared, Piped
<1>4. DownOutside \notin {DownShared, Piped} /\ DownShared # Piped
  BY DEF DownOutside, DownShared, Piped
<1>5. UpInside # Piped
  BY DEF UpInside, Piped, HostToDst, Pipe
<1> QED
  BY <1>1, <1>2, <1>3, <1>4, <1>5

\* What a directory from outside is between the two copies of copyup, and after.
Landed == IF dirs /\ stale THEN "nested" ELSE "whole"

\* How far the command has come: a suffix of its way is left, and what the steps
\* before have made is there.
Along ==
    Working =>
        \/ /\ copy = UpOutside /\ stage = "shared"
           /\ \/ todo = UpOutside /\ stale = (tmp # "none")
              \/ todo = <<HostToDst, RmTmp>> /\ tmp = Landed
              \/ todo = <<RmTmp>> /\ dst = Landed
              \/ todo = <<>> /\ dst = Landed /\ tmp = "none"
        \/ /\ copy = UpInside /\ stage = "shared"
           /\ todo = UpInside \/ (todo = <<>> /\ dst = "whole")
           /\ stale = (tmp # "none")
        \/ /\ copy = UpSame /\ stage = "shared" /\ todo = UpSame
           /\ stale = (tmp # "none")
        \/ /\ copy = DownOutside /\ stage = "shared"
           /\ \/ todo = DownOutside
              \/ todo = <<RmDst, CpToDst, HostRmTmp>> /\ tmp = "whole"
              \/ todo = <<CpToDst, HostRmTmp>> /\ tmp = "whole" /\ dst = "none"
              \/ todo = <<HostRmTmp>> /\ dst = "whole"
              \/ todo = <<>> /\ dst = "whole" /\ tmp = "none"
        \/ /\ copy = DownShared /\ stage = "shared"
           /\ \/ todo = DownShared
              \/ todo = <<CpToDst>> /\ dst = "none"
              \/ todo = <<>> /\ dst = "whole"
           /\ stale = (tmp # "none")
        \/ /\ copy = Piped /\ stage = "pipe"
           /\ todo = Piped \/ (todo = <<>> /\ dst = "whole")
           /\ began \in Outside => tmp # "none"
           /\ began \notin Outside => stale = (tmp # "none")

CopyInv == CopyTypeOK /\ NoStrayAlarm /\ Along /\ CopiedCleanly
-----------------------------------------------------------------------------
LEMMA CopyInitHolds == CopyInit => CopyInv
<1> SUFFICES ASSUME CopyInit PROVE CopyInv
  OBVIOUS
<1>1. todo \in Seq(Steps) /\ Len(todo) <= 4
  BY EmptySeq DEF CopyInit
<1> QED
  BY <1>1 DEF CopyInit, CopyTypeOK, Content, CopyInv, NoStrayAlarm, Along, Working,
              CopiedCleanly, CopiedWhole, LeavesOnly, Answered

\* A step is the first of what is left.
LEMMA HeadIsStep ==
    ASSUME CopyTypeOK, todo # <<>>
    PROVE  Head(todo) \in Steps /\ Tail(todo) \in Seq(Steps) /\ Len(Tail(todo)) <= 4
  BY DEF CopyTypeOK

LEMMA ReceiveKeeps ==
    ASSUME CopyInv, NEW c \in Copies, Receive(c) PROVE CopyInv'
<1> USE DEF CopyInv
<1>1. CopyTypeOK'
  BY StepsAre DEF Receive, CopyTypeOK, Content, AlarmIn
<1>2. NoStrayAlarm' /\ CopiedCleanly'
  BY DEF Receive, NoStrayAlarm, CopiedCleanly, CopiedWhole, LeavesOnly, Answered
<1>3. Along'
  <2>1. c \in {UpOutside, UpInside, UpSame, DownOutside, DownShared, Piped}
    BY CopiesAssumption DEF Shared, UpInside, DownInside
  <2>2. /\ copy' = c /\ began' = c /\ todo' = c /\ stale' = (tmp' # "none")
        /\ stage' = IF c = Piped THEN "pipe" ELSE "shared"
    BY DEF Receive, CopyTypeOK
  <2>3. c = Piped => began' \notin Outside
    BY <2>2, WaysDiffer DEF Outside
  <2> QED
    BY <2>1, <2>2, <2>3, WaysDiffer DEF Along
<1> QED
  BY <1>1, <1>2, <1>3

\* What each step does, in words of its own.
LEMMA EffectIs ==
    ASSUME Effect(Head(todo))
    PROVE  /\ Head(todo) = CpToTmp => tmp' = CopyInto("whole", tmp) /\ dst' = dst
           /\ Head(todo) = HostToTmp => tmp' = "whole" /\ dst' = dst
           /\ Head(todo) \in {RmTmp, HostRmTmp} => tmp' = "none" /\ dst' = dst
           /\ Head(todo) = RmDst => dst' = "none" /\ tmp' = tmp
           /\ Head(todo) = CpToDst =>
                 /\ dst' = CopyInto(IF copy = DownOutside THEN tmp ELSE "whole", dst)
                 /\ tmp' = tmp
           /\ Head(todo) = HostToDst =>
                 dst' = (IF copy = UpOutside THEN tmp ELSE "whole") /\ tmp' = tmp
           /\ Head(todo) = Pipe => dst' = "whole" /\ tmp' = tmp
<1>1. /\ CpToTmp \notin {HostToTmp, RmTmp, HostRmTmp, RmDst, CpToDst, HostToDst, Pipe}
      /\ HostToTmp \notin {RmTmp, HostRmTmp, RmDst, CpToDst, HostToDst, Pipe}
      /\ RmDst \notin {RmTmp, HostRmTmp, CpToDst, HostToDst, Pipe}
      /\ CpToDst \notin {RmTmp, HostRmTmp, HostToDst, Pipe}
      /\ HostToDst \notin {RmTmp, HostRmTmp, Pipe}
      /\ Pipe \notin {RmTmp, HostRmTmp}
  BY DEF CpToTmp, CpToDst, RmTmp, RmDst, HostToTmp, HostToDst, HostRmTmp, Pipe
<1> QED
  BY <1>1 DEF Effect

LEMMA StepDoneKeeps ==
    ASSUME CopyInv, StepDone PROVE CopyInv'
<1> USE DEF CopyInv
<1>1. CopyTypeOK'
  <2>1. tmp' \in Content /\ dst' \in Content
    BY HeadIsStep DEF StepDone, Effect, CopyInto, Content, CopyTypeOK, Steps
  <2> QED
    BY <2>1, HeadIsStep DEF StepDone, CopyTypeOK, AlarmIn
<1>2. NoStrayAlarm' /\ CopiedCleanly'
  BY DEF StepDone, NoStrayAlarm, Working, CopiedCleanly, CopiedWhole, LeavesOnly, Answered
<1>3. Along'
  <2>0. /\ Working /\ todo # <<>> /\ Effect(Head(todo)) /\ todo' = Tail(todo)
        /\ UNCHANGED <<began, copy, dirs, stage, stale>>
    BY DEF StepDone
  <2> USE DEF Landed
  <2> HIDE DEF CopyInv
  <2> USE <2>0, EffectIs DEF Along, Working, CopyInto
  <2>1. CASE copy = UpOutside /\ stage = "shared"
    <3>1. CASE todo = UpOutside /\ stale = (tmp # "none")
      <4>1. Head(todo) = CpToTmp /\ Tail(todo) = <<HostToDst, RmTmp>>
        BY <3>1 DEF UpOutside
      <4> QED
        BY <2>1, <3>1, <4>1
    <3>2. CASE todo = <<HostToDst, RmTmp>> /\ tmp = Landed
      <4>1. Head(todo) = HostToDst /\ Tail(todo) = <<RmTmp>>
        BY <3>2
      <4> QED
        BY <2>1, <3>2, <4>1
    <3>3. CASE todo = <<RmTmp>> /\ dst = Landed
      <4>1. Head(todo) = RmTmp /\ Tail(todo) = <<>>
        BY <3>3
      <4> QED
        BY <2>1, <3>3, <4>1
    <3> QED
      BY <2>0, <2>1, <3>1, <3>2, <3>3, WaysDiffer DEF CopyInv
  <2>2. CASE copy = UpInside /\ stage = "shared"
    <3>1. Head(todo) = HostToDst /\ Tail(todo) = <<>>
      BY <2>0, <2>2, WaysDiffer DEF CopyInv, UpInside
    <3> QED
      BY <2>2, <3>1, WaysDiffer DEF CopyInv
  <2>3. CASE copy = UpSame
    BY <2>0, <2>3, WaysDiffer DEF CopyInv, UpSame
  <2>4. CASE copy = DownOutside /\ stage = "shared"
    <3>1. CASE todo = DownOutside
      <4>1. Head(todo) = HostToTmp /\ Tail(todo) = <<RmDst, CpToDst, HostRmTmp>>
        BY <3>1 DEF DownOutside
      <4> QED
        BY <2>4, <3>1, <4>1
    <3>2. CASE todo = <<RmDst, CpToDst, HostRmTmp>> /\ tmp = "whole"
      <4>1. Head(todo) = RmDst /\ Tail(todo) = <<CpToDst, HostRmTmp>>
        BY <3>2
      <4> QED
        BY <2>4, <3>2, <4>1
    <3>3. CASE todo = <<CpToDst, HostRmTmp>> /\ tmp = "whole" /\ dst = "none"
      <4>1. Head(todo) = CpToDst /\ Tail(todo) = <<HostRmTmp>>
        BY <3>3
      <4> QED
        BY <2>4, <3>3, <4>1
    <3>4. CASE todo = <<HostRmTmp>> /\ dst = "whole"
      <4>1. Head(todo) = HostRmTmp /\ Tail(todo) = <<>>
        BY <3>4
      <4> QED
        BY <2>4, <3>4, <4>1
    <3> QED
      BY <2>0, <2>4, <3>1, <3>2, <3>3, <3>4, WaysDiffer DEF CopyInv
  <2>5. CASE copy = DownShared /\ stage = "shared"
    <3>1. CASE todo = DownShared
      <4>1. Head(todo) = RmDst /\ Tail(todo) = <<CpToDst>>
        BY <3>1 DEF DownShared
      <4> QED
        BY <2>5, <3>1, <4>1, WaysDiffer DEF CopyInv
    <3>2. CASE todo = <<CpToDst>> /\ dst = "none"
      <4>1. Head(todo) = CpToDst /\ Tail(todo) = <<>>
        BY <3>2
      <4> QED
        BY <2>5, <3>2, <4>1, WaysDiffer DEF CopyInv
    <3> QED
      BY <2>0, <2>5, <3>1, <3>2, WaysDiffer DEF CopyInv
  <2>6. CASE copy = Piped /\ stage = "pipe"
    <3>1. todo = Piped
      BY <2>0, <2>6, WaysDiffer DEF CopyInv
    <3>2. Head(todo) = Pipe /\ Tail(todo) = <<>>
      BY <3>1 DEF Piped
    <3>3. /\ copy' = Piped /\ stage' = "pipe" /\ todo' = <<>> /\ dst' = "whole"
          /\ UNCHANGED <<began, stale, tmp>>
      BY <2>6, <3>2
    <3>4. /\ began \in Outside => tmp # "none"
          /\ began \notin Outside => stale = (tmp # "none")
      BY <2>0, <2>6, WaysDiffer DEF CopyInv
    <3>5. /\ copy' = Piped /\ stage' = "pipe" /\ todo' = <<>> /\ dst' = "whole"
          /\ began' \in Outside => tmp' # "none"
          /\ began' \notin Outside => stale' = (tmp' # "none")
      BY <3>3, <3>4
    <3> QED
      BY ONLY <3>5 DEF Along
  <2> QED
    BY <2>1, <2>2, <2>3, <2>4, <2>5, <2>6 DEF CopyInv
<1> QED
  BY <1>1, <1>2, <1>3

LEMMA DoneKeeps ==
    ASSUME CopyInv, Done PROVE CopyInv'
<1> USE DEF CopyInv, Done
<1>1. CopyTypeOK' /\ NoStrayAlarm' /\ Along'
  BY DEF CopyTypeOK, Content, NoStrayAlarm, Along, Working
<1>2. copy = Piped \/ copy = began
  BY DEF CopyTypeOK
<1>3. CopiedWhole'
  BY WaysDiffer DEF CopiedWhole, Answered, Landed, Along, UpOutside, UpInside, UpSame,
         DownOutside, DownShared, Piped
<1>4. LeavesOnly'
  BY <1>2, WaysDiffer DEF LeavesOnly, Answered, Outside, Along, UpOutside, UpInside, UpSame,
         DownOutside, DownShared, Piped
<1> QED
  BY <1>1, <1>3, <1>4 DEF CopiedCleanly

\* What a step that ends early leaves.
LEMMA PartIs ==
    ASSUME CopyTypeOK, todo # <<>>, Part(Head(todo))
    PROVE  tmp' \in Content /\ dst' \in Content
  BY HeadIsStep DEF CopyTypeOK, Content, Part, Steps

LEMMA FallBackKeeps ==
    ASSUME CopyInv, FallBack PROVE CopyInv'
<1> USE DEF CopyInv, FallBack, CopyFails
<1>1. CopyTypeOK'
  BY PartIs, StepsAre DEF CopyTypeOK
<1>2. NoStrayAlarm' /\ CopiedCleanly'
  BY DEF NoStrayAlarm, CopiedCleanly, CopiedWhole, LeavesOnly, Answered
<1>3. HostToTmp \notin {CpToTmp, RmTmp, RmDst, CpToDst, HostRmTmp, HostToDst, Pipe}
      /\ HostToDst \notin {CpToTmp, RmTmp, RmDst, CpToDst, HostRmTmp, Pipe}
  BY DEF CpToTmp, CpToDst, RmTmp, RmDst, HostToTmp, HostToDst, HostRmTmp, Pipe
<1>4. began = copy
  BY WaysDiffer DEF CopyTypeOK, Along, Working
<1>5. CASE copy \in Outside
  <2>1. Head(todo) = HostToTmp => tmp' = "part"
    BY <1>3 DEF Part
  <2>2. Head(todo) = HostToDst => tmp' = tmp
    BY <1>3 DEF Part
  <2>3. Head(todo) = HostToDst => tmp # "none"
    BY <1>3, <1>5, WaysDiffer
    DEF Along, Working, Landed, Outside, UpOutside, DownOutside
  <2>4. tmp' # "none"
    BY <2>1, <2>2, <2>3
  <2> QED
    BY <1>1, <1>2, <1>4, <1>5, <2>4 DEF Along, Working
<1>6. CASE copy \notin Outside
  <2>1. Head(todo) = HostToDst
    BY <1>3, <1>6, WaysDiffer
    DEF Along, Working, Outside, UpInside, UpSame, DownShared
  <2>2. tmp' = tmp
    BY <1>3, <2>1 DEF Part
  <2>3. stale = (tmp # "none")
    BY <1>6, WaysDiffer DEF Along, Working, Outside
  <2>4. stale' = (tmp' # "none")
    BY <2>2, <2>3
  <2> QED
    BY <1>1, <1>2, <1>4, <1>6, <2>4 DEF Along, Working
<1> QED
  BY <1>1, <1>2, <1>5, <1>6

\* Every early end.
LEMMA StopCopyKeeps ==
    ASSUME CopyInv, Fails \/ PipeFails \/ PipeCannotStart \/ CopyTimesOut PROVE CopyInv'
<1> USE DEF CopyInv
<1>1. CASE PipeCannotStart
  <2>0. todo' \in Seq(Steps) /\ Len(todo') <= 4
    BY <1>1, EmptySeq DEF PipeCannotStart
  <2>1. CopyTypeOK'
    BY <1>1, <2>0 DEF PipeCannotStart, CopyTypeOK
  <2> QED
    BY <1>1, <2>1 DEF PipeCannotStart, NoStrayAlarm, Along, Working, CopiedCleanly,
       CopiedWhole, LeavesOnly, Answered
<1>2. CASE Fails \/ PipeFails \/ CopyTimesOut
  <2>1. PICK answer \in {"bomb", "copy-failed", "timeout"} : todo # <<>> /\ StopCopy(answer)
    BY <1>2 DEF Fails, PipeFails, CopyTimesOut
  <2>2. CopyTypeOK'
    <3>1. tmp' \in Content /\ dst' \in Content
      BY <2>1, PartIs DEF StopCopy
    <3>2. todo' \in Seq(Steps) /\ Len(todo') <= 4
      BY <2>1, EmptySeq DEF StopCopy
    <3> QED
      BY <2>1, <3>1, <3>2 DEF StopCopy, CopyTypeOK
  <2>3. NoStrayAlarm' /\ Along' /\ CopiedCleanly'
    BY <2>1 DEF StopCopy, NoStrayAlarm, Along, Working, CopiedCleanly, CopiedWhole,
       LeavesOnly, Answered
  <2> QED
    BY <2>2, <2>3
<1> QED
  BY <1>1, <1>2

LEMMA AnswerKeeps ==
    ASSUME CopyInv, Answer PROVE CopyInv'
  BY DEF CopyInv, Answer, CopyTypeOK, NoStrayAlarm, Along, Working, CopiedCleanly, CopiedWhole,
         LeavesOnly, Answered

LEMMA CopyInductive == CopySpec => []CopyInv
<1>1. CopyInv /\ [CopyNext]_copyVars => CopyInv'
  <2> SUFFICES ASSUME CopyInv, [CopyNext]_copyVars PROVE CopyInv'
    OBVIOUS
  <2>1. CASE UNCHANGED copyVars
    BY <2>1 DEF copyVars, CopyInv, CopyTypeOK, NoStrayAlarm, Along, Working, Landed,
                CopiedCleanly, CopiedWhole, LeavesOnly, Answered
  <2> QED
    BY <2>1, ReceiveKeeps, StepDoneKeeps, DoneKeeps, FallBackKeeps, StopCopyKeeps, AnswerKeeps
    DEF CopyNext, CopyEnded
<1> QED
  BY <1>1, CopyInitHolds, PTL DEF CopySpec

\* AlarmIsOwn: no way a copy may go or end leaves a SIGALRM pending for a later
\* command.
THEOREM NoAlarmLeft == CopySpec => []AlarmIsOwn
<1>1. CopyInv => AlarmIsOwn
  BY DEF CopyInv, AlarmIsOwn
<1> QED
  BY <1>1, CopyInductive, PTL

\* CopiedCleanly: a reply of ok means that the copy is whole and at its place, but
\* for a directory from outside over a left-over name, which is inside of it; and a
\* command leaves its name in between exactly if it has fallen back from there.
THEOREM CopiesAreWhole == CopySpec => []CopiedCleanly
<1>1. CopyInv => CopiedCleanly
  BY DEF CopyInv
<1> QED
  BY <1>1, CopyInductive, PTL
=============================================================================
