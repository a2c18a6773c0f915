--------------------------- MODULE PipelineProofs ---------------------------
(***************************************************************************)
(* Type correctness of a compilation, for any sources, passes and meaning  *)
(* of the values: whatever MIR the interpreter is given, as long as it     *)
(* fits (MirFits, which run "compile" checks of the passes), every frame   *)
(* on its stack stays at an instruction of a block of its function, and    *)
(* within its registers.                                                   *)
(***************************************************************************)
EXTENDS Pipeline, SequenceTheorems, WellFoundedInduction, TLAPS

-----------------------------------------------------------------------------
(* Sequences of values of which nothing else is known *)

IsSeq(s) == \E S : s \in Seq(S)

LEMMA SeqLen ==
  ASSUME NEW s, IsSeq(s)
  PROVE  Len(s) \in Nat /\ (s # <<>> => Len(s) \in Nat \ {0})
BY DEF IsSeq

\* What is appended is the last element, and the others stay.
LEMMA AppendIsSeq ==
  ASSUME NEW s, IsSeq(s), NEW x
  PROVE  /\ IsSeq(Append(s, x))
         /\ Len(s) \in Nat
         /\ Len(Append(s, x)) = Len(s) + 1
         /\ Append(s, x)[Len(s) + 1] = x
         /\ \A i \in 1 .. Len(s) : Append(s, x)[i] = s[i]
<1>1. PICK S : s \in Seq(S)
  BY DEF IsSeq
<1> DEFINE T == S \cup {x}
<1>2. s \in Seq(T) /\ x \in T
  BY <1>1
<1> HIDE DEF T
<1>3. Append(s, x) \in Seq(T)
  BY <1>2
<1> QED BY <1>2, <1>3 DEF IsSeq

\* The last element is replaced, and the others stay.
LEMMA ReplaceIsSeq ==
  ASSUME NEW s, IsSeq(s), s # <<>>, NEW x
  PROVE  LET t == [s EXCEPT ![Len(s)] = x] IN
         /\ IsSeq(t)
         /\ Len(s) \in Nat \ {0} /\ Len(t) = Len(s)
         /\ t[Len(s)] = x
         /\ \A i \in 1 .. Len(s) : i # Len(s) => t[i] = s[i]
<1>1. PICK S : s \in Seq(S)
  BY DEF IsSeq
<1> DEFINE T == S \cup {x}
           t == [s EXCEPT ![Len(s)] = x]
<1>2. s \in Seq(T) /\ x \in T
  BY <1>1
<1> HIDE DEF T
<1>3. t \in Seq(T) /\ Len(t) = Len(s) /\ Len(s) \in Nat \ {0}
  BY <1>2
<1>4. t[Len(s)] = x /\ \A i \in 1 .. Len(s) : i # Len(s) => t[i] = s[i]
  BY <1>2, <1>3
<1> QED BY <1>3, <1>4 DEF IsSeq

\* The last element is taken away.
LEMMA FrontIsSeq ==
  ASSUME NEW s, IsSeq(s), s # <<>>
  PROVE  LET t == SubSeq(s, 1, Len(s) - 1) IN
         /\ IsSeq(t)
         /\ Len(s) \in Nat \ {0} /\ Len(t) = Len(s) - 1
         /\ \A i \in 1 .. Len(s) - 1 : t[i] = s[i]
<1>1. PICK S : s \in Seq(S)
  BY DEF IsSeq
<1>2. PICK m \in Nat : Len(s) = m + 1
  <2>1. Len(s) \in Nat /\ Len(s) # 0
    BY <1>1
  <2>2. Len(s) - 1 \in Nat /\ Len(s) = (Len(s) - 1) + 1
    BY <2>1
  <2> QED BY <2>2
<1>3. Len(s) - 1 = m /\ \A i \in 1 .. m : s[i] \in S
  BY <1>1, <1>2
<1> DEFINE t == SubSeq(s, 1, m)
<1>4. /\ t \in Seq(S) /\ Len(t) = IF 1 <= m THEN m - 1 + 1 ELSE 0
      /\ \A i \in 1 .. m - 1 + 1 : t[i] = s[1 + i - 1]
  BY <1>3, SubSeqProperties
<1> HIDE DEF t
<1>5. Len(t) = m
  BY <1>4
<1>6. ASSUME NEW i \in 1 .. m PROVE t[i] = s[i]
  <2>1. i \in 1 .. m - 1 + 1 /\ 1 + i - 1 = i
    OBVIOUS
  <2> QED BY <1>4, <2>1
<1>7. SubSeq(s, 1, Len(s) - 1) = t /\ Len(s) \in Nat \ {0}
  BY <1>2, <1>3 DEF t
<1> QED BY <1>3, <1>4, <1>5, <1>6, <1>7 DEF IsSeq

\* The first element is taken away.
LEMMA TailIsSeq ==
  ASSUME NEW s, IsSeq(s), s # <<>>
  PROVE  /\ IsSeq(Tail(s))
         /\ Len(s) \in Nat \ {0} /\ Len(Tail(s)) = Len(s) - 1
         /\ Head(s) = s[1]
         /\ \A i \in 1 .. Len(s) - 1 : Tail(s)[i] = s[i + 1]
<1>1. PICK S : s \in Seq(S)
  BY DEF IsSeq
<1> QED BY <1>1 DEF IsSeq

\* A set of naturals has a least element.
LEMMA LeastNat ==
  ASSUME NEW T, T \subseteq Nat, T # {}
  PROVE  \E x \in T : \A y \in T : x <= y
<1>1. PICK x \in T : \A y \in T : ~(<<y, x>> \in OpToRel(<, Nat))
  BY NatLessThanWellFounded, WFMin
<1>2. ASSUME NEW y \in T PROVE x <= y
  <2>1. ~(y < x)
    BY <1>1 DEF OpToRel
  <2> QED BY <2>1
<1> QED BY <1>2

\* What is in a sequence has a last place in it.
LEMMA LastAtFits ==
  ASSUME NEW s, Len(s) \in Nat, NEW k \in 1 .. Len(s)
  PROVE  LastAt(s, s[k]) \in 1 .. Len(s) /\ s[LastAt(s, s[k])] = s[k]
<1> DEFINE x == s[k]
           T == {n \in Nat : n <= Len(s) /\ Len(s) - n \in 1 .. Len(s) /\ s[Len(s) - n] = x}
<1>1. Len(s) - k \in T
  <2>1. Len(s) - (Len(s) - k) = k /\ Len(s) - k \in Nat /\ Len(s) - k <= Len(s)
    OBVIOUS
  <2> QED BY <2>1
<1>2. PICK n \in T : \A m \in T : n <= m
  BY <1>1, LeastNat
<1>3. Len(s) - n \in 1 .. Len(s) /\ s[Len(s) - n] = x
  BY <1>2
<1>4. ASSUME NEW j \in Len(s) - n + 1 .. Len(s), s[j] = x PROVE FALSE
  <2>1. j \in 1 .. Len(s) /\ Len(s) - j \in Nat /\ Len(s) - (Len(s) - j) = j /\ Len(s) - j < n
    BY <1>3, <1>2
  <2>2. Len(s) - j \in T
    BY <2>1, <1>4
  <2> QED BY <2>1, <2>2, <1>2
<1> HIDE DEF T
<1>5. \E p \in 1 .. Len(s) : s[p] = x /\ \A j \in p + 1 .. Len(s) : s[j] # x
  BY <1>3, <1>4
<1> QED BY <1>5 DEF LastAt

\* The first of the names that is loaded.
LEMMA FirstFits ==
  ASSUME NEW names, Found(names) # {}, Len(names) \in Nat
  PROVE  First(names) \in loaded
<1>1. Found(names) \subseteq Nat
  BY DEF Found
<1>2. \E k \in Found(names) : \A j \in Found(names) : k <= j
  BY <1>1, LeastNat
<1> QED BY <1>2 DEF First, Found

\* Two sequences, one after the other.
LEMMA ConcatIsSeq ==
  ASSUME NEW s, IsSeq(s), NEW t, IsSeq(t)
  PROVE  IsSeq(s \o t)
<1>1. PICK S : s \in Seq(S)
  BY DEF IsSeq
<1>2. PICK T : t \in Seq(T)
  BY DEF IsSeq
<1>3. s \in Seq(S \cup T) /\ t \in Seq(S \cup T)
  BY <1>1, <1>2
<1>4. s \o t \in Seq(S \cup T)
  BY <1>3
<1> QED BY <1>4 DEF IsSeq

-----------------------------------------------------------------------------
(* The inductive invariant of the machine *)

FrameFields == {"fn", "dest", "keep", "vars", "pc", "todo", "at", "regs"}
FrameOK(frame) == DOMAIN frame = FrameFields /\ FrameFits(frame)

\* The registers that a result may go to in a frame, or none.
Dests(frame) == {NoReg} \cup 0 .. fns[frame.fn].nregs - 1

\* What a frame is about to do is there to be done.
Ready(frame) ==
  frame.todo = <<>> => frame.pc <= Len(fns[frame.fn].blocks[BlockAt(fns[frame.fn], frame.at)].insts)

\* A frame knows where its result goes in the frame below it.
StackFits ==
  /\ IsSeq(frames)
  /\ \A i \in 1 .. Len(frames) : FrameOK(frames[i])
  /\ \A i \in 2 .. Len(frames) : frames[i].dest \in Dests(frames[i - 1])

MachineInv ==
  /\ \A n \in DOMAIN fns : Executable(fns[n])
  /\ loaded \subseteq DOMAIN fns
  /\ StackFits

-----------------------------------------------------------------------------
(* Frames *)

LEMMA BlockAtFits ==
  ASSUME NEW f, NEW l \in Labels(f)
  PROVE  BlockAt(f, l) \in 1 .. Len(f.blocks) /\ f.blocks[BlockAt(f, l)].label = l
BY DEF Labels, BlockAt

\* A result is written to one of the frame's registers.
LEMMA WriteFits ==
  ASSUME NEW frame, FrameOK(frame), NEW d \in Dests(frame), NEW v
  PROVE  LET w == Write(frame, d, v) IN
         /\ FrameOK(w)
         /\ w.fn = frame.fn /\ w.dest = frame.dest /\ w.at = frame.at /\ w.pc = frame.pc /\ w.todo = frame.todo
<1>1. CASE d = NoReg
  BY <1>1 DEF Write
<1>2. CASE d # NoReg
  <2> DEFINE w == Write(frame, d, v)
  <2>1. w = [frame EXCEPT !.regs = Learn(@, d, v)]
    BY <1>2 DEF Write
  <2>2. /\ DOMAIN w = FrameFields
        /\ w.fn = frame.fn /\ w.dest = frame.dest /\ w.at = frame.at /\ w.pc = frame.pc /\ w.todo = frame.todo
        /\ w.regs = Learn(frame.regs, d, v)
    BY <2>1 DEF FrameOK, FrameFields
  <2>3. DOMAIN w.regs = DOMAIN frame.regs \cup {d}
    BY <2>2 DEF Learn
  <2>4. d \in 0 .. fns[frame.fn].nregs - 1
    BY <1>2 DEF Dests
  <2> HIDE DEF w
  <2>5. FrameFits(w)
    BY <2>2, <2>3, <2>4 DEF FrameOK, FrameFits
  <2> QED BY <2>2, <2>5 DEF FrameOK, w
<1> QED BY <1>1, <1>2

\* A frame that had something to do is past it.
LEMMA AdvanceFits ==
  ASSUME NEW frame, FrameOK(frame), Ready(frame), Executable(fns[frame.fn])
  PROVE  LET w == Advance(frame) IN FrameOK(w) /\ w.fn = frame.fn /\ w.dest = frame.dest
<1> DEFINE w == Advance(frame)
           f == fns[frame.fn]
           insts == f.blocks[BlockAt(f, frame.at)].insts
<1>1. CASE frame.todo # <<>>
  <2>1. w = [frame EXCEPT !.todo = Tail(@)]
    BY <1>1 DEF Advance
  <2>2. DOMAIN w = FrameFields /\ w.fn = frame.fn /\ w.dest = frame.dest /\ w.at = frame.at /\ w.pc = frame.pc
        /\ w.regs = frame.regs
    BY <2>1 DEF FrameOK, FrameFields
  <2> QED BY <2>2 DEF FrameOK, FrameFits
<1>2. CASE frame.todo = <<>>
  <2>1. w = [frame EXCEPT !.pc = @ + 1]
    BY <1>2 DEF Advance
  <2>2. DOMAIN w = FrameFields /\ w.fn = frame.fn /\ w.dest = frame.dest /\ w.at = frame.at
        /\ w.pc = frame.pc + 1 /\ w.regs = frame.regs
    BY <2>1 DEF FrameOK, FrameFields
  <2>3. BlockAt(f, frame.at) \in 1 .. Len(f.blocks)
    BY BlockAtFits DEF FrameOK, FrameFits
  <2>4. Len(insts) \in Nat
    BY <2>3 DEF Executable
  <2>5. frame.pc \in 1 .. Len(insts) + 1 /\ frame.pc <= Len(insts)
    BY <1>2 DEF FrameOK, FrameFits, Ready
  <2>6. frame.pc + 1 \in 1 .. Len(insts) + 1
    BY <2>4, <2>5
  <2> HIDE DEF w
  <2>7. FrameFits(w)
    BY <2>2, <2>6 DEF FrameOK, FrameFits
  <2> QED BY <2>2, <2>7 DEF FrameOK, w
<1> QED BY <1>1, <1>2

\* A frame that is entered is at the first instruction of its function.
LEMMA FrameEnters ==
  ASSUME NEW f \in DOMAIN fns, Executable(fns[f]), NEW args, NEW d, NEW keep
  PROVE  FrameOK(Frame(f, args, d, keep)) /\ Frame(f, args, d, keep).dest = d
<1> DEFINE w == Frame(f, args, d, keep)
           g == fns[f]
<1>1. Len(g.blocks) \in Nat \ {0} /\ g.blocks # <<>>
  BY DEF Executable
<1>2. /\ DOMAIN w = FrameFields
      /\ w.fn = f /\ w.dest = d /\ w.pc = 1 /\ w.at = g.blocks[1].label
      /\ DOMAIN w.regs = {g.params[k] : k \in 1 .. Len(g.params)}
  BY <1>1 DEF Frame, BlocksOf, FrameFields
<1>3. w.at \in Labels(g)
  <2>1. 1 \in 1 .. Len(g.blocks)
    BY <1>1
  <2> QED BY <1>2, <2>1 DEF Labels
<1>4. BlockAt(g, w.at) \in 1 .. Len(g.blocks)
  BY <1>3, BlockAtFits
<1>5. Len(g.blocks[BlockAt(g, w.at)].insts) \in Nat
  BY <1>4 DEF Executable
<1>6. 1 \in 1 .. Len(g.blocks[BlockAt(g, w.at)].insts) + 1
  BY <1>5
<1>7. DOMAIN w.regs \subseteq 0 .. g.nregs - 1
  <2>1. Writes(g) \subseteq 0 .. g.nregs - 1
    BY DEF Executable
  <2>2. {g.params[k] : k \in 1 .. Len(g.params)} \subseteq Writes(g)
    BY DEF Writes
  <2> HIDE DEF w
  <2> QED BY <1>2, <2>1, <2>2
<1> HIDE DEF w
<1>8. FrameFits(w)
  BY <1>2, <1>3, <1>6, <1>7 DEF FrameFits
<1> QED BY <1>2, <1>8 DEF FrameOK, w

\* What an instruction writes is one of its function's registers.
LEMMA CurrentFits ==
  ASSUME MachineInv, AtInstruction
  PROVE  Current.d \in Dests(Top) /\ Ready(Top)
<1> DEFINE f == fns[Top.fn]
           b == f.blocks[BlockAt(f, Top.at)]
<1>1. Len(frames) \in 1 .. Len(frames)
  BY SeqLen DEF AtInstruction, Running, MachineInv, StackFits
<1>2. FrameOK(Top)
  BY <1>1 DEF MachineInv, StackFits, Top
<1>3. Executable(f) /\ BlockAt(f, Top.at) \in 1 .. Len(f.blocks)
  BY <1>2, BlockAtFits DEF MachineInv, FrameOK, FrameFits
<1>4. Current = b.insts[Top.pc] /\ Top.pc \in 1 .. Len(b.insts)
  BY <1>2, <1>3 DEF AtInstruction, Current, CurrentBlockOf, BlocksOf, FrameOK, FrameFits, Executable
<1>5. Current.d = NoReg \/ Current.d \in BlockWrites(b)
  BY <1>4 DEF BlockWrites
<1>6. BlockWrites(b) \subseteq Writes(f)
  BY <1>3 DEF Writes
<1>7. Current.d \in Dests(Top)
  <2>1. Writes(f) \subseteq 0 .. f.nregs - 1
    BY <1>3 DEF Executable
  <2> QED BY <1>5, <1>6, <2>1 DEF Dests
<1>8. Ready(Top)
  BY <1>4 DEF Ready
<1> QED BY <1>7, <1>8

-----------------------------------------------------------------------------
(* The stack *)

\* The frame on top of a stack that fits.
LEMMA TopFits ==
  ASSUME MachineInv, Running
  PROVE  /\ Len(frames) \in Nat \ {0}
         /\ FrameOK(Top) /\ Executable(fns[Top.fn])
<1>1. Len(frames) \in Nat \ {0}
  BY SeqLen DEF Running, MachineInv, StackFits
<1>2. FrameOK(Top)
  BY <1>1 DEF MachineInv, StackFits, Top
<1> QED BY <1>1, <1>2 DEF MachineInv, FrameOK, FrameFits

\* The frame on top is replaced by one of the same call.
LEMMA SetTopFits ==
  ASSUME MachineInv, Running, NEW frame, FrameOK(frame), frame.fn = Top.fn, frame.dest = Top.dest,
         SetTop(frame), fns' = fns
  PROVE  StackFits'
<1> DEFINE n == Len(frames)
<1>1. /\ IsSeq(frames') /\ Len(frames') = n /\ n \in Nat \ {0}
      /\ frames'[n] = frame /\ \A i \in 1 .. n : i # n => frames'[i] = frames[i]
  <2> DEFINE t == [frames EXCEPT ![n] = frame]
  <2>1. IsSeq(frames) /\ frames # <<>> /\ frames' = t
    BY DEF SetTop, Running, MachineInv, StackFits
  <2>2. /\ IsSeq(t) /\ Len(t) = n /\ n \in Nat \ {0}
        /\ t[n] = frame /\ \A i \in 1 .. n : i # n => t[i] = frames[i]
    BY <2>1, ReplaceIsSeq
  <2> HIDE DEF t
  <2> QED BY <2>1, <2>2
<1>2. ASSUME NEW i \in 1 .. Len(frames') PROVE FrameOK(frames'[i]) /\ frames'[i].fn = frames[i].fn /\ frames'[i].dest = frames[i].dest
  <2>1. CASE i = n
    BY <1>1, <2>1 DEF Top
  <2>2. CASE i # n
    BY <1>1, <2>2 DEF MachineInv, StackFits
  <2> QED BY <2>1, <2>2
<1>3. \A i \in 1 .. Len(frames') : FrameOK(frames[i])'
  BY <1>2 DEF FrameOK, FrameFits
<1>4. ASSUME NEW i \in 2 .. Len(frames') PROVE frames'[i].dest \in Dests(frames[i - 1])'
  <2>1. i \in 1 .. Len(frames') /\ i - 1 \in 1 .. Len(frames') /\ i \in 2 .. Len(frames)
    BY <1>1
  <2>2. frames[i].dest \in Dests(frames[i - 1])
    BY <2>1 DEF MachineInv, StackFits
  <2> QED BY <1>2, <2>1, <2>2 DEF Dests
<1> QED BY <1>1, <1>3, <1>4 DEF StackFits

\* A result is written and the frame goes on.
LEMMA AnswerFits ==
  ASSUME MachineInv, Running, Ready(Top), NEW d \in Dests(Top), NEW v, Answer(d, v), fns' = fns
  PROVE  StackFits'
<1> DEFINE w == Write(Top, d, v)
<1>1. FrameOK(Top) /\ Executable(fns[Top.fn])
  BY TopFits
<1>2. /\ FrameOK(w)
      /\ w.fn = Top.fn /\ w.dest = Top.dest /\ w.at = Top.at /\ w.pc = Top.pc /\ w.todo = Top.todo
  BY <1>1, WriteFits
<1> HIDE DEF w
<1>3. Ready(w)
  BY <1>2 DEF Ready
<1>4. FrameOK(Advance(w)) /\ Advance(w).fn = w.fn /\ Advance(w).dest = w.dest
  BY <1>1, <1>2, <1>3, AdvanceFits
<1>5. SetTop(Advance(w))
  BY DEF Answer, w
<1> QED BY <1>2, <1>4, <1>5, SetTopFits

\* A call puts a frame on top of the caller's, which is past the call.
LEMMA EnterFits ==
  ASSUME MachineInv, Running, Ready(Top), NEW f \in DOMAIN fns, NEW args, NEW d \in Dests(Top), NEW keep,
         Enter(f, args, d, keep), fns' = fns
  PROVE  StackFits'
<1> DEFINE n == Len(frames)
           w == Advance(Top)
           g == Frame(f, args, d, keep)
           s == [frames EXCEPT ![n] = w]
<1>1. FrameOK(Top) /\ Executable(fns[Top.fn])
  BY TopFits
<1>2. FrameOK(w) /\ w.fn = Top.fn /\ w.dest = Top.dest
  BY <1>1, AdvanceFits
<1>3. FrameOK(g) /\ g.dest = d
  BY FrameEnters DEF MachineInv
<1>4. frames' = Append(s, g)
  BY DEF Enter, Top
<1> HIDE DEF w, g
<1>5. /\ IsSeq(s) /\ n \in Nat \ {0} /\ Len(s) = n
      /\ s[n] = w /\ \A i \in 1 .. n : i # n => s[i] = frames[i]
  BY ReplaceIsSeq DEF Running, MachineInv, StackFits
<1> HIDE DEF s
<1>6. /\ IsSeq(frames') /\ Len(frames') = n + 1 /\ frames'[n + 1] = g
      /\ \A i \in 1 .. n : frames'[i] = s[i]
  BY <1>4, <1>5, AppendIsSeq
<1>7. ASSUME NEW i \in 1 .. n PROVE FrameOK(frames'[i]) /\ frames'[i].fn = frames[i].fn /\ frames'[i].dest = frames[i].dest
  <2>1. CASE i = n
    BY <1>2, <1>5, <1>6, <2>1 DEF Top
  <2>2. CASE i # n
    BY <1>5, <1>6, <2>2 DEF MachineInv, StackFits
  <2> QED BY <2>1, <2>2
<1>8. ASSUME NEW i \in 1 .. Len(frames') PROVE FrameOK(frames[i])'
  <2>1. FrameOK(frames'[i])
    <3>1. i \in 1 .. n \/ i = n + 1
      BY <1>5, <1>6
    <3> QED BY <1>3, <1>6, <1>7, <3>1
  <2> QED BY <2>1 DEF FrameOK, FrameFits
<1>9. ASSUME NEW i \in 2 .. Len(frames') PROVE frames'[i].dest \in Dests(frames[i - 1])'
  <2>1. i - 1 \in 1 .. n /\ (i \in 2 .. n \/ i = n + 1)
    BY <1>5, <1>6
  <2>2. CASE i \in 2 .. n
    <3>1. i \in 1 .. n /\ frames[i].dest \in Dests(frames[i - 1])
      BY <2>2 DEF MachineInv, StackFits
    <3> QED BY <1>7, <2>1, <3>1 DEF Dests
  <2>3. CASE i = n + 1
    <3>1. i - 1 = n /\ frames'[i].dest = d
      BY <1>3, <1>5, <1>6, <2>3
    <3>2. frames'[n].fn = Top.fn
      BY <1>5, <1>7 DEF Top
    <3> QED BY <3>1, <3>2 DEF Dests
  <2> QED BY <2>1, <2>2, <2>3
<1> QED BY <1>6, <1>8, <1>9 DEF StackFits

-----------------------------------------------------------------------------
(* Calls *)

\* What a call goes to is one of the functions that are loaded.
LEMMA CandidatesFit ==
  ASSUME NEW v, NEW m, Found(Candidates(v, m)) # {}
  PROVE  First(Candidates(v, m)) \in loaded
<1> DEFINE a == IF IsClassObject(v) /\ v[2][1] = "Class" THEN <<<<"inst", v[2][2], m>> >> ELSE <<>>
           b == IF IsObject(v) THEN InTable(v[2], m) ELSE <<>>
           c == IF v[1] = "Str" THEN <<<<"inst", v[2], m>> >> ELSE <<>>
<1>1. \A x : IsSeq(<<x>>)
  <2> TAKE x
  <2>1. <<x>> \in Seq({x})
    OBVIOUS
  <2> QED BY <2>1 DEF IsSeq
<1>2. IsSeq(<<>>)
  <2>1. <<>> \in Seq({})
    OBVIOUS
  <2> QED BY <2>1 DEF IsSeq
<1>3. IsSeq(a) /\ IsSeq(b) /\ IsSeq(c)
  BY <1>1, <1>2 DEF InTable
<1>4. Candidates(v, m) = a \o b \o c
  BY DEF Candidates
<1> HIDE DEF a, b, c
<1>5. IsSeq(Candidates(v, m))
  BY <1>3, <1>4, ConcatIsSeq
<1> QED BY <1>5, SeqLen, FirstFits

\* A method call is answered at once, or enters a function.
LEMMA DispatchFits ==
  ASSUME MachineInv, Running, Ready(Top), NEW d \in Dests(Top), NEW v, NEW m, NEW args,
         DispatchMethodCall(d, v, m, args), fns' = fns
  PROVE  StackFits'
<1> USE DEF MachineInv
<1>1. CASE Builtin(d, v, m, args)
  <2> DEFINE w == Write(Top, d, BuiltinAnswer(v, m))
             elements == IF m = "each" /\ v[1] = "Array" /\ args # <<>> /\ args[1][1] = "Sym"
                         THEN [k \in 1 .. Len(arrays[v[2]]) |-> <<arrays[v[2]][k], args[1][2]>>] ELSE <<>>
             x == Advance(w)
             y == [x EXCEPT !.todo = elements \o @]
  <2>1. FrameOK(Top) /\ Executable(fns[Top.fn])
    BY TopFits
  <2>2. /\ FrameOK(w)
        /\ w.fn = Top.fn /\ w.dest = Top.dest /\ w.at = Top.at /\ w.pc = Top.pc /\ w.todo = Top.todo
    BY <2>1, WriteFits
  <2>3. SetTop(y)
    BY <1>1 DEF Builtin
  <2> HIDE DEF w, elements
  <2>4. Ready(w)
    BY <2>2 DEF Ready
  <2>5. FrameOK(x) /\ x.fn = Top.fn /\ x.dest = Top.dest
    BY <2>1, <2>2, <2>4, AdvanceFits
  <2> HIDE DEF x
  <2>6. /\ DOMAIN y = FrameFields
        /\ y.fn = x.fn /\ y.dest = x.dest /\ y.at = x.at /\ y.pc = x.pc /\ y.regs = x.regs
    BY <2>5 DEF FrameOK, FrameFields
  <2> HIDE DEF y
  <2>7. FrameOK(y)
    BY <2>5, <2>6 DEF FrameOK, FrameFits
  <2> QED BY <2>3, <2>5, <2>6, <2>7, SetTopFits
<1>2. CASE NewObject(d, v, args)
  <2>1. CASE v[2][1] = "Class" /\ <<"inst", v[2][2], "initialize">> \in loaded
    <3> DEFINE object == Object(v[2], nextObj)
               init == <<"inst", v[2][2], "initialize">>
    <3>1. Enter(init, <<object>> \o args, d, <<object>>)
      BY <1>2, <2>1 DEF NewObject
    <3>2. init \in DOMAIN fns
      BY <2>1
    <3> HIDE DEF object, init
    <3> QED BY <3>1, <3>2, EnterFits
  <2>2. CASE ~(v[2][1] = "Class" /\ <<"inst", v[2][2], "initialize">> \in loaded)
    <3>1. Answer(d, Object(v[2], nextObj))
      BY <1>2, <2>2 DEF NewObject
    <3> QED BY <3>1, AnswerFits
  <2> QED BY <2>1, <2>2
<1>3. CASE UserCall(d, v, m, args)
  <2>1. \/ Answer(d, NilV)
        \/ \E name, passed : Found(Candidates(v, name)) # {} /\ Enter(First(Candidates(v, name)), <<v>> \o passed, d, <<>>)
    BY <1>3 DEF UserCall
  <2>2. CASE Answer(d, NilV)
    BY <2>2, AnswerFits
  <2>3. CASE \E name, passed : Found(Candidates(v, name)) # {} /\ Enter(First(Candidates(v, name)), <<v>> \o passed, d, <<>>)
    <3>1. PICK name, passed : Found(Candidates(v, name)) # {} /\ Enter(First(Candidates(v, name)), <<v>> \o passed, d, <<>>)
      BY <2>3
    <3>2. First(Candidates(v, name)) \in DOMAIN fns
      BY <3>1, CandidatesFit
    <3> QED BY <3>1, <3>2, EnterFits
  <2> QED BY <2>1, <2>2, <2>3
<1> QED BY <1>1, <1>2, <1>3 DEF DispatchMethodCall

\* A call of a name.
LEMMA DispatchCallFits ==
  ASSUME MachineInv, Running, Ready(Top), NEW d \in Dests(Top), NEW f, NEW args,
         DispatchCall(d, f, args), fns' = fns
  PROVE  StackFits'
<1>1. CASE \E v : Answer(d, v)
  BY <1>1, AnswerFits
<1>2. CASE <<"fn", f>> \in loaded /\ Enter(<<"fn", f>>, args, d, <<>>)
  BY <1>2, EnterFits DEF MachineInv
<1>3. CASE DispatchMethodCall(d, SelfV, f, <<SelfV>> \o args)
  BY <1>3, DispatchFits
<1>4. CASE f \in {"puts", "print", "p", "rb_ary_new", "rb_hash_new", "rb_yield"}
  BY <1>1, <1>4 DEF DispatchCall
<1>5. CASE f \notin {"puts", "print", "p", "rb_ary_new", "rb_hash_new", "rb_yield"}
  BY <1>1, <1>2, <1>3, <1>5 DEF DispatchCall
<1> QED BY <1>4, <1>5

-----------------------------------------------------------------------------
(* One step of the interpreter *)

\* A jump leads to the first instruction of one of the function's blocks.
LEMMA JumpFits ==
  ASSUME MachineInv, Jump
  PROVE  StackFits'
<1> DEFINE f == fns[Top.fn]
           b == f.blocks[BlockAt(f, Top.at)]
           l == IF b.term.t = "Branch" \/ Truthy(Reg(b.term.r)) THEN b.term.to[1] ELSE b.term.to[2]
           w == [Top EXCEPT !.pc = 1, !.at = l]
<1>1. Running /\ b = CurrentBlockOf /\ fns' = fns
  BY DEF Jump, AtTerminator, CurrentBlockOf, BlocksOf
<1>2. FrameOK(Top) /\ Executable(f)
  BY <1>1, TopFits
<1>3. BlockAt(f, Top.at) \in 1 .. Len(f.blocks)
  BY <1>2, BlockAtFits DEF FrameOK, FrameFits
<1>4. l \in Labels(f)
  <2>1. b.term.t \in {"Branch", "CondBranch"}
    BY <1>1 DEF Jump
  <2>2. /\ b.term.t \in {"Branch", "CondBranch"} => b.term.to[1] \in Labels(f)
        /\ b.term.t = "CondBranch" => b.term.to[2] \in Labels(f)
    BY <1>2, <1>3 DEF Executable
  <2> QED BY <2>1, <2>2
<1>5. SetTop(w)
  BY <1>1 DEF Jump
<1> HIDE DEF l
<1>6. /\ DOMAIN w = FrameFields
      /\ w.fn = Top.fn /\ w.dest = Top.dest /\ w.at = l /\ w.pc = 1 /\ w.regs = Top.regs
  BY <1>2 DEF FrameOK, FrameFields
<1> HIDE DEF w
<1>7. BlockAt(f, l) \in 1 .. Len(f.blocks)
  BY <1>4, BlockAtFits
<1>8. Len(f.blocks[BlockAt(f, l)].insts) \in Nat
  BY <1>2, <1>7 DEF Executable
<1>9. 1 \in 1 .. Len(f.blocks[BlockAt(f, l)].insts) + 1
  <2>1. \A m \in Nat : 1 \in 1 .. m + 1
    OBVIOUS
  <2> QED BY <1>8, <2>1
<1>10. FrameOK(w)
  BY <1>2, <1>4, <1>6, <1>9 DEF FrameOK, FrameFits
<1> QED BY <1>1, <1>5, <1>6, <1>10, SetTopFits

\* A result goes to the register of the caller that waits for it.
LEMMA ReturnFits ==
  ASSUME MachineInv, ReturnFrom
  PROVE  StackFits'
<1> DEFINE n == Len(frames)
           s == SubSeq(frames, 1, n - 1)
<1>1. Running /\ IsSeq(frames) /\ fns' = fns
  BY DEF ReturnFrom, MachineInv, StackFits
<1>2. PICK kept : frames' = IF n = 1 THEN <<>> ELSE [s EXCEPT ![n - 1] = Write(@, Top.dest, kept)]
  BY DEF ReturnFrom
<1>3. CASE n = 1
  <2>1. frames' = <<>> /\ <<>> \in Seq({}) /\ Len(<<>>) = 0
    BY <1>2, <1>3
  <2>2. IsSeq(frames') /\ Len(frames') = 0
    BY <2>1 DEF IsSeq
  <2> QED BY <2>2 DEF StackFits
<1>4. CASE n # 1
  <2>1. /\ IsSeq(s) /\ n \in Nat \ {0} /\ Len(s) = n - 1
        /\ \A i \in 1 .. n - 1 : s[i] = frames[i]
    BY <1>1, FrontIsSeq DEF Running
  <2>2. PICK m \in Nat \ {0} : n = m + 1 /\ n - 1 = m
    <3>1. n - 1 \in Nat \ {0} /\ n = (n - 1) + 1
      BY <1>4, <2>1
    <3> QED BY <3>1
  <2> DEFINE w == Write(frames[m], Top.dest, kept)
             t == [s EXCEPT ![m] = w]
  <2>3. FrameOK(frames[m]) /\ Top.dest \in Dests(frames[m])
    <3>1. m \in 1 .. n /\ n \in 2 .. n /\ n - 1 = m
      BY <2>2
    <3>2. FrameOK(frames[m]) /\ frames[n].dest \in Dests(frames[n - 1])
      BY <3>1 DEF MachineInv, StackFits
    <3> QED BY <3>1, <3>2 DEF Top
  <2>4. FrameOK(w) /\ w.fn = frames[m].fn /\ w.dest = frames[m].dest
    BY <2>3, WriteFits
  <2>5. frames' = t
    <3>1. s[m] = frames[m] /\ frames' = [s EXCEPT ![m] = Write(s[m], Top.dest, kept)]
      BY <1>2, <1>4, <2>1, <2>2
    <3> QED BY <3>1
  <2>6. Len(s) = m /\ s # <<>>
    BY <2>1, <2>2
  <2> HIDE DEF w, s
  <2>7. IsSeq(t) /\ Len(t) = m /\ t[m] = w /\ \A i \in 1 .. m : i # m => t[i] = s[i]
    <3>1. t = [s EXCEPT ![Len(s)] = w]
      BY <2>6
    <3>2. /\ IsSeq([s EXCEPT ![Len(s)] = w]) /\ Len([s EXCEPT ![Len(s)] = w]) = Len(s)
          /\ [s EXCEPT ![Len(s)] = w][Len(s)] = w
          /\ \A i \in 1 .. Len(s) : i # Len(s) => [s EXCEPT ![Len(s)] = w][i] = s[i]
      <4>1. IsSeq(s) /\ s # <<>>
        BY <2>1, <2>6
      <4> HIDE DEF t
      <4> QED BY <4>1, ReplaceIsSeq
    <3> HIDE DEF t
    <3> QED BY <2>6, <3>1, <3>2
  <2> HIDE DEF t
  <2>8. ASSUME NEW i \in 1 .. m
        PROVE  FrameOK(frames'[i]) /\ frames'[i].fn = frames[i].fn /\ frames'[i].dest = frames[i].dest
    <3>1. CASE i = m
      BY <2>4, <2>5, <2>7, <3>1
    <3>2. CASE i # m
      <4>1. frames'[i] = frames[i] /\ i \in 1 .. n
        BY <2>1, <2>2, <2>5, <2>7, <3>2
      <4> QED BY <4>1 DEF MachineInv, StackFits
    <3> QED BY <3>1, <3>2
  <2>9. IsSeq(frames') /\ Len(frames') = m
    BY <2>5, <2>7
  <2>10. \A i \in 1 .. Len(frames') : FrameOK(frames[i])'
    BY <1>1, <2>8, <2>9 DEF FrameOK, FrameFits
  <2>11. ASSUME NEW i \in 2 .. Len(frames') PROVE frames'[i].dest \in Dests(frames[i - 1])'
    <3>1. i \in 1 .. m /\ i - 1 \in 1 .. m /\ i \in 2 .. n
      BY <2>2, <2>9
    <3>2. frames[i].dest \in Dests(frames[i - 1])
      BY <3>1 DEF MachineInv, StackFits
    <3> QED BY <1>1, <2>8, <3>1, <3>2 DEF Dests
  <2> QED BY <2>9, <2>10, <2>11 DEF StackFits
<1> QED BY <1>3, <1>4

\* Every step of the interpreter keeps the functions, and the stack fits.
LEMMA StepFits ==
  ASSUME MachineInv, Step
  PROVE  MachineInv'
<1>1. fns' = fns /\ loaded' = loaded
  BY DEF Step, Compute, StoreValue, Define, CallFunction, CallMethod, InvokeBlock, EachElement, Jump, ReturnFrom
<1>2. ASSUME AtInstruction PROVE Running /\ Ready(Top) /\ Current.d \in Dests(Top)
  BY <1>2, CurrentFits DEF AtInstruction
<1>3. ASSUME Compute PROVE StackFits'
  BY <1>1, <1>2, <1>3, AnswerFits DEF Compute
<1>4. ASSUME StoreValue PROVE StackFits'
  <2>1. AtInstruction
    BY <1>4 DEF StoreValue
  <2>2. PICK w : (w = Top \/ \E vars : w = [Top EXCEPT !.vars = vars]) /\ SetTop(Advance(w))
    BY <1>4 DEF StoreValue
  <2>3. FrameOK(Top) /\ Executable(fns[Top.fn])
    BY <1>2, <2>1, TopFits
  <2>4. /\ DOMAIN w = FrameFields
        /\ w.fn = Top.fn /\ w.dest = Top.dest /\ w.at = Top.at /\ w.pc = Top.pc /\ w.todo = Top.todo /\ w.regs = Top.regs
    BY <2>2, <2>3 DEF FrameOK, FrameFields
  <2>5. FrameOK(w) /\ Ready(w)
    BY <1>2, <2>1, <2>3, <2>4 DEF FrameOK, FrameFits, Ready
  <2>6. FrameOK(Advance(w)) /\ Advance(w).fn = w.fn /\ Advance(w).dest = w.dest
    BY <2>3, <2>4, <2>5, AdvanceFits
  <2>7. StackFits'
    BY <1>1, <1>2, <2>1, <2>2, <2>4, <2>6, SetTopFits
  <2> QED BY <2>7
<1>5. ASSUME Define PROVE StackFits'
  BY <1>1, <1>2, <1>5, AnswerFits DEF Define
<1>6. ASSUME CallFunction PROVE StackFits'
  BY <1>1, <1>2, <1>6, DispatchCallFits DEF CallFunction
<1>7. ASSUME CallMethod PROVE StackFits'
  BY <1>1, <1>2, <1>7, DispatchFits, AnswerFits DEF CallMethod
<1>8. ASSUME InvokeBlock PROVE StackFits'
  BY <1>1, <1>2, <1>8, EnterFits, AnswerFits DEF InvokeBlock, MachineInv
<1>9. ASSUME EachElement PROVE StackFits'
  <2>1. Running /\ Ready(Top) /\ NoReg \in Dests(Top)
    BY <1>9 DEF EachElement, Ready, Dests
  <2> QED BY <1>1, <1>9, <2>1, DispatchFits DEF EachElement
<1>10. ASSUME Jump PROVE StackFits'
  BY <1>10, JumpFits
<1>11. ASSUME ReturnFrom PROVE StackFits'
  BY <1>11, ReturnFits
<1>12. StackFits'
  BY <1>3, <1>4, <1>5, <1>6, <1>7, <1>8, <1>9, <1>10, <1>11 DEF Step, MachineInv
<1> QED BY <1>1, <1>12 DEF MachineInv

-----------------------------------------------------------------------------
(* Loading functions, and the passes before *)

\* The MIR is a sequence of functions that can be run.
MirRuns == Len(mir) \in Nat /\ \A n \in 1 .. Len(mir) : Executable(mir[n])

\* What is loaded under a name is a function of the MIR.
LEMMA LastOfNameFits ==
  ASSUME MirRuns
  PROVE  /\ DOMAIN LastOfName(mir) = {mir[k].name : k \in 1 .. Len(mir)}
         /\ \A n \in DOMAIN LastOfName(mir) : Executable(LastOfName(mir)[n])
<1> DEFINE names == [k \in 1 .. Len(mir) |-> mir[k].name]
<1>1. names \in Seq({mir[k].name : k \in 1 .. Len(mir)}) /\ Len(names) = Len(mir) /\ Len(mir) \in Nat
  BY DEF MirRuns
<1>2. LastOfName(mir) = [n \in {names[k] : k \in 1 .. Len(mir)} |-> mir[LastAt(names, n)]]
  BY DEF LastOfName
<1>3. {names[k] : k \in 1 .. Len(mir)} = {mir[k].name : k \in 1 .. Len(mir)}
  OBVIOUS
<1> HIDE DEF names
<1>4. ASSUME NEW n \in {names[k] : k \in 1 .. Len(mir)} PROVE LastAt(names, n) \in 1 .. Len(mir)
  BY <1>1, LastAtFits
<1> QED BY <1>2, <1>3, <1>4 DEF MirRuns

\* A diagnostic of the lexer or the parser ends a build or a run: what
\* either analyzes, emits or interprets had none (pipeline.rs).
DiagnosedIsRejected ==
  route \in Checked /\ stage \notin {"source", "tokens", "tree", "hung", "rejected"} => diagnostics = 0

\* The front end has what its passes answered.
FrontInv ==
  /\ stage \in Stages /\ route \in Routes /\ diagnostics \in Nat
  /\ stage \in {"source", "tokens"} => source \in Sources
  /\ stage = "source" => diagnostics = 0
  /\ stage = "tokens" => tokens = ScanText(source.text).tokens
  /\ DiagnosedIsRejected

\* The inductive invariant: only the interpreter has frames, and what is to
\* be called is there.
PipelineInv ==
  /\ FrontInv
  /\ stage = "emitted" => MirRuns
  /\ stage \notin {"running", "done"} => frames = <<>>
  /\ IsSeq(calls) /\ \A i \in 1 .. Len(calls) : calls[i] \in DOMAIN fns
  /\ MachineInv

LEMMA EmptyIsSeq == IsSeq(<<>>) /\ Len(<<>>) = 0
<1>1. <<>> \in Seq({})
  OBVIOUS
<1> QED BY <1>1 DEF IsSeq

\* Without frames, functions that can be run are all the machine needs.
LEMMA EmptyStackFits ==
  ASSUME frames = <<>>
  PROVE  StackFits
BY EmptyIsSeq DEF StackFits

LEMMA PipelineInit == Init => PipelineInv
<1> SUFFICES ASSUME Init PROVE PipelineInv
  OBVIOUS
<1>1. MachineInv
  BY EmptyStackFits DEF Init, InterpreterInit, MachineInv, Nothing
<1>2. FrontInv
  BY DEF Init, Stages, FrontInv, DiagnosedIsRejected
<1> QED BY <1>1, <1>2, EmptyIsSeq DEF Init, InterpreterInit, PipelineInv

\* A pass leaves the machine alone.
LEMMA PassFits ==
  ASSUME MachineInv, UNCHANGED machine
  PROVE  MachineInv'
BY DEF MachineInv, machine, StackFits, FrameOK, FrameFits, Dests

\* The MIR is given to the interpreter.
LEMMA StartFits ==
  ASSUME PipelineInv, MirFits, StartInterpreter
  PROVE  /\ MachineInv'
         /\ IsSeq(calls') /\ \A i \in 1 .. Len(calls') : calls'[i] \in DOMAIN fns'
<1>1. MirRuns
  BY DEF StartInterpreter, Compiled, MirFits, MirRuns, PipelineInv
<1>2. fns' = LastOfName(mir) /\ frames' = frames
  BY DEF StartInterpreter, LoadModule
<1>3. /\ DOMAIN fns' = {mir[k].name : k \in 1 .. Len(mir)}
      /\ \A n \in DOMAIN fns' : Executable(fns'[n])
  BY <1>1, <1>2, LastOfNameFits
<1>4. loaded' \subseteq DOMAIN fns'
  BY DEF StartInterpreter, LoadModule
<1>5. frames = <<>>
  BY DEF PipelineInv, StartInterpreter, Compiled
<1>6. StackFits'
  BY <1>2, <1>5, EmptyIsSeq DEF StackFits
<1>7. MachineInv'
  BY <1>3, <1>4, <1>6 DEF MachineInv
<1>8. CASE route = "interp"
  <2> DEFINE s == [k \in 1 .. Len(mir) |-> mir[k].name]
  <2>1. calls' = s
    BY <1>8 DEF StartInterpreter
  <2>2. s \in Seq(DOMAIN fns') /\ Len(s) = Len(mir)
    BY <1>1, <1>3 DEF MirRuns
  <2>3. \A i \in 1 .. Len(mir) : s[i] \in DOMAIN fns'
    BY <1>3
  <2> HIDE DEF s
  <2> QED BY <1>7, <2>1, <2>2, <2>3 DEF IsSeq
<1>9. CASE route # "interp"
  <2>1. CASE <<"fn", "main">> \in loaded'
    <3>1. calls' = <<<<"fn", "main">>>>
      BY <1>9, <2>1 DEF StartInterpreter
    <3>2. calls' \in Seq(DOMAIN fns') /\ Len(calls') = 1 /\ calls'[1] \in DOMAIN fns'
      BY <1>4, <2>1, <3>1
    <3>3. \A i \in 1 .. Len(calls') : i = 1
      BY <3>2
    <3> QED BY <1>7, <3>2, <3>3 DEF IsSeq
  <2>2. CASE <<"fn", "main">> \notin loaded'
    <3>1. calls' = <<>>
      BY <1>9, <2>2 DEF StartInterpreter
    <3> QED BY <1>7, <3>1, EmptyIsSeq
  <2> QED BY <2>1, <2>2
<1> QED BY <1>8, <1>9

\* The next function is called from outside.
LEMMA CallNextFits ==
  ASSUME PipelineInv, CallNext
  PROVE  /\ MachineInv'
         /\ IsSeq(calls') /\ \A i \in 1 .. Len(calls') : calls'[i] \in DOMAIN fns'
<1> DEFINE f == Head(calls)
           g == Frame(f, <<>>, NoReg, <<>>)
<1>1. frames' = <<g>> /\ fns' = fns /\ loaded' = loaded /\ calls' = Tail(calls) /\ calls # <<>>
  BY DEF CallNext, CallFromOutside
<1>2. /\ IsSeq(Tail(calls)) /\ Len(calls) \in Nat \ {0} /\ Len(Tail(calls)) = Len(calls) - 1
      /\ f = calls[1] /\ \A i \in 1 .. Len(calls) - 1 : Tail(calls)[i] = calls[i + 1]
  BY <1>1, TailIsSeq DEF PipelineInv
<1>3. \A i \in 1 .. Len(calls) - 1 : i + 1 \in 1 .. Len(calls)
  BY <1>2
<1>4. 1 \in 1 .. Len(calls)
  BY <1>2
<1>5. \A i \in 1 .. Len(calls') : calls'[i] \in DOMAIN fns'
  BY <1>1, <1>2, <1>3 DEF PipelineInv
<1>6. f \in DOMAIN fns /\ Executable(fns[f])
  BY <1>2, <1>4 DEF PipelineInv, MachineInv
<1>7. FrameOK(g)
  BY <1>6, FrameEnters
<1> HIDE DEF g
<1>8. frames' \in Seq({g}) /\ Len(frames') = 1 /\ frames'[1] = g
  BY <1>1
<1>9. \A i \in 1 .. Len(frames') : frames'[i] = g /\ i = 1
  BY <1>8
<1>10. \A i \in 1 .. Len(frames') : FrameOK(frames[i])'
  BY <1>1, <1>7, <1>9 DEF FrameOK, FrameFits
<1>11. \A i \in 2 .. Len(frames') : FALSE
  BY <1>8
<1>12. IsSeq(frames')
  BY <1>8 DEF IsSeq
<1>13. StackFits'
  BY <1>10, <1>11, <1>12 DEF StackFits
<1> QED BY <1>1, <1>2, <1>5, <1>13 DEF PipelineInv, MachineInv

\* What every step leaves of the front end's invariant.
LEMMA FrontStep ==
  ASSUME FrontInv, [Next]_pipelineVars
  PROVE  FrontInv'
<1> USE DEF FrontInv, DiagnosedIsRejected
<1>1. ASSUME UNCHANGED <<compilation, stage>> PROVE FrontInv'
  BY <1>1 DEF compilation
<1>2. CASE Tokenize
  BY <1>2, FrontEndAssumption DEF Tokenize, Stages
<1>3. CASE RejectTokens \/ RejectTree
  BY <1>3 DEF RejectTokens, RejectTree, compilation, Stages
<1>4. CASE Parse
  <2>1. diagnostics' \in Nat
    <3>1. ParseTokens(tokens).errs \in Nat
      BY <1>4, FrontEndAssumption DEF Parse
    <3> QED BY <1>4, <3>1 DEF Parse
  <2> QED BY <1>4, <2>1 DEF Parse, Stages
<1>5. CASE AnalyzeTree \/ LowerToHir \/ FoldHir \/ LowerToMir \/ TuneMir
  BY <1>5 DEF AnalyzeTree, LowerToHir, FoldHir, LowerToMir, TuneMir, Stages, Stops
<1>6. CASE EmitLlvm
  BY <1>6 DEF EmitLlvm, Compiled, Stages
<1>7. CASE StartInterpreter
  BY <1>7 DEF StartInterpreter, Compiled, compilation, Stages
<1>8. CASE CallNext \/ Interpret \/ Rest \/ UNCHANGED pipelineVars
  BY <1>1, <1>8 DEF CallNext, Interpret, Rest, pipelineVars
<1>9. CASE Finish
  BY <1>9 DEF Finish, compilation, Stages
<1> QED BY <1>2, <1>3, <1>4, <1>5, <1>6, <1>7, <1>8, <1>9 DEF Next

\* Every step of a compilation, as long as the MIR fits.
LEMMA PipelineStep ==
  ASSUME PipelineInv, MirFits, [Next]_pipelineVars
  PROVE  PipelineInv'
<1> USE DEF PipelineInv
<1>1. FrontInv'
  BY FrontStep
<1>2. ASSUME UNCHANGED <<stage, mir, calls, machine>> PROVE PipelineInv'
  <2>1. MachineInv'
    BY <1>2, PassFits
  <2> QED BY <1>1, <1>2, <2>1 DEF machine, MirRuns
<1>3. CASE Tokenize \/ Parse \/ RejectTokens \/ RejectTree \/ AnalyzeTree \/ LowerToHir \/ FoldHir \/ LowerToMir \/ TuneMir
  <2>1. /\ UNCHANGED <<calls, machine>>
        /\ stage' # "emitted" /\ stage \notin {"running", "done"}
    BY <1>3
       DEF Tokenize, Parse, RejectTokens, RejectTree, AnalyzeTree, LowerToHir, FoldHir, LowerToMir, TuneMir
  <2>2. MachineInv'
    BY <2>1, PassFits
  <2> QED BY <1>1, <2>1, <2>2 DEF machine
<1>4. CASE EmitLlvm
  <2>1. MachineInv'
    BY <1>4, PassFits DEF EmitLlvm
  <2>2. MirRuns'
    BY <1>4 DEF EmitLlvm, Compiled, MirFits, MirRuns
  <2> QED BY <1>1, <1>4, <2>1, <2>2 DEF EmitLlvm, Compiled, machine
<1>5. CASE StartInterpreter
  BY <1>1, <1>5, StartFits DEF StartInterpreter
<1>6. CASE CallNext
  BY <1>1, <1>6, CallNextFits DEF CallNext
<1>7. CASE Interpret
  <2>1. MachineInv' /\ fns' = fns
    BY <1>7, StepFits
       DEF Interpret, Step, Compute, StoreValue, Define, CallFunction, CallMethod, InvokeBlock, EachElement, Jump, ReturnFrom
  <2> QED BY <1>1, <1>7, <2>1 DEF Interpret
<1>8. CASE Finish
  <2>1. MachineInv'
    BY <1>8, PassFits DEF Finish
  <2> QED BY <1>1, <1>8, <2>1 DEF Finish, machine
<1>9. CASE Rest \/ UNCHANGED pipelineVars
  BY <1>2, <1>9 DEF Rest, pipelineVars, compilation
<1> QED BY <1>3, <1>4, <1>5, <1>6, <1>7, <1>8, <1>9 DEF Next

-----------------------------------------------------------------------------
(* What the invariant says *)

LEMMA InvTypes == PipelineInv => TypeOK
BY DEF PipelineInv, FrontInv, MachineInv, StackFits, FrameOK, TypeOK

\* Whatever the sources, the passes and the values: as long as the MIR that
\* the lowering and the optimizer leave fits, the functions that are called
\* are there, and every frame of the interpreter is at an instruction of a
\* block of its function and has no register the function has not
\* (interpreter.rs call_function, execute_block).
THEOREM CompileTypeCorrect == Spec /\ []MirFits => []TypeOK
<1>1. PipelineInv /\ MirFits /\ [Next]_pipelineVars => PipelineInv'
  BY PipelineStep
<1> QED BY <1>1, PipelineInit, InvTypes, PTL DEF Spec

\* A diagnostic of the lexer or the parser ends a build or a run, whatever
\* the passes make of the program (DiagnosedIsRejected, pipeline.rs).
THEOREM DiagnosedStops == Spec => []DiagnosedIsRejected
<1>1. Init => FrontInv
  BY PipelineInit DEF PipelineInv
<1>2. FrontInv /\ [Next]_pipelineVars => FrontInv'
  BY FrontStep
<1>3. FrontInv => DiagnosedIsRejected
  BY DEF FrontInv
<1> QED BY <1>1, <1>2, <1>3, PTL DEF Spec
=============================================================================
