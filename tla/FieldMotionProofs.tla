------------------------- MODULE FieldMotionProofs -------------------------
(***************************************************************************)
(* Proofs about FieldMotion: types, whose order a movement is, where it    *)
(* ends and that its steps are never passed, for any number of entities,   *)
(* places, directions and any scripts.                                     *)
(***************************************************************************)
EXTENDS FieldMotion, TLAPS

----------------------------------------------------------------------------
(***************************************************************************)
(* The inductive invariant                                                 *)
(***************************************************************************)
\* Every script stands on one of its entity's instructions, and the one that
\* preempted none never on a RET.
ScriptsOK ==
    /\ \E m \in Maps : words = m.words
    /\ stack \in [Body -> Seq(Instr)]
    /\ \A e \in Body : /\ stack[e] # << >>
                       /\ \A k \in 1 .. Len(stack[e]) : stack[e][k] \in words[e]
                       /\ stack[e][Len(stack[e])].op # "RET"

ModelsOK ==
    /\ pos \in [Body -> Place] /\ dir \in [Body -> Dir] /\ fix \in [Body -> BOOLEAN]
    /\ go \in [Body -> Going] /\ turn \in [Body -> Turning] /\ ofs \in [Body -> Offsetting]
    /\ anim \in [Body -> Animating]
    /\ pcModel \in Body /\ lock \in BOOLEAN
    /\ \A e \in Body : /\ ofs[e].type \in {1, 2} => ofs[e].step <= ofs[e].steps /\ ofs[e].steps > 0
                       /\ turn[e].type \in {1, 2} => turn[e].steps > 0

FrameOK ==
    /\ halted \in BOOLEAN /\ phase \in {"scripts", "anims", "moves"} /\ cur \in Body
    /\ ops \in 1 .. OpsPerTurn /\ asks \in 0 .. MaxAsks
    /\ phase # "scripts" => cur = 0

\* A movement g of a model at p is the order of instruction i: it aims where i
\* does, its steps are inside, and when it is over it has got where it aimed.
InOrder(g, i, p) ==
    g.mode # NoMode =>
        /\ Asks(i, g.mode)
        /\ i.op # "MOVA" => g.end = i.at
        /\ g.mode = Walking /\ i.op # "MOVA" => g.arg = 0
        /\ g.mode = Walking /\ i.op = "MOVA" => g.arg = Reach
        /\ g.mode = Walking /\ g.act = 2 => IF i.op = "MOVA" THEN Dist(p, g.end) <= Reach ELSE p = g.end
        /\ g.mode = Jumping => g.steps > 0
        /\ g.mode = Jumping /\ g.act # 0 => g.step <= g.steps /\ (g.step = g.steps => Reached(p, g.from, g.end, g.steps))
        /\ g.mode = Jumping /\ g.act = 2 => g.step = g.steps
        /\ g.mode \in Ladders /\ g.act # 0 => g.step <= g.steps
        /\ g.mode \in Ladders /\ g.act # 0 /\ g.steps > 0 =>
               (g.step = 0 => p = g.from) /\ (g.step = g.steps => Reached(p, g.from, g.end, g.steps))
        /\ g.mode \in Ladders /\ g.act = 2 => g.steps > 0 /\ g.step \in {0, g.steps}

\* Only the poll that collects it comes between the end of a movement and the
\* next update; CMOVE walks with the direction locked.
GoOK(e) ==
    /\ InOrder(go[e], Now(e), pos[e])
    /\ go[e].mode # NoMode /\ go[e].act = 2 => phase = "scripts" /\ e >= cur
    /\ go[e].mode = Walking /\ Now(e).op = "CMOVE" => fix[e]

MovesOK == \A e \in Body : GoOK(e)

IInv == ScriptsOK /\ ModelsOK /\ FrameOK /\ MovesOK
----------------------------------------------------------------------------
(***************************************************************************)
(* Arithmetic                                                              *)
(***************************************************************************)
LEMMA Sizes ==
    /\ LastBody \in Nat /\ Far \in Nat /\ Stride \in Nat /\ Stride > 0 /\ Reach \in Nat
    /\ FullTurn \in Nat /\ FullTurn > 0
    /\ MaxSteps \in Nat /\ MaxSteps > 0 /\ StepLimit \in Nat /\ StepLimit > MaxSteps
    /\ OpsPerTurn \in Nat /\ OpsPerTurn > 0 /\ MaxDepth \in Nat /\ MaxAsks \in Nat
    /\ MayBlock \subseteq Body /\ Yard \subseteq Place /\ Short \in Nat /\ Rung \in Nat /\ Rung > 0
BY MotionSizes DEF Place

\* A share s of n of a distance k.
LEMMA Share ==
    ASSUME NEW k \in Nat, NEW n \in Nat, n > 0, NEW s \in 0 .. n
    PROVE  /\ (k * s) \div n \in 0 .. k
           /\ s = 0 => (k * s) \div n = 0
           /\ s = n => (k * s) \div n = k
<1> DEFINE q == (k * s) \div n
<1>1. k * s \in Nat /\ k * s <= k * n
  OBVIOUS
<1>2. q \in Int /\ n * q <= k * s /\ k * s < n * q + n
  <2>1. \A x \in Int : x \div n \in Int /\ n * (x \div n) <= x /\ x < n * (x \div n) + n
    OBVIOUS
  <2> QED BY <1>1, <2>1
<1> HIDE DEF q
<1>3. q >= 0
  <2>1. SUFFICES ASSUME q < 0 PROVE FALSE
    BY <1>2
  <2>2. n * q <= -n
    BY <2>1, <1>2
  <2> QED BY <1>1, <1>2, <2>2
<1>4. q <= k
  <2>1. SUFFICES ASSUME q >= k + 1 PROVE FALSE
    BY <1>2
  <2>2. n * q >= n * k + n
    BY <2>1, <1>2
  <2> QED BY <1>1, <1>2, <2>2
<1>5. s = 0 => q = 0
  <2>1. SUFFICES ASSUME s = 0, q >= 1 PROVE FALSE
    BY <1>2, <1>3
  <2>2. n * q >= n /\ k * s = 0
    BY <2>1, <1>2
  <2> QED BY <1>2, <2>2
<1>6. s = n => q = k
  <2>1. SUFFICES ASSUME s = n, q <= k - 1 PROVE FALSE
    BY <1>2, <1>4
  <2>2. n * q <= n * k - n /\ k * s = n * k
    BY <2>1, <1>2
  <2> QED BY <1>2, <2>2
<1> QED BY <1>2, <1>3, <1>4, <1>5, <1>6 DEF q

\* s of the n parts of a distance k that is divided first: the last falls
\* short by the remainder.
LEMMA Parts ==
    ASSUME NEW k \in Nat, NEW n \in Nat, n > 0, NEW s \in 0 .. n
    PROVE  /\ (k \div n) * s \in 0 .. k
           /\ s = 0 => (k \div n) * s = 0
           /\ s = n => k - (k \div n) * s < n
<1> DEFINE q == k \div n
<1>1. q \in Int /\ n * q <= k /\ k < n * q + n
  <2>1. \A x \in Int : x \div n \in Int /\ n * (x \div n) <= x /\ x < n * (x \div n) + n
    OBVIOUS
  <2> QED BY <2>1
<1> HIDE DEF q
<1>2. q >= 0
  <2>1. SUFFICES ASSUME q < 0 PROVE FALSE
    BY <1>1
  <2>2. n * q <= -n
    BY <2>1, <1>1
  <2> QED BY <1>1, <2>2
<1>3. q * s \in Int /\ 0 <= q * s /\ q * s <= n * q
  BY <1>1, <1>2
<1>4. q * s \in 0 .. k
  BY <1>1, <1>3
<1>5. (s = 0 => q * s = 0) /\ (s = n => q * s = n * q)
  BY <1>1
<1>6. s = n => k - q * s < n
  BY <1>1, <1>5
<1> QED BY <1>4, <1>5, <1>6 DEF q

\* FieldCalcLinearStep stays between its ends, begins at the one and reaches
\* the other, or falls short of it by less than its steps if the way is long.
LEMMA LinearBetween ==
    ASSUME NEW p \in Place, NEW q \in Place, NEW n \in Nat, n > 0, NEW s \in 0 .. n
    PROVE  /\ Linear(p, q, n, s) \in Place
           /\ s = 0 => Linear(p, q, n, s) = p
           /\ s = n => Reached(Linear(p, q, n, s), p, q, n)
<1> USE Sizes
<1>1. CASE p <= q
  <2> DEFINE k == q - p
             a == (k * s) \div n
             b == (k \div n) * s
  <2>1. k \in Nat /\ Dist(p, q) = k
    BY <1>1 DEF Place, Dist
  <2> HIDE DEF k
  <2>2. /\ a \in 0 .. k /\ (s = 0 => a = 0) /\ (s = n => a = k)
        /\ b \in 0 .. k /\ (s = 0 => b = 0) /\ (s = n => k - b < n)
    <3>1. a \in 0 .. k /\ (s = 0 => a = 0) /\ (s = n => a = k)
      BY <2>1, Share
    <3>2. b \in 0 .. k /\ (s = 0 => b = 0) /\ (s = n => k - b < n)
      BY <2>1, Parts
    <3> QED BY <3>1, <3>2
  <2>3. Linear(p, q, n, s) = IF k <= Short THEN p + a ELSE p + b
    BY <1>1, <2>1 DEF Linear, Exact, Place, k
  <2> HIDE DEF a, b
  <2>4. \A c \in 0 .. k : p + c \in Place /\ Dist(p + c, q) = k - c
    BY <1>1 DEF Place, Dist, k
  <2>5. CASE k <= Short
    <3>1. Linear(p, q, n, s) = p + a
      BY <2>3, <2>5
    <3>2. s = n => p + a = q
      BY <1>1, <2>2 DEF Place, k
    <3> QED BY <2>1, <2>2, <2>4, <2>5, <3>1, <3>2 DEF Reached, Place
  <2>6. CASE ~(k <= Short)
    <3>1. Linear(p, q, n, s) = p + b
      BY <2>3, <2>6
    <3> QED BY <2>1, <2>2, <2>4, <2>6, <3>1 DEF Reached, Place
  <2> QED BY <2>5, <2>6
<1>2. CASE ~(p <= q)
  <2> DEFINE k == p - q
             a == (k * s) \div n
             b == (k \div n) * s
  <2>1. k \in Nat /\ Dist(p, q) = k
    BY <1>2 DEF Place, Dist
  <2> HIDE DEF k
  <2>2. /\ a \in 0 .. k /\ (s = 0 => a = 0) /\ (s = n => a = k)
        /\ b \in 0 .. k /\ (s = 0 => b = 0) /\ (s = n => k - b < n)
    <3>1. a \in 0 .. k /\ (s = 0 => a = 0) /\ (s = n => a = k)
      BY <2>1, Share
    <3>2. b \in 0 .. k /\ (s = 0 => b = 0) /\ (s = n => k - b < n)
      BY <2>1, Parts
    <3> QED BY <3>1, <3>2
  <2>3. Linear(p, q, n, s) = IF k <= Short THEN p - a ELSE p - b
    BY <1>2, <2>1 DEF Linear, Exact, Place, k
  <2> HIDE DEF a, b
  <2>4. \A c \in 0 .. k : p - c \in Place /\ Dist(p - c, q) = k - c
    BY <1>2 DEF Place, Dist, k
  <2>5. CASE k <= Short
    <3>1. Linear(p, q, n, s) = p - a
      BY <2>3, <2>5
    <3>2. s = n => p - a = q
      BY <1>2, <2>2 DEF Place, k
    <3> QED BY <2>1, <2>2, <2>4, <2>5, <3>1, <3>2 DEF Reached, Place
  <2>6. CASE ~(k <= Short)
    <3>1. Linear(p, q, n, s) = p - b
      BY <2>3, <2>6
    <3> QED BY <2>1, <2>2, <2>4, <2>6, <3>1 DEF Reached, Place
  <2> QED BY <2>5, <2>6
<1> QED BY <1>1, <1>2

\* A direction is taken modulo the circle.
LEMMA LinearDir ==
    ASSUME NEW s \in Int, NEW t \in Int, NEW n \in Nat, n > 0, NEW k \in Nat
    PROVE  /\ Exact(s, t, n, k) % FullTurn \in Dir
           /\ EaseInOut(s, t, n, k) % FullTurn \in Dir
<1>1. \A a, b, c \in Int : Exact(a, b, n, c) \in Int
  <2>1. \A x \in Int : x \div n \in Int
    OBVIOUS
  <2>2. \A a, b, c \in Int : (b - a) * c \in Int /\ (a - b) * c \in Int
    OBVIOUS
  <2>3. \A a, b, c \in Int : ((b - a) * c) \div n \in Int /\ ((a - b) * c) \div n \in Int
    BY <2>1, <2>2
  <2> QED BY <2>3 DEF Exact
<1>2. \A x \in Int : x % FullTurn \in Dir
  BY Sizes DEF Dir
<1>3. k % (2 * n) \in Int /\ 2 * n - (k % (2 * n)) \in Int
  OBVIOUS
<1>4. EaseInOut(s, t, n, k) \in Int
  <2> DEFINE r == k % (2 * n)
  <2>1. (IF r <= n THEN r ELSE 2 * n - r) \in Int
    BY <1>3
  <2> HIDE DEF r
  <2>2. EaseInOut(s, t, n, k) = Exact(s, t, n, IF r <= n THEN r ELSE 2 * n - r)
    BY DEF EaseInOut, r
  <2> QED BY <1>1, <2>1, <2>2
<1> QED BY <1>1, <1>2, <1>4

LEMMA DistTyped ==
    /\ \A p, q \in Place : Dist(p, q) \in Nat /\ (Dist(p, q) = 0 <=> p = q) /\ DirTo(p, q) \in Dir
    /\ \A s, t \in Dir : Dist(s, t) \in Nat
BY Sizes DEF Dist, DirTo, Place, Dir

LEMMA TurnEndTyped ==
    ASSUME NEW s \in Dir, NEW t \in Dir, NEW way \in 0 .. 3
    PROVE  TurnEnd(s, t, way) \in -FullTurn .. 2 * FullTurn
<1>1. \A x \in {t, t - FullTurn, t + FullTurn} : x \in -FullTurn .. 2 * FullTurn
  BY Sizes DEF Dir
<1> QED BY <1>1 DEF TurnEnd
----------------------------------------------------------------------------
(***************************************************************************)
(* Scripts                                                                 *)
(***************************************************************************)
LEMMA WordsTyped ==
    ASSUME ScriptsOK
    PROVE  \A e \in Body : /\ words[e] \subseteq Instr
                           /\ Now(e) \in words[e] /\ Now(e) \in Instr
                           /\ Len(stack[e]) \in Nat /\ Len(stack[e]) > 0
<1>1. words \in [Body -> SUBSET Instr]
  BY MotionWords DEF ScriptsOK
<1>2. ASSUME NEW e \in Body
      PROVE  stack[e] \in Seq(Instr) /\ stack[e] # << >> /\ Len(stack[e]) \in Nat /\ Len(stack[e]) > 0
  <2>1. stack[e] \in Seq(Instr) /\ stack[e] # << >>
    BY DEF ScriptsOK
  <2> QED BY <2>1
<1>3. ASSUME NEW e \in Body PROVE Now(e) \in words[e]
  <2>1. stack[e][1] \in words[e]
    BY <1>2 DEF ScriptsOK
  <2> QED BY <1>2, <2>1 DEF Now
<1> QED BY <1>1, <1>2, <1>3

\* Another instruction on top of the rest of a stack, or none.
LEMMA OnTop ==
    ASSUME NEW W \in SUBSET Instr, NEW s \in Seq(Instr), NEW i \in W,
           \A k \in 1 .. Len(s) : s[k] \in W,
           s # << >> => s[Len(s)].op # "RET",
           i.op = "RET" => s # << >>
    PROVE  LET t == <<i>> \o s IN
           /\ t \in Seq(Instr) /\ t # << >> /\ t[Len(t)].op # "RET"
           /\ \A k \in 1 .. Len(t) : t[k] \in W
           /\ Head(t) = i
<1> DEFINE t == <<i>> \o s
<1>1. /\ t \in Seq(Instr) /\ Len(t) = Len(s) + 1 /\ t[1] = i /\ t # << >>
      /\ \A k \in 1 .. Len(s) : t[k + 1] = s[k]
  OBVIOUS
<1>2. Len(s) \in Nat
  OBVIOUS
<1>3. ASSUME NEW k \in 1 .. Len(t) PROVE t[k] \in W
  <2>1. CASE k = 1
    BY <1>1, <2>1
  <2>2. CASE k # 1
    <3>1. k - 1 \in 1 .. Len(s) /\ t[(k - 1) + 1] = s[k - 1] /\ (k - 1) + 1 = k
      BY <1>1, <1>2, <2>2
    <3> QED BY <3>1
  <2> QED BY <2>1, <2>2
<1>4. t[Len(t)].op # "RET"
  <2>1. CASE s = << >>
    <3>1. Len(t) = 1
      BY <1>1, <2>1
    <3> QED BY <1>1, <2>1, <3>1
  <2>2. CASE s # << >>
    <3>1. Len(s) \in 1 .. Len(s)
      BY <2>2
    <3>2. t[Len(s) + 1] = s[Len(s)]
      BY <1>1, <3>1
    <3> QED BY <1>1, <2>2, <3>2
  <2> QED BY <2>1, <2>2
<1>5. Head(t) = i
  BY <1>1
<1> QED BY <1>1, <1>3, <1>4, <1>5

\* What is left below the first n scripts.
LEMMA Below ==
    ASSUME NEW W \in SUBSET Instr, NEW s \in Seq(Instr), s # << >>,
           \A k \in 1 .. Len(s) : s[k] \in W,
           s[Len(s)].op # "RET",
           NEW n \in 1 .. Len(s)
    PROVE  LET t == SubSeq(s, n + 1, Len(s)) IN
           /\ t \in Seq(Instr)
           /\ \A k \in 1 .. Len(t) : t[k] \in W
           /\ t # << >> => t[Len(t)].op # "RET"
           /\ n = 1 => t = Tail(s)
           /\ Len(t) = Len(s) - n
<1> DEFINE t == SubSeq(s, n + 1, Len(s))
<1>1. Len(s) \in Nat /\ Len(s) > 0
  OBVIOUS
<1>2. /\ t \in Seq(Instr) /\ Len(t) = Len(s) - n
      /\ \A k \in 1 .. Len(s) - n : t[k] = s[k + n]
  BY <1>1
<1>3. \A k \in 1 .. Len(t) : t[k] \in W
  BY <1>1, <1>2
<1>4. t # << >> => t[Len(t)].op # "RET"
  <2>1. SUFFICES ASSUME t # << >> PROVE t[Len(t)].op # "RET"
    OBVIOUS
  <2>2. Len(t) > 0
    BY <1>2, <2>1
  <2>3. t[Len(s) - n] = s[(Len(s) - n) + n] /\ (Len(s) - n) + n = Len(s)
    BY <1>1, <1>2, <2>2
  <2> QED BY <1>2, <2>3
<1>5. n = 1 => t = Tail(s)
  BY <1>1
<1> QED BY <1>2, <1>3, <1>4, <1>5

LEMMA ScriptKept ==
    ASSUME ScriptsOK, NEW e \in Body, NEW W, W = words[e], words' = words,
           NEW t \in Seq(Instr), t # << >>, t[Len(t)].op # "RET",
           \A k \in 1 .. Len(t) : t[k] \in W,
           stack' = [stack EXCEPT ![e] = t]
    PROVE  ScriptsOK'
<1>1. stack' \in [Body -> Seq(Instr)] /\ stack'[e] = t /\ \A d \in Body : d # e => stack'[d] = stack[d]
  BY DEF ScriptsOK
<1>2. ASSUME NEW d \in Body
      PROVE  /\ stack'[d] # << >>
             /\ \A k \in 1 .. Len(stack'[d]) : stack'[d][k] \in words'[d]
             /\ stack'[d][Len(stack'[d])].op # "RET"
  <2>1. CASE d = e
    BY <1>1, <2>1
  <2>2. CASE d # e
    BY <1>1, <2>2 DEF ScriptsOK
  <2> QED BY <2>1, <2>2
<1> QED BY <1>1, <1>2 DEF ScriptsOK

LEMMA StackOf ==
    ASSUME ScriptsOK, NEW e \in Body
    PROVE  /\ words[e] \in SUBSET Instr
           /\ stack[e] \in Seq(Instr) /\ stack[e] # << >>
           /\ \A k \in 1 .. Len(stack[e]) : stack[e][k] \in words[e]
           /\ stack[e][Len(stack[e])].op # "RET"
           /\ 1 \in 1 .. Len(stack[e])
           /\ Len(Tail(stack[e])) = Len(stack[e]) - 1 /\ Len(stack[e]) \in Nat
BY WordsTyped DEF ScriptsOK

LEMMA StepPCKept ==
    ASSUME ScriptsOK, cur \in Body, StepPC, words' = words
    PROVE  ScriptsOK'
<1>1. PICK i \in words[cur] :
          /\ i.op = "RET" => Len(stack[cur]) > 1
          /\ stack' = [stack EXCEPT ![cur] = <<i>> \o Tail(stack[cur])]
  BY DEF StepPC, Follows
<1> DEFINE s == Tail(stack[cur])
<1>2. Len(s) = Len(stack[cur]) - 1
  BY StackOf
<1>3. /\ s \in Seq(Instr)
      /\ \A k \in 1 .. Len(s) : s[k] \in words[cur]
      /\ s # << >> => s[Len(s)].op # "RET"
  BY StackOf, Below
<1>4. i.op = "RET" => s # << >>
  <2>1. Len(stack[cur]) > 1 => Len(s) # 0
    BY <1>2, StackOf
  <2>2. \A t \in Seq(Instr) : Len(t) # 0 => t # << >>
    OBVIOUS
  <2> QED BY <1>1, <1>3, <2>1, <2>2
<1> HIDE DEF s
<1>5. LET t == <<i>> \o s IN
      t \in Seq(Instr) /\ t # << >> /\ t[Len(t)].op # "RET" /\ \A k \in 1 .. Len(t) : t[k] \in words[cur]
  BY <1>3, <1>4, OnTop, StackOf
<1>6. stack' = [stack EXCEPT ![cur] = <<i>> \o s]
  BY <1>1 DEF s
<1> QED BY <1>5, <1>6, ScriptKept

LEMMA RetKept ==
    ASSUME ScriptsOK, cur \in Body, Ret
    PROVE  ScriptsOK'
<1> DEFINE s == Tail(stack[cur])
<1>1. words' = words /\ stack' = [stack EXCEPT ![cur] = s] /\ I.op = "RET"
  BY DEF Ret, Running, Fixed
<1>2. /\ s \in Seq(Instr) /\ Len(s) = Len(stack[cur]) - 1
      /\ \A k \in 1 .. Len(s) : s[k] \in words[cur]
      /\ s # << >> => s[Len(s)].op # "RET"
  BY StackOf, Below
<1>3. s # << >>
  <2> HIDE DEF s
  <2>1. SUFFICES ASSUME s = << >> PROVE FALSE
    OBVIOUS
  <2>2. Len(stack[cur]) = 1
    BY <1>2, <2>1, StackOf
  <2>3. stack[cur][1].op # "RET" /\ Head(stack[cur]) = stack[cur][1]
    BY <2>2, StackOf
  <2> QED BY <1>1, <2>3 DEF I, Now
<1> HIDE DEF s
<1> QED BY <1>1, <1>2, <1>3, ScriptKept

LEMMA RettoKept ==
    ASSUME ScriptsOK, cur \in Body, Retto
    PROVE  ScriptsOK'
<1>1. PICK i \in words[cur], n \in 0 .. Len(stack[cur]) - 1 :
          LET rest == SubSeq(stack[cur], n + 2, Len(stack[cur])) IN
          /\ i.op = "RET" => rest # << >>
          /\ stack' = [stack EXCEPT ![cur] = <<i>> \o rest]
  BY DEF Retto
<1> DEFINE s == SubSeq(stack[cur], (n + 1) + 1, Len(stack[cur]))
<1>2. n + 1 \in 1 .. Len(stack[cur]) /\ (n + 1) + 1 = n + 2
  BY StackOf
<1>3. /\ s \in Seq(Instr)
      /\ \A k \in 1 .. Len(s) : s[k] \in words[cur]
      /\ s # << >> => s[Len(s)].op # "RET"
  BY <1>2, StackOf, Below
<1>4. stack' = [stack EXCEPT ![cur] = <<i>> \o s] /\ (i.op = "RET" => s # << >>)
  BY <1>1, <1>2
<1> HIDE DEF s
<1>5. LET t == <<i>> \o s IN
      t \in Seq(Instr) /\ t # << >> /\ t[Len(t)].op # "RET" /\ \A k \in 1 .. Len(t) : t[k] \in words[cur]
  BY <1>3, <1>4, OnTop, StackOf
<1>6. words' = words
  BY DEF Retto, Fixed
<1> QED BY <1>4, <1>5, <1>6, ScriptKept

LEMMA RequestScripts ==
    ASSUME ScriptsOK, NEW e \in Body, Request(e)
    PROVE  ScriptsOK'
<1>1. PICK i \in words[e] : stack' = [stack EXCEPT ![e] = <<i>> \o stack[e]]
  BY DEF Request
<1>2. LET t == <<i>> \o stack[e] IN
      t \in Seq(Instr) /\ t # << >> /\ t[Len(t)].op # "RET" /\ \A k \in 1 .. Len(t) : t[k] \in words[e]
  BY OnTop, StackOf
<1>3. words' = words
  BY DEF Request
<1> QED BY <1>1, <1>2, <1>3, ScriptKept
----------------------------------------------------------------------------
(***************************************************************************)
(* What all handlers do                                                    *)
(***************************************************************************)
Takes == EndTurn \/ UseOp
Moving == {"MOVE", "FMOVE", "CMOVE", "MOVA", "JUMP", "LADER"}

LEMMA PollsTake ==
    /\ Poll        => Takes /\ stack' = stack
    /\ Done        => Takes /\ StepPC
    /\ DoneEndTurn => Takes /\ StepPC
BY DEF Poll, Done, DoneEndTurn, Takes

\* A handler runs in the scripts' part of the frame, takes the turn on, and
\* leaves the program counter, moves it, returns or drops scripts.
Handles(op) == /\ Running(op) /\ Takes /\ Fixed
               /\ stack' = stack \/ StepPC \/ Ret \/ Retto

LEMMA WalkHandles ==
    /\ Move => Handles({"MOVE"})
    /\ Fmove => Handles({"FMOVE"})
    /\ Cmove => Handles({"CMOVE"})
    /\ FieldMoveToEntityUpdate => Handles({"MOVA"})
    /\ Jump => Handles({"JUMP"})
    /\ Lader => Handles({"LADER"})
<1>1. ASSUME NEW g, NEW n, PollWalk(g, n) PROVE Takes /\ (stack' = stack \/ StepPC)
  BY <1>1, PollsTake DEF PollWalk
<1>2. (Move => Handles({"MOVE"})) /\ (Fmove => Handles({"FMOVE"}))
  BY <1>1 DEF Move, Fmove, Handles
<1>3. (Cmove => Handles({"CMOVE"})) /\ (FieldMoveToEntityUpdate => Handles({"MOVA"}))
  BY <1>1 DEF Cmove, FieldMoveToEntityUpdate, Handles
<1>4. (Jump => Handles({"JUMP"})) /\ (Lader => Handles({"LADER"}))
  BY PollsTake DEF Jump, Lader, Handles
<1> QED BY <1>2, <1>3, <1>4

LEMMA TurnHandles ==
    /\ Turn => Handles({"TURN"})
    /\ Turnr => Handles({"TURNR"})
    /\ FieldEntityTurnToEntity => Handles({"TURA"})
    /\ Turnw => Handles({"TURNW"})
    /\ SetDir => Handles({"DIR"})
    /\ FieldEventSetDirByActorId => Handles({"DIRA"})
<1>1. ASSUME NEW g, NEW b, PollTurn(b, g) PROVE Takes /\ (stack' = stack \/ StepPC)
  BY <1>1, PollsTake DEF PollTurn
<1>2. (Turn => Handles({"TURN"})) /\ (Turnr => Handles({"TURNR"}))
  BY <1>1 DEF Turn, Turnr, Handles
<1>3. (FieldEntityTurnToEntity => Handles({"TURA"})) /\ (Turnw => Handles({"TURNW"}))
  BY <1>1, PollsTake DEF FieldEntityTurnToEntity, Turnw, Handles
<1>4. (SetDir => Handles({"DIR"})) /\ (FieldEventSetDirByActorId => Handles({"DIRA"}))
  BY PollsTake DEF SetDir, FieldEventSetDirByActorId, SnapTo, Handles
<1> QED BY <1>2, <1>3, <1>4

LEMMA AnimHandles ==
    /\ Anime => Handles({"ANIME1", "ANIME2"})
    /\ AnimEx => Handles({"ANIM!1", "ANIM!2"})
    /\ Canim => Handles({"CANIM1", "CANIM2"})
    /\ CanmEx => Handles({"CANM!1", "CANM!2"})
    /\ Animw => Handles({"ANIMW"})
    /\ Animb => Handles({"ANIMB"})
    /\ Dfanm => Handles({"DFANM"})
<1>1. ASSUME NEW a, NEW b, NEW c, NEW d, PlayAnimation(a, b, c, d)
      PROVE  Takes /\ (stack' = stack \/ StepPC)
  BY <1>1, PollsTake DEF PlayAnimation
<1>2. (Anime => Handles({"ANIME1", "ANIME2"})) /\ (AnimEx => Handles({"ANIM!1", "ANIM!2"}))
  BY <1>1 DEF Anime, AnimEx, AnimFrame, Handles
<1>3. (Canim => Handles({"CANIM1", "CANIM2"})) /\ (CanmEx => Handles({"CANM!1", "CANM!2"}))
  BY <1>1 DEF Canim, CanmEx, AnimFrame, Handles
<1>4. (Animw => Handles({"ANIMW"})) /\ (Animb => Handles({"ANIMB"})) /\ (Dfanm => Handles({"DFANM"}))
  BY PollsTake DEF Animw, Animb, Dfanm, AnimFrame, Handles
<1> QED BY <1>2, <1>3, <1>4

LEMMA OtherHandles ==
    /\ Fcfix => Handles({"FCFIX"})
    /\ Xyzi => Handles({"XYZI"})
    /\ Ofstd => Handles({"OFST"})
    /\ Ofstw => Handles({"OFSTW"})
    /\ Uc => Handles({"UC"})
    /\ Cc => Handles({"CC"})
    /\ Idle => Handles({"IDLE"})
    /\ Ret => Handles({"RET"})
    /\ Retto => Handles({"RETTO"})
<1>1. (Fcfix => Handles({"FCFIX"})) /\ (Xyzi => Handles({"XYZI"})) /\ (Ofstd => Handles({"OFST"}))
      /\ (Ofstw => Handles({"OFSTW"}))
  BY PollsTake DEF Fcfix, Xyzi, Ofstd, Ofstw, Handles
<1>2. (Uc => Handles({"UC"})) /\ (Cc => Handles({"CC"})) /\ (Idle => Handles({"IDLE"}))
  BY PollsTake DEF Uc, Cc, Idle, Handles
<1>3. (Ret => Handles({"RET"})) /\ (Retto => Handles({"RETTO"}))
  BY DEF Ret, Retto, Handles, Takes
<1> QED BY <1>1, <1>2, <1>3

\* What follows of the scripts and of the frame.
LEMMA HandlesKeeps ==
    ASSUME ScriptsOK, FrameOK, NEW op, Handles(op)
    PROVE  /\ ScriptsOK' /\ FrameOK' /\ I.op \in op /\ I = Now(cur) /\ phase = "scripts"
           /\ \A e \in Body : e # cur => Now(e)' = Now(e)
           /\ \A e \in Body : e # cur /\ e >= cur => phase' = "scripts" /\ e >= cur'
<1>1. cur \in Body /\ words' = words /\ phase = "scripts" /\ I.op \in op
  BY DEF Handles, Running, Fixed, FrameOK
<1>2. ScriptsOK'
  <2>1. CASE stack' = stack
    BY <1>1, <2>1 DEF ScriptsOK
  <2> QED BY <1>1, <2>1, StepPCKept, RetKept, RettoKept DEF Handles
<1>3. ASSUME NEW e \in Body, e # cur PROVE Now(e)' = Now(e)
  <2>1. stack'[e] = stack[e]
    BY <1>1, <1>3 DEF Handles, StepPC, Ret, Retto, ScriptsOK
  <2> QED BY <2>1 DEF Now
<1>4. FrameOK'
  <2>1. /\ cur' \in Body /\ ops' \in 1 .. OpsPerTurn /\ phase' \in {"scripts", "anims"}
        /\ phase' # "scripts" => cur' = 0
    BY <1>1, Sizes DEF Handles, Takes, EndTurn, UseOp, FrameOK, Body
  <2> QED BY <2>1 DEF Handles, Fixed, FrameOK
<1>5. ASSUME NEW e \in Body, e # cur, e >= cur PROVE phase' = "scripts" /\ e >= cur'
  BY <1>1, <1>5, Sizes DEF Handles, Takes, EndTurn, UseOp, FrameOK, Body
<1> QED BY <1>1, <1>2, <1>3, <1>4, <1>5 DEF I
----------------------------------------------------------------------------
(***************************************************************************)
(* Handlers that order no movement                                         *)
(***************************************************************************)
\* The model of a script that stands on another opcode is not moved.
LEMMA NotMoving ==
    ASSUME MovesOK, NEW e \in Body, Now(e).op \notin Moving
    PROVE  go[e].mode = NoMode
<1>1. InOrder(go[e], Now(e), pos[e])
  BY DEF MovesOK, GoOK
<1> QED BY <1>1 DEF InOrder, Asks, Moving

LEMMA OthersKept ==
    ASSUME IInv, NEW op, Handles(op), NEW e \in Body, e # cur,
           go'[e] = go[e], pos'[e] = pos[e], fix'[e] = fix[e]
    PROVE  GoOK(e)'
<1>1. Now(e)' = Now(e) /\ (e >= cur => phase' = "scripts" /\ e >= cur')
  BY HandlesKeeps DEF IInv
<1>2. GoOK(e)
  BY DEF IInv, MovesOK
<1>3. InOrder(go'[e], Now(e)', pos'[e])
  BY <1>1, <1>2 DEF GoOK
<1>4. go'[e].mode # NoMode /\ go'[e].act = 2 => phase' = "scripts" /\ e >= cur'
  BY <1>1, <1>2 DEF GoOK
<1>5. go'[e].mode = Walking /\ Now(e)'.op = "CMOVE" => fix'[e]
  BY <1>1, <1>2 DEF GoOK
<1> QED BY <1>3, <1>4, <1>5 DEF GoOK

LEMMA StillMoves ==
    ASSUME IInv, NEW op, Handles(op), op \cap Moving = {}, go' = go,
           \A e \in Body : e # cur => pos'[e] = pos[e] /\ fix'[e] = fix[e]
    PROVE  MovesOK'
<1>1. cur \in Body /\ Now(cur).op \notin Moving
  BY HandlesKeeps DEF IInv, FrameOK
<1>2. ASSUME NEW e \in Body PROVE GoOK(e)'
  <2>1. CASE e = cur
    <3>1. go'[e].mode = NoMode
      BY <1>1, <2>1, NotMoving DEF IInv
    <3>2. InOrder(go'[e], Now(e)', pos'[e])
      BY <3>1 DEF InOrder
    <3> QED BY <3>1, <3>2 DEF GoOK, NoMode, Walking
  <2>2. CASE e # cur
    BY <2>2, OthersKept
  <2> QED BY <2>1, <2>2
<1> QED BY <1>2 DEF MovesOK

\* One field of the models' state changes.
LEMMA DirKept ==
    ASSUME ModelsOK, NEW e \in Body, NEW d \in Dir, dir' = [dir EXCEPT ![e] = d],
           UNCHANGED <<pos, fix, go, turn, ofs, anim, pcModel, lock>>
    PROVE  ModelsOK'
BY DEF ModelsOK

LEMMA TurnKept ==
    ASSUME ModelsOK, NEW e \in Body, NEW t \in Turning, t.type \in {1, 2} => t.steps > 0,
           NEW d \in Dir,
           turn' = [turn EXCEPT ![e] = t], dir' = [dir EXCEPT ![e] = d],
           UNCHANGED <<pos, fix, go, ofs, anim, pcModel, lock>>
    PROVE  ModelsOK'
<1>1. turn' \in [Body -> Turning] /\ dir' \in [Body -> Dir]
  BY DEF ModelsOK
<1>2. \A b \in Body : turn'[b].type \in {1, 2} => turn'[b].steps > 0
  BY DEF ModelsOK
<1> QED BY <1>1, <1>2 DEF ModelsOK

LEMMA OffsetKept ==
    ASSUME ModelsOK, NEW e \in Body, NEW o \in Offsetting,
           o.type \in {1, 2} => o.step <= o.steps /\ o.steps > 0,
           ofs' = [ofs EXCEPT ![e] = o], UNCHANGED <<pos, dir, fix, go, turn, anim, pcModel, lock>>
    PROVE  ModelsOK'
<1>1. ofs' \in [Body -> Offsetting]
  BY DEF ModelsOK
<1>2. \A b \in Body : ofs'[b].type \in {1, 2} => ofs'[b].step <= ofs'[b].steps /\ ofs'[b].steps > 0
  BY DEF ModelsOK
<1> QED BY <1>1, <1>2 DEF ModelsOK

LEMMA AnimKept ==
    ASSUME ModelsOK, NEW e \in Body, NEW a \in Animating, anim' = [anim EXCEPT ![e] = a],
           UNCHANGED <<pos, dir, fix, go, turn, ofs, pcModel>>, lock' \in BOOLEAN
    PROVE  ModelsOK'
<1>1. anim' \in [Body -> Animating]
  BY DEF ModelsOK
<1> QED BY <1>1 DEF ModelsOK

LEMMA ITyped ==
    ASSUME ScriptsOK, FrameOK
    PROVE  /\ cur \in Body /\ I \in Instr
           /\ I.at \in Place /\ I.who \in Body /\ I.steps \in 1 .. MaxSteps /\ I.to \in Dir
           /\ I.way \in 0 .. 3 /\ I.kind \in 0 .. 2 /\ I.anim \in AnimId /\ I.on \in BOOLEAN
           /\ I.first \in Nat /\ I.stop \in Nat /\ I.div \in Nat \ {0}
<1>1. cur \in Body /\ I \in Instr
  BY WordsTyped DEF FrameOK, I
<1> QED BY <1>1 DEF Instr

\* A turn with some of its fields replaced.
LEMMA TurnFields ==
    ASSUME NEW A, NEW B, NEW C, NEW D, NEW E, NEW t \in [type : A, step : B, steps : C, start : D, end : E],
           NEW a \in A, NEW b \in B, NEW n \in C, NEW d \in D, NEW f \in E
    PROVE  LET u == [t EXCEPT !.type = a, !.step = b]
               v == [t EXCEPT !.type = a, !.step = b, !.steps = n]
               w == [t EXCEPT !.type = a, !.steps = n, !.start = d, !.end = f] IN
           /\ {u, v, w} \subseteq [type : A, step : B, steps : C, start : D, end : E]
           /\ u.type = a /\ v.type = a /\ w.type = a /\ w.steps = n
OBVIOUS

LEMMA TurnOver ==
    ASSUME NEW t \in Turning
    PROVE  LET u == [t EXCEPT !.type = 0, !.step = 0]
               v == [t EXCEPT !.type = 0, !.step = 0, !.steps = 0] IN
           /\ u \in Turning /\ v \in Turning
           /\ u.type \in {1, 2} => u.steps > 0
           /\ v.type \in {1, 2} => v.steps > 0
<1> DEFINE u == [t EXCEPT !.type = 0, !.step = 0]
           v == [t EXCEPT !.type = 0, !.step = 0, !.steps = 0]
<1>1. 0 \in 0 .. 3 /\ 0 \in 0 .. StepLimit - 1 /\ 0 \in 0 .. MaxSteps /\ t.start \in Dir /\ t.end \in -FullTurn .. 2 * FullTurn
  BY Sizes DEF Turning
<1>2. u \in Turning /\ v \in Turning /\ u.type = 0 /\ v.type = 0
  BY <1>1, TurnFields DEF Turning
<1> HIDE DEF u, v
<1>3. /\ u.type \in {1, 2} => u.steps > 0
      /\ v.type \in {1, 2} => v.steps > 0
  BY <1>2
<1> QED BY <1>2, <1>3 DEF u, v

LEMMA TurnOrdered ==
    ASSUME NEW t \in Turning, NEW d \in Dir, NEW type \in 0 .. 2, NEW n \in 1 .. MaxSteps,
           NEW end \in -FullTurn .. 2 * FullTurn
    PROVE  LET w == [t EXCEPT !.type = type, !.steps = n, !.start = d, !.end = end] IN
           w \in Turning /\ (w.type \in {1, 2} => w.steps > 0)
<1>2. n \in 0 .. MaxSteps /\ type \in 0 .. 3 /\ n > 0 /\ t.step \in 0 .. StepLimit - 1
  BY Sizes DEF Turning
<1> QED BY <1>2, TurnFields DEF Turning

LEMMA PollTurnKept ==
    ASSUME ModelsOK, ScriptsOK, FrameOK, NEW b, NEW type \in 0 .. 2,
           NEW end \in -FullTurn .. 2 * FullTurn, PollTurn(b, OrderTurn(type, end)),
           UNCHANGED <<pos, dir, fix, go, ofs, anim, pcModel, lock>>
    PROVE  ModelsOK'
<1>1. cur \in Body /\ turn[cur] \in Turning /\ dir[cur] \in Dir /\ turn \in [Body -> Turning]
  BY DEF FrameOK, ModelsOK
<1>2. dir' = [dir EXCEPT ![cur] = dir[cur]]
  BY DEF ModelsOK
<1>3. CASE turn[cur].type = 3
  <2> DEFINE t == [turn[cur] EXCEPT !.type = 0, !.step = 0, !.steps = 0]
  <2>1. t \in Turning /\ (t.type \in {1, 2} => t.steps > 0)
    BY <1>1, TurnOver
  <2>2. turn' = [turn EXCEPT ![cur] = t]
    BY <1>1, <1>3 DEF PollTurn, Turning
  <2> HIDE DEF t
  <2> QED BY <1>1, <1>2, <2>1, <2>2, TurnKept
<1>4. CASE turn[cur].type # 3 /\ turn' = turn
  BY <1>4 DEF ModelsOK
<1>5. CASE turn[cur].type # 3 /\ turn' # turn
  <2> DEFINE t == OrderTurn(type, end)
  <2>1. t \in Turning /\ (t.type \in {1, 2} => t.steps > 0)
    BY <1>1, ITyped, TurnOrdered DEF OrderTurn
  <2>2. turn' = [turn EXCEPT ![cur] = t]
    BY <1>5 DEF PollTurn
  <2> HIDE DEF t
  <2> QED BY <1>1, <1>2, <2>1, <2>2, TurnKept
<1> QED BY <1>3, <1>4, <1>5

LEMMA TurnModels ==
    ASSUME ModelsOK, ScriptsOK, FrameOK,
           Turn \/ Turnr \/ FieldEntityTurnToEntity \/ Turnw \/ SetDir \/ FieldEventSetDirByActorId
    PROVE  ModelsOK'
<1>1. /\ cur \in Body /\ turn[cur] \in Turning /\ dir[cur] \in Dir /\ I.who \in Body
      /\ turn \in [Body -> Turning] /\ dir \in [Body -> Dir]
      /\ pos[cur] \in Place /\ pos[I.who] \in Place
  BY ITyped DEF FrameOK, ModelsOK
<1>2. ASSUME Turn PROVE ModelsOK'
  <2>1. I.to \in -FullTurn .. 2 * FullTurn /\ I.kind \in 0 .. 2
    BY ITyped, Sizes DEF Dir
  <2> QED BY <1>2, <2>1, PollTurnKept DEF Turn
<1>3. ASSUME Turnr PROVE ModelsOK'
  <2>1. TurnEnd(dir[cur], I.to, I.way) \in -FullTurn .. 2 * FullTurn /\ I.kind \in 0 .. 2
    BY <1>1, ITyped, TurnEndTyped
  <2> QED BY <1>3, <2>1, PollTurnKept DEF Turnr
<1>4. ASSUME FieldEntityTurnToEntity PROVE ModelsOK'
  <2>1. TurnEnd(dir[cur], DirTo(pos[cur], pos[I.who]), I.way) \in -FullTurn .. 2 * FullTurn
    BY <1>1, ITyped, TurnEndTyped, DistTyped
  <2> QED BY <1>4, <2>1, PollTurnKept DEF FieldEntityTurnToEntity
<1>5. ASSUME Turnw PROVE ModelsOK'
  <2>1. CASE turn' = turn
    BY <1>5, <2>1 DEF Turnw, ModelsOK
  <2>2. CASE turn' # turn
    <3> DEFINE t == [turn[cur] EXCEPT !.type = 0, !.step = 0, !.steps = 0]
    <3>1. t \in Turning /\ (t.type \in {1, 2} => t.steps > 0)
      BY <1>1, TurnOver
    <3>2. turn' = [turn EXCEPT ![cur] = t]
      BY <1>1, <1>5, <2>2 DEF Turnw, Turning
    <3>3. dir' = [dir EXCEPT ![cur] = dir[cur]] /\ UNCHANGED <<pos, fix, go, ofs, anim, pcModel, lock>>
      BY <1>1, <1>5 DEF Turnw
    <3> HIDE DEF t
    <3> QED BY <1>1, <3>1, <3>2, <3>3, TurnKept
  <2> QED BY <2>1, <2>2
<1>6. ASSUME NEW d \in Dir, SnapTo(d) PROVE ModelsOK'
  <2> DEFINE t == [turn[cur] EXCEPT !.type = 0, !.step = 0]
  <2>1. t \in Turning /\ (t.type \in {1, 2} => t.steps > 0)
    BY <1>1, TurnOver
  <2>2. turn' = [turn EXCEPT ![cur] = t] /\ dir' = [dir EXCEPT ![cur] = d]
        /\ UNCHANGED <<pos, fix, go, ofs, anim, pcModel, lock>>
    BY <1>1, <1>6 DEF SnapTo, Turning
  <2> HIDE DEF t
  <2> QED BY <1>1, <1>6, <2>1, <2>2, TurnKept
<1>7. I.to \in Dir /\ DirTo(pos[cur], pos[I.who]) \in Dir
  BY <1>1, ITyped, DistTyped
<1> QED BY <1>2, <1>3, <1>4, <1>5, <1>6, <1>7 DEF SetDir, FieldEventSetDirByActorId

\* An animation with some of its fields replaced.
LEMMA AnimFields ==
    ASSUME NEW a \in Animating, NEW s \in 0 .. 6, NEW n \in AnimId, NEW f \in Nat, NEW l \in Nat
    PROVE  /\ [a EXCEPT !.state = s] \in Animating
           /\ [a EXCEPT !.state = s, !.id = n, !.frame = f, !.last = l] \in Animating
           /\ [a EXCEPT !.last = l, !.state = s] \in Animating
           /\ [a EXCEPT !.dflt = n, !.state = s] \in Animating
           /\ [a EXCEPT !.id = n, !.frame = f, !.last = l] \in Animating
           /\ [a EXCEPT !.last = l, !.frame = f] \in Animating
           /\ [a EXCEPT !.state = s, !.frame = f] \in Animating
           /\ [a EXCEPT !.frame = f] \in Animating
           /\ [a EXCEPT !.last = l] \in Animating
           /\ [a EXCEPT !.id = n] \in Animating
<1>1. ASSUME NEW S, NEW A, s \in S, n \in A, a \in [state : S, id : A, frame : Nat, last : Nat, dflt : A]
      PROVE  /\ [a EXCEPT !.state = s] \in [state : S, id : A, frame : Nat, last : Nat, dflt : A]
             /\ [a EXCEPT !.state = s, !.id = n, !.frame = f, !.last = l]
                    \in [state : S, id : A, frame : Nat, last : Nat, dflt : A]
             /\ [a EXCEPT !.last = l, !.state = s] \in [state : S, id : A, frame : Nat, last : Nat, dflt : A]
             /\ [a EXCEPT !.dflt = n, !.state = s] \in [state : S, id : A, frame : Nat, last : Nat, dflt : A]
             /\ [a EXCEPT !.id = n, !.frame = f, !.last = l]
                    \in [state : S, id : A, frame : Nat, last : Nat, dflt : A]
             /\ [a EXCEPT !.last = l, !.frame = f] \in [state : S, id : A, frame : Nat, last : Nat, dflt : A]
             /\ [a EXCEPT !.state = s, !.frame = f] \in [state : S, id : A, frame : Nat, last : Nat, dflt : A]
             /\ [a EXCEPT !.frame = f] \in [state : S, id : A, frame : Nat, last : Nat, dflt : A]
             /\ [a EXCEPT !.last = l] \in [state : S, id : A, frame : Nat, last : Nat, dflt : A]
             /\ [a EXCEPT !.id = n] \in [state : S, id : A, frame : Nat, last : Nat, dflt : A]
  BY <1>1
<1> QED BY <1>1 DEF Animating

LEMMA AnimTyped ==
    /\ IdleAnim \in AnimId /\ WalkAnim \in AnimId
    /\ \A n \in AnimId : AnimLast[n] \in Nat
BY MotionAnims

LEMMA PlayKept ==
    ASSUME ModelsOK, ScriptsOK, FrameOK, NEW f \in Nat, NEW l \in Nat, NEW c \in 0 .. 6, NEW u \in 0 .. 6,
           PlayAnimation(f, l, c, u), AnimFrame
    PROVE  ModelsOK'
<1>1. /\ cur \in Body /\ anim[cur] \in Animating /\ anim \in [Body -> Animating] /\ I.anim \in AnimId
      /\ lock \in BOOLEAN
  BY ITyped DEF FrameOK, ModelsOK
<1>2. UNCHANGED <<pos, dir, fix, go, turn, ofs, pcModel, lock>>
  BY DEF AnimFrame
<1>3. ASSUME NEW s \in 0 .. 6,
             anim' = [anim EXCEPT ![cur] = [anim[cur] EXCEPT !.state = s, !.id = I.anim, !.frame = f, !.last = l]]
      PROVE  ModelsOK'
  <2> DEFINE a == [anim[cur] EXCEPT !.state = s, !.id = I.anim, !.frame = f, !.last = l]
  <2>1. a \in Animating
    BY <1>1, AnimFields
  <2>2. anim' = [anim EXCEPT ![cur] = a] /\ lock' \in BOOLEAN
    BY <1>1, <1>2, <1>3
  <2> HIDE DEF a
  <2> QED BY <1>1, <1>2, <2>1, <2>2, AnimKept
<1>4. CASE anim' = [anim EXCEPT ![cur].state = c]
  <2> DEFINE a == [anim[cur] EXCEPT !.state = c]
  <2>1. a \in Animating
    BY <1>1, AnimFields
  <2>2. anim' = [anim EXCEPT ![cur] = a] /\ lock' \in BOOLEAN
    BY <1>1, <1>2, <1>4
  <2> HIDE DEF a
  <2> QED BY <1>1, <1>2, <2>1, <2>2, AnimKept
<1>5. CASE anim' = anim
  BY <1>2, <1>5 DEF ModelsOK
<1>6. 2 \in 0 .. 6
  OBVIOUS
<1> QED BY <1>3, <1>4, <1>5, <1>6 DEF PlayAnimation

LEMMA AnimModels ==
    ASSUME ModelsOK, ScriptsOK, FrameOK, Anime \/ AnimEx \/ Canim \/ CanmEx \/ Animw \/ Animb \/ Dfanm
    PROVE  ModelsOK'
<1>1. /\ cur \in Body /\ anim[cur] \in Animating /\ anim \in [Body -> Animating] /\ lock \in BOOLEAN
      /\ I.anim \in AnimId /\ AnimLast[I.anim] \in Nat
  BY ITyped, AnimTyped DEF FrameOK, ModelsOK
<1>2. I.first \div I.div \in Nat /\ I.first \in Nat /\ Clamped \in Nat
  <2>1. \A x \in Nat, n \in Nat \ {0} : x \div n \in Nat
    OBVIOUS
  <2>2. I.first \div I.div \in Nat /\ I.stop \div I.div \in Nat /\ I.first \in Nat
    BY <2>1, ITyped
  <2> QED BY <1>1, <2>2 DEF Clamped
<1>3. CASE Anime \/ AnimEx
  BY <1>1, <1>3, PlayKept DEF Anime, AnimEx
<1>4. CASE Canim \/ CanmEx
  BY <1>2, <1>4, PlayKept DEF Canim, CanmEx
<1>5. ASSUME NEW a \in Animating, anim' = [anim EXCEPT ![cur] = a], AnimFrame
      PROVE  ModelsOK'
  BY <1>1, <1>5, AnimKept DEF AnimFrame
<1>6. CASE Animw
  <2> DEFINE a == [anim[cur] EXCEPT !.state = 0]
  <2>1. a \in Animating
    <3>1. 0 \in 0 .. 6
      OBVIOUS
    <3> QED BY <1>1, <3>1, AnimFields
  <2>2. CASE anim' = anim
    BY <1>6, <2>2 DEF Animw, AnimFrame, ModelsOK
  <2>3. CASE anim' # anim
    <3>1. anim' = [anim EXCEPT ![cur] = a] /\ AnimFrame
      BY <1>1, <1>6, <2>3 DEF Animw
    <3> QED BY <1>5, <2>1, <3>1
  <2> QED BY <2>2, <2>3
<1>7. CASE Animb
  <2> DEFINE a == [anim[cur] EXCEPT !.last = anim[cur].frame, !.state = 3]
  <2>1. a \in Animating
    <3>1. anim[cur].frame \in Nat /\ 3 \in 0 .. 6
      BY <1>1 DEF Animating
    <3> QED BY <1>1, <3>1, AnimFields
  <2>2. anim' = [anim EXCEPT ![cur] = a] /\ AnimFrame
    BY <1>1, <1>7 DEF Animb
  <2> QED BY <1>5, <2>1, <2>2
<1>8. CASE Dfanm
  <2> DEFINE s == IF anim[cur].state = 3 THEN 0 ELSE anim[cur].state
  <2> DEFINE a == [anim[cur] EXCEPT !.dflt = I.anim, !.state = s]
  <2>1. s \in 0 .. 6
    BY <1>1 DEF Animating
  <2>2. anim' = [anim EXCEPT ![cur] = a] /\ AnimFrame
    BY <1>1, <1>8 DEF Dfanm
  <2> HIDE DEF s
  <2>3. a \in Animating
    BY <1>1, <2>1, AnimFields
  <2> QED BY <1>5, <2>2, <2>3
<1> QED BY <1>3, <1>4, <1>6, <1>7, <1>8

LEMMA OtherModels ==
    ASSUME ModelsOK, ScriptsOK, FrameOK,
           Fcfix \/ Xyzi \/ Ofstd \/ Ofstw \/ Uc \/ Cc \/ Idle \/ Ret \/ Retto
    PROVE  ModelsOK'
<1>1. cur \in Body /\ anim \in [Body -> Animating] /\ pcModel \in Body
  BY DEF FrameOK, ModelsOK
<1>2. CASE Fcfix \/ Xyzi
  <2>1. pos' \in [Body -> Place] /\ fix' \in [Body -> BOOLEAN]
    BY <1>1, <1>2, ITyped DEF Fcfix, Xyzi, ModelsOK
  <2> QED BY <1>2, <2>1 DEF Fcfix, Xyzi, ModelsOK
<1>3. CASE Ofstd
  <2> DEFINE o == [type |-> I.kind, step |-> 0, steps |-> I.steps]
  <2>1. o \in Offsetting /\ o.step <= o.steps /\ o.steps > 0
    BY ITyped, Sizes DEF Offsetting
  <2>2. ofs' = [ofs EXCEPT ![cur] = o] /\ UNCHANGED <<pos, dir, fix, go, turn, anim, pcModel, lock>>
    BY <1>3 DEF Ofstd
  <2> HIDE DEF o
  <2> QED BY <1>1, <2>1, <2>2, OffsetKept
<1>4. CASE Ofstw
  <2>1. NoOffset \in Offsetting /\ NoOffset.type \notin {1, 2}
    BY Sizes DEF Offsetting, NoOffset
  <2>2. UNCHANGED <<pos, dir, fix, go, turn, anim, pcModel, lock>>
    BY <1>4 DEF Ofstw
  <2>3. CASE ofs' = ofs
    BY <2>2, <2>3 DEF ModelsOK
  <2>4. CASE ofs' = [ofs EXCEPT ![cur] = NoOffset]
    BY <1>1, <2>1, <2>2, <2>4, OffsetKept
  <2> QED BY <1>4, <2>3, <2>4 DEF Ofstw
<1>5. CASE Uc
  <2>1. UNCHANGED <<pos, dir, fix, go, turn, ofs, pcModel>> /\ lock' \in BOOLEAN
    BY <1>5, ITyped DEF Uc
  <2>2. CASE anim' = anim
    BY <2>1, <2>2 DEF ModelsOK
  <2>3. CASE anim' = [anim EXCEPT ![pcModel].state = 0]
    <3> DEFINE a == [anim[pcModel] EXCEPT !.state = 0]
    <3>1. a \in Animating
      <4>1. 0 \in 0 .. 6 /\ anim[pcModel] \in Animating
        BY <1>1
      <4> QED BY <4>1, AnimFields, AnimTyped
    <3>2. anim' = [anim EXCEPT ![pcModel] = a]
      BY <1>1, <2>3
    <3> HIDE DEF a
    <3> QED BY <1>1, <2>1, <3>1, <3>2, AnimKept
  <2> QED BY <1>5, <2>2, <2>3 DEF Uc
<1>6. CASE Cc
  <2>1. pcModel' \in Body /\ UNCHANGED <<body, lock>>
    BY <1>6, ITyped DEF Cc
  <2> QED BY <2>1 DEF body, ModelsOK
<1>7. CASE Idle \/ Ret \/ Retto
  <2>1. UNCHANGED <<body, pcModel, lock>>
    BY <1>7 DEF Idle, Ret, Retto
  <2> QED BY <2>1 DEF body, ModelsOK
<1> QED BY <1>2, <1>3, <1>4, <1>5, <1>6, <1>7
----------------------------------------------------------------------------
(***************************************************************************)
(* Handlers that order a movement                                          *)
(***************************************************************************)
\* The entity whose turn it is orders or ends a movement, the others' stay.
LEMMA OneMoves ==
    ASSUME IInv, NEW op, Handles(op), NEW g \in Going, go' = [go EXCEPT ![cur] = g],
           pos' = pos, \A e \in Body : e # cur => fix'[e] = fix[e],
           g.mode # NoMode => g.act # 2 /\ stack' = stack /\ InOrder(g, I, pos[cur]),
           g.mode = Walking /\ I.op = "CMOVE" => fix'[cur]
    PROVE  MovesOK' /\ go' \in [Body -> Going]
<1>1. cur \in Body /\ go' \in [Body -> Going] /\ go'[cur] = g /\ \A e \in Body : e # cur => go'[e] = go[e]
  BY DEF IInv, FrameOK, ModelsOK
<1>2. ASSUME NEW e \in Body PROVE GoOK(e)'
  <2>1. CASE e = cur /\ g.mode = NoMode
    <3>1. InOrder(go'[e], Now(e)', pos'[e])
      BY <1>1, <2>1 DEF InOrder
    <3> QED BY <1>1, <2>1, <3>1 DEF GoOK, NoMode, Walking
  <2>2. CASE e = cur /\ g.mode # NoMode
    <3>1. Now(e)' = I
      BY <2>2 DEF Now, I
    <3>2. InOrder(go'[e], Now(e)', pos'[e])
      BY <1>1, <2>2, <3>1
    <3> QED BY <1>1, <2>2, <3>1, <3>2 DEF GoOK
  <2>3. CASE e # cur
    BY <1>1, <2>3, OthersKept
  <2> QED BY <2>1, <2>2, <2>3
<1> QED BY <1>1, <1>2 DEF MovesOK

LEMMA PollWalkMoves ==
    ASSUME IInv, NEW op, Handles(op), NEW p \in Place, NEW r \in {0, 1, Reach}, NEW n \in 0 .. 2,
           PollWalk(OrderTo(p, r), n), I.op \in {"MOVE", "FMOVE", "CMOVE", "MOVA"},
           I.op = "MOVA" => r = Reach, I.op # "MOVA" => p = I.at /\ r = 0,
           pos' = pos, \A e \in Body : e # cur => fix'[e] = fix[e],
           I.op = "CMOVE" /\ ~Arrived({Walking}) => fix'[cur]
    PROVE  MovesOK' /\ go' \in [Body -> Going]
<1>1. cur \in Body /\ go[cur] \in Going
  BY DEF IInv, FrameOK, ModelsOK
<1>2. Asks(I, Walking)
  BY DEF Asks
<1>3. ASSUME NEW g \in Going, g.mode = Walking, g.act # 2, g.end = p, g.arg = r
      PROVE  InOrder(g, I, pos[cur])
  BY <1>2, <1>3 DEF InOrder, Walking, Jumping, Ladders, NoMode
<1>4. CASE UnderWay({Walking})
  <2> DEFINE g == [go[cur] EXCEPT !.end = p, !.arg = r]
  <2>1. g \in Going /\ g.mode = Walking /\ g.act = 1 /\ g.end = p /\ g.arg = r
    <3>1. 1 \in Nat /\ 1 \in 0 .. 2
      OBVIOUS
    <3> QED BY <1>1, <1>4, <3>1 DEF Going, UnderWay
  <2>2. go' = [go EXCEPT ![cur] = g] /\ stack' = stack /\ ~Arrived({Walking})
    BY <1>4 DEF PollWalk, OrderTo, UnderWay, Arrived, Ordered, Poll
  <2> HIDE DEF g
  <2>3. InOrder(g, I, pos[cur]) /\ g.act # 2
    BY <1>3, <2>1
  <2>4. I.op = "CMOVE" => fix'[cur]
    BY <2>2
  <2> QED BY <2>1, <2>2, <2>3, <2>4, OneMoves
<1>5. CASE Arrived({Walking})
  <2> DEFINE g == [[go[cur] EXCEPT !.end = p, !.arg = r] EXCEPT !.mode = NoMode, !.act = n]
  <2>1. g \in Going /\ g.mode = NoMode
    <3>1. NoMode \in {NoMode, Walking, Jumping} \cup Ladders /\ 1 \in Nat
      OBVIOUS
    <3> QED BY <1>1, <3>1 DEF Going
  <2>2. go' = [go EXCEPT ![cur] = g]
    BY <1>5 DEF PollWalk, OrderTo, UnderWay, Arrived, Ordered
  <2> HIDE DEF g
  <2>3. g.mode # Walking
    BY <2>1 DEF NoMode, Walking
  <2> QED BY <2>1, <2>2, <2>3, OneMoves
<1>6. CASE ~Ordered({Walking})
  <2> DEFINE g == [[go[cur] EXCEPT !.end = p, !.arg = r] EXCEPT !.mode = Walking, !.act = 0]
  <2>1. g \in Going /\ g.mode = Walking /\ g.act = 0 /\ g.end = p /\ g.arg = r
    <3>1. Walking \in {NoMode, Walking, Jumping} \cup Ladders /\ 0 \in 0 .. 2 /\ 1 \in Nat
      OBVIOUS
    <3> QED BY <1>1, <3>1 DEF Going
  <2>2. go' = [go EXCEPT ![cur] = g] /\ stack' = stack /\ ~Arrived({Walking})
    BY <1>6 DEF PollWalk, OrderTo, UnderWay, Arrived, Ordered, Poll
  <2> HIDE DEF g
  <2>3. InOrder(g, I, pos[cur]) /\ g.act # 2
    BY <1>3, <2>1
  <2>4. I.op = "CMOVE" => fix'[cur]
    BY <2>2
  <2> QED BY <2>1, <2>2, <2>3, <2>4, OneMoves
<1> QED BY <1>4, <1>5, <1>6 DEF Ordered

LEMMA JumpMoves ==
    ASSUME IInv, Jump
    PROVE  MovesOK' /\ go' \in [Body -> Going]
<1>1. cur \in Body /\ go[cur] \in Going /\ go \in [Body -> Going] /\ I.at \in Place /\ I.steps \in Nat
      /\ I.steps > 0
  BY ITyped, Sizes DEF IInv, FrameOK, ModelsOK
<1>2. Handles({"JUMP"}) /\ I.op = "JUMP" /\ pos' = pos /\ fix' = fix
  BY WalkHandles DEF Jump, Running
<1>3. CASE UnderWay({Jumping})
  <2>1. go' = go /\ stack' = stack
    BY <1>3 DEF Jump, UnderWay, Arrived, Ordered, Poll
  <2>2. go' = [go EXCEPT ![cur] = go[cur]] /\ go[cur].act # 2
    BY <1>1, <1>3, <2>1 DEF UnderWay
  <2>3. InOrder(go[cur], I, pos[cur]) /\ go[cur].mode # Walking
    BY <1>1, <1>3 DEF IInv, MovesOK, GoOK, I, UnderWay, Walking, Jumping
  <2> QED BY <1>1, <1>2, <2>1, <2>2, <2>3, OneMoves
<1>4. CASE Arrived({Jumping})
  <2> DEFINE g == [go[cur] EXCEPT !.mode = NoMode, !.act = 0]
  <2>1. g \in Going /\ g.mode = NoMode
    <3>1. NoMode \in {NoMode, Walking, Jumping} \cup Ladders /\ 0 \in 0 .. 2 /\ 1 \in Nat
          /\ 1 \in {0, 1, Reach}
      OBVIOUS
    <3> QED BY <1>1, <3>1 DEF Going
  <2>2. go' = [go EXCEPT ![cur] = g]
    <3>1. go' = [go EXCEPT ![cur].mode = NoMode, ![cur].act = 0]
      BY <1>4 DEF Jump, UnderWay, Arrived, Ordered
    <3> QED BY <1>1, <3>1
  <2> HIDE DEF g
  <2>3. g.mode # Walking
    BY <2>1 DEF NoMode, Walking
  <2> QED BY <1>2, <2>1, <2>2, <2>3, OneMoves
<1>5. CASE ~Ordered({Jumping})
  <2> DEFINE g == [go[cur] EXCEPT !.mode = Jumping, !.act = 0, !.end = I.at, !.steps = I.steps]
  <2>1. g \in Going /\ g.mode = Jumping /\ g.act = 0 /\ g.end = I.at /\ g.steps = I.steps
    <3>1. Jumping \in {NoMode, Walking, Jumping} \cup Ladders /\ 0 \in 0 .. 2 /\ 1 \in {0, 1, Reach}
      OBVIOUS
    <3> QED BY <1>1, <3>1 DEF Going
  <2>2. go' = [go EXCEPT ![cur] = g] /\ stack' = stack
    BY <1>1, <1>5 DEF Jump, UnderWay, Arrived, Ordered, Poll
  <2> HIDE DEF g
  <2>3. InOrder(g, I, pos[cur])
    BY <1>1, <1>2, <2>1 DEF InOrder, Asks, Walking, Jumping, Ladders, NoMode
  <2>4. g.mode # Walking /\ g.act # 2
    BY <2>1 DEF Walking, Jumping
  <2> QED BY <1>2, <2>1, <2>2, <2>3, <2>4, OneMoves
<1> QED BY <1>3, <1>4, <1>5 DEF Ordered

LEMMA LaderMoves ==
    ASSUME IInv, Lader
    PROVE  MovesOK' /\ go' \in [Body -> Going]
<1>1. cur \in Body /\ go[cur] \in Going /\ go \in [Body -> Going] /\ I.at \in Place /\ I.way \in 0 .. 3
  BY ITyped DEF IInv, FrameOK, ModelsOK
<1>2. Handles({"LADER"}) /\ I.op = "LADER" /\ pos' = pos /\ fix' = fix
  BY WalkHandles DEF Lader, Running
<1>3. CASE UnderWay(Ladders)
  <2>1. go' = go /\ stack' = stack
    BY <1>3 DEF Lader, UnderWay, Arrived, Ordered, Poll
  <2>2. go' = [go EXCEPT ![cur] = go[cur]] /\ go[cur].act # 2
    BY <1>1, <1>3, <2>1 DEF UnderWay
  <2>3. InOrder(go[cur], I, pos[cur]) /\ go[cur].mode # Walking
    BY <1>1, <1>3 DEF IInv, MovesOK, GoOK, I, UnderWay, Walking, Ladders
  <2> QED BY <1>1, <1>2, <2>1, <2>2, <2>3, OneMoves
<1>4. CASE Arrived(Ladders)
  <2> DEFINE g == [go[cur] EXCEPT !.mode = NoMode, !.act = 0]
  <2>1. g \in Going /\ g.mode = NoMode
    <3>1. NoMode \in {NoMode, Walking, Jumping} \cup Ladders /\ 0 \in 0 .. 2 /\ 1 \in Nat
          /\ 1 \in {0, 1, Reach}
      OBVIOUS
    <3> QED BY <1>1, <3>1 DEF Going
  <2>2. go' = [go EXCEPT ![cur] = g]
    <3>1. go' = [go EXCEPT ![cur].mode = NoMode, ![cur].act = 0]
      BY <1>4 DEF Lader, UnderWay, Arrived, Ordered
    <3> QED BY <1>1, <3>1
  <2> HIDE DEF g
  <2>3. g.mode # Walking
    BY <2>1 DEF NoMode, Walking
  <2> QED BY <1>2, <2>1, <2>2, <2>3, OneMoves
<1>5. CASE ~Ordered(Ladders)
  <2> DEFINE g == [go[cur] EXCEPT !.mode = 4 + I.way \div 2, !.arg = I.way % 2, !.act = 0, !.end = I.at]
  <2>0. I.way \div 2 \in {0, 1} /\ I.way % 2 \in {0, 1}
    BY <1>1
  <2>1. g \in Going /\ g.mode = 4 + I.way \div 2 /\ g.act = 0 /\ g.end = I.at
    <3>1. 4 + I.way \div 2 \in {NoMode, Walking, Jumping} \cup Ladders /\ 0 \in 0 .. 2 /\ 1 \in Nat
          /\ I.way % 2 \in {0, 1, Reach}
      BY <2>0 DEF Ladders
    <3> QED BY <1>1, <3>1 DEF Going
  <2>2. go' = [go EXCEPT ![cur] = g] /\ stack' = stack
    BY <1>1, <1>5 DEF Lader, UnderWay, Arrived, Ordered, Poll
  <2> HIDE DEF g
  <2>3. g.mode \in Ladders
    BY <2>0, <2>1 DEF Ladders
  <2>4. InOrder(g, I, pos[cur])
    BY <1>1, <1>2, <2>1, <2>3 DEF InOrder, Asks, Walking, Jumping, Ladders, NoMode
  <2>5. g.mode # Walking /\ g.act # 2
    BY <2>1, <2>3 DEF Walking, Ladders
  <2> QED BY <1>2, <2>1, <2>2, <2>4, <2>5, OneMoves
<1> QED BY <1>3, <1>4, <1>5 DEF Ordered

LEMMA WalkMoves ==
    ASSUME IInv, Move \/ Fmove \/ Cmove \/ FieldMoveToEntityUpdate
    PROVE  MovesOK' /\ go' \in [Body -> Going]
<1>1. cur \in Body /\ I.at \in Place /\ pos[I.who] \in Place /\ fix \in [Body -> BOOLEAN]
  BY ITyped DEF IInv, FrameOK, ModelsOK
<1>2. CASE Move
  <2>1. Handles({"MOVE"}) /\ I.op = "MOVE" /\ PollWalk(OrderTo(I.at, 0), 0) /\ pos' = pos
        /\ \A e \in Body : e # cur => fix'[e] = fix[e]
    BY <1>1, <1>2, WalkHandles DEF Move, Running
  <2> QED BY <1>1, <2>1, PollWalkMoves
<1>3. CASE Fmove
  <2>1. Handles({"FMOVE"}) /\ I.op = "FMOVE" /\ PollWalk(OrderTo(I.at, 0), 0) /\ pos' = pos
        /\ \A e \in Body : e # cur => fix'[e] = fix[e]
    BY <1>1, <1>3, WalkHandles DEF Fmove, Running
  <2> QED BY <1>1, <2>1, PollWalkMoves
<1>4. CASE Cmove
  <2>1. Handles({"CMOVE"}) /\ I.op = "CMOVE" /\ PollWalk(OrderTo(I.at, 0), 0) /\ pos' = pos
        /\ \A e \in Body : e # cur => fix'[e] = fix[e]
    BY <1>1, <1>4, WalkHandles DEF Cmove, Running
  <2>2. ~Arrived({Walking}) => fix'[cur]
    BY <1>1, <1>4 DEF Cmove
  <2> QED BY <1>1, <2>1, <2>2, PollWalkMoves
<1>5. CASE FieldMoveToEntityUpdate
  <2>1. Handles({"MOVA"}) /\ I.op = "MOVA" /\ PollWalk(OrderTo(pos[I.who], Reach), 2) /\ pos' = pos
        /\ \A e \in Body : e # cur => fix'[e] = fix[e]
    BY <1>1, <1>5, WalkHandles DEF FieldMoveToEntityUpdate, Running
  <2> QED BY <1>1, <2>1, PollWalkMoves
<1> QED BY <1>2, <1>3, <1>4, <1>5

LEMMA WalkingAnimTyped ==
    ASSUME NEW a \in Animating
    PROVE  WalkingAnim(a) \in Animating /\ [WalkingAnim(a) EXCEPT !.state = 0] \in Animating
           /\ [a EXCEPT !.state = 0] \in Animating
<1>1. 0 \in 0 .. 6 /\ 1 \in 0 .. 6 /\ 0 \in Nat
  OBVIOUS
<1>2. \A b \in Animating : [b EXCEPT !.state = 0] \in Animating /\ [b EXCEPT !.state = 1] \in Animating
  BY <1>1, AnimFields, AnimTyped
<1>3. [a EXCEPT !.state = 1, !.id = WalkAnim, !.frame = 0, !.last = AnimLast[WalkAnim]] \in Animating
  BY <1>1, AnimFields, AnimTyped
<1>4. WalkingAnim(a) \in Animating
  BY <1>2, <1>3 DEF WalkingAnim
<1> QED BY <1>2, <1>4

\* The other fields that MOVE .. LADER set.
LEMMA WalkModels ==
    ASSUME ModelsOK, ScriptsOK, FrameOK, go' \in [Body -> Going],
           Move \/ Fmove \/ Cmove \/ FieldMoveToEntityUpdate \/ Jump \/ Lader
    PROVE  ModelsOK'
<1>1. /\ cur \in Body /\ anim[cur] \in Animating /\ anim \in [Body -> Animating]
      /\ fix \in [Body -> BOOLEAN] /\ dir \in [Body -> Dir] /\ I.to \in Dir /\ I.anim \in AnimId
  BY ITyped DEF FrameOK, ModelsOK
<1>2. UNCHANGED <<pos, turn, ofs, pcModel, lock>>
  BY DEF Move, Fmove, Cmove, FieldMoveToEntityUpdate, Jump, Lader
<1>3. fix' \in [Body -> BOOLEAN] /\ dir' \in [Body -> Dir]
  <2>1. CASE Move \/ Fmove \/ FieldMoveToEntityUpdate
    BY <1>1, <2>1 DEF Move, Fmove, FieldMoveToEntityUpdate
  <2>2. CASE Cmove
    <3> DEFINE b == ~Arrived({Walking})
    <3>0. b \in BOOLEAN
      OBVIOUS
    <3> HIDE DEF b
    <3>1. fix' = [fix EXCEPT ![cur] = b]
      BY <2>2 DEF Cmove, b
    <3> QED BY <1>1, <2>2, <3>0, <3>1 DEF Cmove
  <2>3. CASE Jump \/ Lader
    BY <1>1, <2>3 DEF Jump, Lader
  <2> QED BY <2>1, <2>2, <2>3
<1>4. anim' \in [Body -> Animating]
  <2>1. CASE Fmove \/ Cmove \/ Jump
    BY <1>1, <2>1 DEF Fmove, Cmove, Jump
  <2>2. CASE Move
    <3> DEFINE a == LET w == WalkingAnim(anim[cur])
                    IN IF Arrived({Walking}) THEN [w EXCEPT !.state = 0] ELSE w
    <3>1. a \in Animating
      BY <1>1, WalkingAnimTyped
    <3>2. anim' = [anim EXCEPT ![cur] = a]
      BY <2>2 DEF Move
    <3> HIDE DEF a
    <3> QED BY <1>1, <3>1, <3>2
  <2>3. CASE FieldMoveToEntityUpdate
    <3> DEFINE a == CASE UnderWay({Walking}) -> WalkingAnim(anim[cur])
                      [] Arrived({Walking})  -> [anim[cur] EXCEPT !.state = 0]
                      [] OTHER               -> anim[cur]
    <3>1. a \in Animating
      BY <1>1, WalkingAnimTyped
    <3>2. anim' = [anim EXCEPT ![cur] = a]
      BY <2>3 DEF FieldMoveToEntityUpdate
    <3> HIDE DEF a
    <3> QED BY <1>1, <3>1, <3>2
  <2>4. CASE Lader
    <3> DEFINE a == [anim[cur] EXCEPT !.state = 0, !.id = I.anim, !.frame = 0, !.last = AnimLast[I.anim]]
    <3>1. a \in Animating
      <4>1. 0 \in 0 .. 6 /\ 0 \in Nat
        OBVIOUS
      <4> QED BY <1>1, <4>1, AnimFields, AnimTyped
    <3>2. anim' = anim \/ anim' = [anim EXCEPT ![cur] = a]
      BY <2>4 DEF Lader
    <3> HIDE DEF a
    <3> QED BY <1>1, <3>1, <3>2
  <2> QED BY <2>1, <2>2, <2>3, <2>4
<1> QED BY <1>2, <1>3, <1>4 DEF ModelsOK

LEMMA HandlerKeeps ==
    ASSUME IInv, Handler
    PROVE  IInv'
<1> USE DEF IInv
<1>1. CASE Move \/ Fmove \/ Cmove \/ FieldMoveToEntityUpdate \/ Jump \/ Lader
  <2>1. MovesOK' /\ go' \in [Body -> Going]
    BY <1>1, WalkMoves, JumpMoves, LaderMoves
  <2>2. ModelsOK'
    BY <1>1, <2>1, WalkModels
  <2> QED BY <1>1, <2>1, <2>2, WalkHandles, HandlesKeeps
<1>2. ASSUME NEW op, Handles(op), op \cap Moving = {}, ModelsOK', UNCHANGED <<pos, fix, go>>
      PROVE  IInv'
  BY <1>2, HandlesKeeps, StillMoves
<1>3. CASE Turn \/ Turnr \/ FieldEntityTurnToEntity \/ Turnw \/ SetDir \/ FieldEventSetDirByActorId
  <2>1. ModelsOK'
    BY <1>3, TurnModels
  <2>2. UNCHANGED <<pos, fix, go>>
    BY <1>3 DEF Turn, Turnr, FieldEntityTurnToEntity, Turnw, SetDir, FieldEventSetDirByActorId, SnapTo
  <2>3. \E op : Handles(op) /\ op \cap Moving = {}
    BY <1>3, TurnHandles DEF Moving
  <2> QED BY <1>2, <2>1, <2>2, <2>3
<1>4. CASE Anime \/ AnimEx \/ Canim \/ CanmEx \/ Animw \/ Animb \/ Dfanm
  <2>1. ModelsOK'
    BY <1>4, AnimModels
  <2>2. UNCHANGED <<pos, fix, go>>
    BY <1>4 DEF Anime, AnimEx, Canim, CanmEx, Animw, Animb, Dfanm, AnimFrame
  <2>3. \E op : Handles(op) /\ op \cap Moving = {}
    BY <1>4, AnimHandles DEF Moving
  <2> QED BY <1>2, <2>1, <2>2, <2>3
<1>5. CASE Ofstd \/ Ofstw \/ Uc \/ Cc \/ Idle \/ Ret \/ Retto
  <2>1. ModelsOK'
    BY <1>5, OtherModels
  <2>2. UNCHANGED <<pos, fix, go>>
    BY <1>5 DEF Ofstd, Ofstw, Uc, Cc, Idle, Ret, Retto, body
  <2>3. \E op : Handles(op) /\ op \cap Moving = {}
    BY <1>5, OtherHandles DEF Moving
  <2> QED BY <1>2, <2>1, <2>2, <2>3
<1>6. CASE Fcfix \/ Xyzi
  <2>1. ModelsOK' /\ go' = go /\ cur \in Body
    BY <1>6, OtherModels DEF Fcfix, Xyzi, FrameOK
  <2>2. \A e \in Body : e # cur => pos'[e] = pos[e] /\ fix'[e] = fix[e]
    BY <1>6, <2>1 DEF Fcfix, Xyzi, ModelsOK
  <2>3. \E op : Handles(op) /\ op \cap Moving = {}
    BY <1>6, OtherHandles DEF Moving
  <2> QED BY <2>1, <2>2, <2>3, StillMoves, HandlesKeeps
<1> QED BY <1>1, <1>3, <1>4, <1>5, <1>6 DEF Handler
----------------------------------------------------------------------------
(***************************************************************************)
(* Requests                                                                *)
(***************************************************************************)
LEMMA RequestKept ==
    ASSUME IInv, NEW e \in Body, Request(e)
    PROVE  IInv'
<1>1. ScriptsOK /\ ModelsOK /\ FrameOK /\ MovesOK
  BY DEF IInv
<1>2. ScriptsOK'
  BY <1>1, RequestScripts
<1>3. /\ go \in [Body -> Going] /\ anim \in [Body -> Animating] /\ go[e] \in Going /\ anim[e] \in Animating
      /\ lock \in BOOLEAN
  BY <1>1 DEF ModelsOK
<1>4. go' = [go EXCEPT ![e].mode = NoMode] /\ phase' = phase /\ cur' = cur
      /\ UNCHANGED <<pos, dir, fix, turn, ofs, pcModel, lock>>
  BY DEF Request, clock
<1>5. /\ go' \in [Body -> Going] /\ go'[e].mode = NoMode
      /\ \A d \in Body : d # e => go'[d] = go[d]
  <2> DEFINE g == [go[e] EXCEPT !.mode = NoMode]
  <2>1. g \in Going /\ g.mode = NoMode
    BY <1>3 DEF Going
  <2>2. go' = [go EXCEPT ![e] = g]
    BY <1>3, <1>4
  <2> HIDE DEF g
  <2> QED BY <1>3, <2>1, <2>2
<1>6. ModelsOK'
  <2>1. anim' \in [Body -> Animating]
    <3> DEFINE a == [anim[e] EXCEPT !.id = 0, !.frame = 0, !.last = 0]
    <3>1. a \in Animating
      <4>1. 0 \in AnimId /\ 0 \in Nat /\ 0 \in 0 .. 6
        BY AnimTyped DEF IdleAnim
      <4> QED BY <1>3, <4>1, AnimFields
    <3>2. anim' = anim \/ anim' = [anim EXCEPT ![e] = a]
      BY DEF Request
    <3> HIDE DEF a
    <3> QED BY <1>3, <3>1, <3>2
  <2> QED BY <1>1, <1>4, <1>5, <2>1 DEF ModelsOK
<1>7. FrameOK'
  <2>1. asks' \in 0 .. MaxAsks
    BY <1>1, Sizes DEF Request, FrameOK
  <2> QED BY <1>1, <2>1 DEF FrameOK, Request, clock
<1>8. ASSUME NEW d \in Body PROVE GoOK(d)'
  <2>1. CASE d = e
    <3>1. go'[d].mode = NoMode
      BY <1>5, <2>1
    <3>2. InOrder(go'[d], Now(d)', pos'[d])
      BY <3>1 DEF InOrder
    <3> QED BY <3>1, <3>2 DEF GoOK, NoMode, Walking
  <2>2. CASE d # e
    <3>1. stack'[d] = stack[d]
      BY <1>1, <2>2 DEF Request, ScriptsOK
    <3>2. GoOK(d) /\ Now(d)' = Now(d) /\ go'[d] = go[d] /\ pos'[d] = pos[d] /\ fix'[d] = fix[d]
      BY <1>1, <1>4, <1>5, <2>2, <3>1 DEF MovesOK, Now
    <3> QED BY <1>4, <3>2 DEF GoOK
  <2> QED BY <2>1, <2>2
<1> QED BY <1>2, <1>6, <1>7, <1>8 DEF IInv, MovesOK
----------------------------------------------------------------------------
(***************************************************************************)
(* The engine                                                              *)
(***************************************************************************)
LEMMA NextAnimTyped ==
    ASSUME NEW a \in Animating
    PROVE  NextAnim(a) \in Animating
<1>1. /\ a.frame \in Nat /\ a.last \in Nat /\ a.dflt \in AnimId /\ a.id \in AnimId
      /\ AnimLast[a.dflt] \in Nat /\ AnimLast[a.id] \in Nat
      /\ 0 \in Nat /\ \A s \in {0, 3, 4} : s \in 0 .. 6
  BY AnimTyped DEF Animating
<1>2. [a EXCEPT !.id = a.dflt, !.frame = 0, !.last = AnimLast[a.dflt]] \in Animating
  BY <1>1, AnimFields
<1>3. [a EXCEPT !.last = AnimLast[a.id], !.frame = IF a.frame >= AnimLast[a.id] THEN 0 ELSE @] \in Animating
  <2>1. (IF a.frame >= AnimLast[a.id] THEN 0 ELSE a.frame) \in Nat
    BY <1>1
  <2> QED BY <1>1, <2>1, AnimFields
<1>4. [a EXCEPT !.frame = 0] \in Animating /\ [a EXCEPT !.frame = a.last] \in Animating
  BY <1>1, AnimFields
<1>5. [a EXCEPT !.state = 4, !.frame = a.last] \in Animating
  BY <1>1, AnimFields
<1>6. [a EXCEPT !.state = 0] \in Animating /\ [a EXCEPT !.state = 3] \in Animating
  BY <1>1, AnimFields
<1> QED BY <1>2, <1>3, <1>4, <1>5, <1>6 DEF NextAnim

LEMMA AnimStateKept ==
    ASSUME IInv, FieldUpdateAnimationState
    PROVE  IInv'
<1>1. ScriptsOK /\ ModelsOK /\ FrameOK /\ MovesOK
  BY DEF IInv
<1>2. /\ UNCHANGED <<pos, dir, fix, go, turn, ofs, stack, pcModel, lock, cur, ops, words, halted, asks>>
      /\ phase = "anims" /\ phase' = "moves"
  BY DEF FieldUpdateAnimationState, Fixed
<1>3. anim' \in [Body -> Animating]
  BY <1>1, NextAnimTyped DEF FieldUpdateAnimationState, ModelsOK
<1>4. ScriptsOK' /\ ModelsOK' /\ FrameOK'
  BY <1>1, <1>2, <1>3 DEF ScriptsOK, ModelsOK, FrameOK
<1>5. ASSUME NEW e \in Body PROVE GoOK(e)'
  <2>1. GoOK(e) /\ Now(e)' = Now(e)
    BY <1>1, <1>2 DEF MovesOK, Now
  <2> QED BY <1>2, <2>1 DEF GoOK
<1> QED BY <1>4, <1>5 DEF IInv, MovesOK

LEMMA TurnedDirTyped ==
    ASSUME ModelsOK, NEW e \in Body
    PROVE  TurnedDir(e) \in Dir
<1>1. dir[e] \in Dir /\ turn[e] \in Turning /\ (turn[e].type \in {1, 2} => turn[e].steps > 0)
  BY DEF ModelsOK
<1>2. /\ turn[e].start \in Int /\ turn[e].end \in Int /\ turn[e].step \in Nat /\ turn[e].steps \in Nat
  BY <1>1, Sizes DEF Turning, Dir
<1>3. CASE turn[e].type \in {1, 2}
  <2>1. turn[e].steps > 0
    BY <1>1, <1>3
  <2>2. /\ Exact(turn[e].start, turn[e].end, turn[e].steps, turn[e].step) % FullTurn \in Dir
        /\ EaseInOut(turn[e].start, turn[e].end, turn[e].steps, turn[e].step) % FullTurn \in Dir
    BY <1>2, <2>1, LinearDir
  <2> QED BY <1>3, <2>2 DEF TurnedDir
<1>4. CASE turn[e].type \notin {1, 2}
  BY <1>1, <1>4 DEF TurnedDir
<1> QED BY <1>3, <1>4

LEMMA TurnedTyped ==
    ASSUME NEW t \in Turning, t.type \in {1, 2} => t.steps > 0
    PROVE  Turned(t) \in Turning /\ (Turned(t).type \in {1, 2} => Turned(t).steps > 0)
<1>1. CASE t.type \in {1, 2} /\ t.step = t.steps
  <2> DEFINE u == [t EXCEPT !.type = 3]
  <2>1. u \in Turning /\ u.type = 3
    BY DEF Turning
  <2> HIDE DEF u
  <2>2. Turned(t) = u
    BY <1>1 DEF Turned, u
  <2> QED BY <2>1, <2>2
<1>2. CASE t.type \in {1, 2} /\ t.step # t.steps
  <2>1. (t.step + 1) % StepLimit \in 0 .. StepLimit - 1
    <3>1. t.step \in Nat /\ StepLimit \in Nat /\ StepLimit > 0
      BY Sizes DEF Turning
    <3> QED BY <3>1
  <2> DEFINE u == [t EXCEPT !.step = (t.step + 1) % StepLimit]
  <2>2. u \in Turning /\ u.type = t.type /\ u.steps = t.steps
    BY <2>1 DEF Turning
  <2>3. Turned(t) = u
    BY <1>2 DEF Turned
  <2> HIDE DEF u
  <2> QED BY <2>2, <2>3
<1>3. CASE t.type \notin {1, 2}
  BY <1>3 DEF Turned
<1> QED BY <1>1, <1>2, <1>3

LEMMA OffsetTyped ==
    ASSUME NEW o \in Offsetting, o.type \in {1, 2} => o.step <= o.steps /\ o.steps > 0
    PROVE  Offset(o) \in Offsetting
           /\ (Offset(o).type \in {1, 2} => Offset(o).step <= Offset(o).steps /\ Offset(o).steps > 0)
<1>0. o.step \in 0 .. MaxSteps /\ o.steps \in 0 .. MaxSteps
  BY DEF Offsetting
<1>1. CASE o.type \in {1, 2} /\ o.step = o.steps
  <2> DEFINE u == [o EXCEPT !.type = 3]
  <2>1. u \in Offsetting /\ u.type = 3
    BY DEF Offsetting
  <2>2. Offset(o) = u
    BY <1>1 DEF Offset
  <2> HIDE DEF u
  <2> QED BY <2>1, <2>2
<1>2. CASE o.type \in {1, 2} /\ o.step # o.steps
  <2>1. o.step + 1 \in 0 .. MaxSteps /\ o.step + 1 <= o.steps /\ o.steps > 0
    BY <1>0, <1>2, Sizes
  <2> DEFINE u == [o EXCEPT !.step = o.step + 1]
  <2>2. u \in Offsetting /\ u.type = o.type /\ u.steps = o.steps /\ u.step = o.step + 1
    BY <2>1 DEF Offsetting
  <2>3. Offset(o) = u
    BY <1>2 DEF Offset
  <2> HIDE DEF u
  <2> QED BY <2>1, <2>2, <2>3
<1>3. CASE o.type \notin {1, 2}
  BY <1>3 DEF Offset
<1> QED BY <1>1, <1>2, <1>3

LEMMA AnimStepTyped ==
    ASSUME NEW e, NEW a \in Animating
    PROVE  AnimStep(e, a) \in Animating
<1> DEFINE f == a.frame + 1
<1>1. /\ a.last \in Nat /\ f \in Nat /\ a.id \in AnimId /\ AnimLast[a.id] \in Nat /\ 0 \in Nat /\ 0 \in 0 .. 6
      /\ (IF AnimLast[a.id] < f THEN 0 ELSE f) \in Nat
      /\ (IF a.last < f THEN a.last ELSE f) \in Nat
  BY AnimTyped DEF Animating
<1>2. [a EXCEPT !.last = AnimLast[a.id], !.frame = IF AnimLast[a.id] < f THEN 0 ELSE f] \in Animating
  BY <1>1, AnimFields
<1>3. [a EXCEPT !.frame = IF a.last < f THEN a.last ELSE f] \in Animating
  BY <1>1, AnimFields
<1> QED BY <1>2, <1>3 DEF AnimStep

\* What the update does to a model is typed, stays in order and of its mode.
Updated(e, r) ==
    /\ r.pos \in Place /\ r.dir \in Dir /\ r.go \in Going /\ r.anim \in Animating
    /\ r.go.mode = go[e].mode
    /\ InOrder(r.go, Now(e), r.pos)

LEMMA ControlledOK ==
    ASSUME IInv, NEW x \in Outside, Possible(x), NEW e \in Body, NEW d \in Dir, go[e].mode = NoMode
    PROVE  Updated(e, Controlled(e, d, x))
<1>1. /\ go[e] \in Going /\ pos[e] \in Place /\ anim[e] \in Animating
      /\ x.face \in Dir
  BY DEF IInv, ModelsOK, Outside
<1>2. \A p : InOrder(go[e], Now(e), p)
  BY DEF InOrder
<1>3. \A n \in AnimId : [anim[e] EXCEPT !.id = n] \in Animating
  BY <1>1 DEF Animating
<1>4. (IF x.stick = 0 THEN IdleAnim ELSE WalkAnim) \in AnimId
  BY AnimTyped
<1>5. CASE Free(e)
  <2> DEFINE a == AnimStep(e, [anim[e] EXCEPT !.id = IF x.stick = 0 THEN IdleAnim ELSE WalkAnim])
             f == IF fix[e] THEN d ELSE x.face
  <2>1. a \in Animating /\ f \in Dir
    BY <1>1, <1>3, <1>4, AnimStepTyped
  <2>2. Controlled(e, d, x) = [pos |-> pos[e] + x.stick, go |-> go[e], dir |-> f, anim |-> a]
    BY <1>5 DEF Controlled
  <2>3. pos[e] + x.stick \in Place
    <3>1. e = pcModel /\ x.stick \in Int
      BY <1>5 DEF Free, Outside, Pace
    <3>2. CASE x.stick = 0
      BY <1>1, <3>2 DEF Place
    <3>3. CASE pos[pcModel] + x.stick \in Yard
      BY <3>1, <3>3, Sizes
    <3> QED BY <3>2, <3>3 DEF Possible
  <2> HIDE DEF a, f
  <2> QED BY <1>1, <1>2, <2>1, <2>2, <2>3 DEF Updated
<1>6. CASE ~Free(e)
  <2> DEFINE a == AnimStep(e, anim[e])
  <2>1. a \in Animating
    BY <1>1, AnimStepTyped
  <2>2. Controlled(e, d, x) = [pos |-> pos[e], go |-> go[e], dir |-> d, anim |-> a]
    BY <1>6 DEF Controlled
  <2> HIDE DEF a
  <2> QED BY <1>1, <1>2, <2>1, <2>2 DEF Updated
<1> QED BY <1>5, <1>6

LEMMA WalkedOK ==
    ASSUME IInv, NEW x \in Outside, Possible(x), NEW e \in Body, NEW d \in Dir, go[e].mode = Walking
    PROVE  Updated(e, Walked(e, d, x))
<1> DEFINE g == go[e]
           i == Now(e)
           there == Dist(pos[e], g.end) < Stride
           close == g.arg # 0 /\ Dist(pos[e], g.end) <= Reach
           ahead == IF pos[e] < g.end THEN pos[e] + Stride ELSE pos[e] - Stride
           a == AnimStep(e, anim[e])
<1>1. /\ g \in Going /\ pos[e] \in Place /\ anim[e] \in Animating /\ g.end \in Place
      /\ x.face \in Dir /\ (e \in MayBlock => pos[e] + x.slide[e] \in Place) /\ g.mode = Walking
  BY DEF IInv, ModelsOK, Outside, Going, Possible
<1>2. InOrder(g, i, pos[e])
  BY DEF IInv, MovesOK, GoOK
<1>3. a \in Animating
  BY <1>1, AnimStepTyped
<1>4. /\ Asks(i, Walking) /\ (i.op # "MOVA" => g.end = i.at /\ g.arg = 0) /\ (i.op = "MOVA" => g.arg = Reach)
  BY <1>1, <1>2 DEF InOrder, Walking, NoMode
<1>5. ASSUME NEW h \in Going, h.mode = Walking, h.end = g.end, h.arg = g.arg, NEW p,
             h.act = 2 => IF i.op = "MOVA" THEN Dist(p, h.end) <= Reach ELSE p = h.end
      PROVE  InOrder(h, i, p)
  BY <1>4, <1>5 DEF InOrder, Walking, Jumping, Ladders, NoMode
<1>6. CASE there \/ close
  <2> DEFINE p == IF close THEN pos[e] ELSE g.end
             h == [g EXCEPT !.act = 2]
  <2>1. h \in Going /\ h.mode = Walking /\ h.end = g.end /\ h.arg = g.arg
    BY <1>1 DEF Going
  <2>2. p \in Place
    BY <1>1
  <2>3. IF i.op = "MOVA" THEN Dist(p, g.end) <= Reach ELSE p = g.end
    <3>1. CASE close
      BY <1>4, <3>1
    <3>2. CASE ~close
      <4>1. Dist(g.end, g.end) <= Reach
        BY <1>1, Sizes DEF Dist, Place
      <4> QED BY <3>2, <4>1
    <3> QED BY <3>1, <3>2
  <2>4. Walked(e, d, x) = [pos |-> p, go |-> h, dir |-> d, anim |-> a]
    BY <1>6 DEF Walked
  <2> HIDE DEF p, h, a
  <2>5. InOrder(h, i, p)
    BY <1>5, <2>1, <2>3
  <2> QED BY <1>1, <1>3, <2>1, <2>2, <2>4, <2>5 DEF Updated
<1>7. CASE ~(there \/ close)
  <2> DEFINE p == IF e \in MayBlock THEN pos[e] + x.slide[e] ELSE ahead
             h == [g EXCEPT !.act = 1]
             f == CASE fix[e] -> d [] ~fix[e] /\ e \in MayBlock -> x.face
                    [] OTHER -> DirTo(pos[e], g.end)
  <2>1. h \in Going /\ h.mode = Walking /\ h.end = g.end /\ h.arg = g.arg /\ h.act = 1
    BY <1>1 DEF Going
  <2>2. ahead \in Place
    BY <1>1, <1>7, Sizes DEF Dist, Place
  <2>3. p \in Place
    BY <1>1, <2>2
  <2>4. f \in Dir
    BY <1>1, DistTyped
  <2>5. Walked(e, d, x) = [pos |-> p, go |-> h, dir |-> f, anim |-> a]
    BY <1>7 DEF Walked
  <2> HIDE DEF p, h, f, a
  <2>6. InOrder(h, i, p)
    BY <1>5, <2>1
  <2> QED BY <1>1, <1>3, <2>1, <2>3, <2>4, <2>5, <2>6 DEF Updated
<1> QED BY <1>6, <1>7

\* A jump begins.
LEMMA JumpBegun ==
    ASSUME NEW g \in Going, NEW p \in Place
    PROVE  LET h == [g EXCEPT !.act = 1, !.from = p, !.step = 0] IN
           /\ h \in Going /\ h.mode = g.mode /\ h.end = g.end /\ h.act = 1 /\ h.step = 0
           /\ h.steps = g.steps
<1>1. 0 \in Nat /\ 1 \in 0 .. 2
  OBVIOUS
<1> QED BY <1>1 DEF Going

LEMMA JumpedOK ==
    ASSUME IInv, NEW e \in Body, NEW d \in Dir, go[e].mode = Jumping
    PROVE  Updated(e, Jumped(e, d))
<1> DEFINE g == go[e]
           i == Now(e)
           a == AnimStep(e, anim[e])
<1>1. /\ g \in Going /\ pos[e] \in Place /\ anim[e] \in Animating /\ g.end \in Place /\ g.from \in Place
      /\ g.step \in Nat /\ g.steps \in Nat /\ g.mode = Jumping
  BY DEF IInv, ModelsOK, Going
<1>2. /\ Asks(i, Jumping) /\ (i.op # "MOVA" => g.end = i.at) /\ g.steps > 0
      /\ g.act # 0 => g.step <= g.steps /\ (g.step = g.steps => Reached(pos[e], g.from, g.end, g.steps))
      /\ g.act = 2 => g.step = g.steps
  <2>1. InOrder(g, i, pos[e])
    BY DEF IInv, MovesOK, GoOK
  <2> QED BY <1>1, <2>1 DEF InOrder, Jumping, NoMode
<1>3. a \in Animating
  BY <1>1, AnimStepTyped
<1>4. ASSUME NEW h \in Going, h.mode = Jumping, h.end = g.end, h.steps = g.steps, NEW p,
             h.step <= h.steps, h.step = h.steps => Reached(p, h.from, h.end, h.steps), h.act = 2 => h.step = h.steps
      PROVE  InOrder(h, i, p)
  BY <1>2, <1>4 DEF InOrder, Walking, Jumping, Ladders, NoMode
<1>5. CASE g.act = 0
  <2> DEFINE h == [g EXCEPT !.act = 1, !.from = pos[e], !.step = 0]
  <2>1. h \in Going /\ h.mode = Jumping /\ h.end = g.end /\ h.steps = g.steps /\ h.act = 1 /\ h.step = 0
    BY <1>1, JumpBegun
  <2>2. Jumped(e, d) = [dir |-> d, anim |-> a, pos |-> pos[e], go |-> h]
    BY <1>5 DEF Jumped
  <2> HIDE DEF h, a
  <2>3. InOrder(h, i, pos[e])
    BY <1>1, <1>2, <1>4, <2>1
  <2> QED BY <1>1, <1>3, <2>1, <2>2, <2>3 DEF Updated
<1>6. CASE g.act # 0 /\ g.step = g.steps
  <2> DEFINE h == [g EXCEPT !.act = 2]
  <2>1. h \in Going /\ h.mode = Jumping /\ h.end = g.end /\ h.steps = g.steps /\ h.step = g.step
        /\ h.from = g.from
    BY <1>1 DEF Going
  <2>2. Jumped(e, d) = [dir |-> d, anim |-> a, pos |-> pos[e], go |-> h]
    BY <1>6 DEF Jumped
  <2> HIDE DEF h, a
  <2>3. InOrder(h, i, pos[e])
    BY <1>1, <1>2, <1>4, <1>6, <2>1
  <2> QED BY <1>1, <1>3, <2>1, <2>2, <2>3 DEF Updated
<1>7. CASE g.act # 0 /\ g.step # g.steps
  <2> DEFINE h == [g EXCEPT !.step = g.step + 1]
             p == Linear(g.from, g.end, g.steps, g.step + 1)
  <2>1. g.step + 1 \in 0 .. g.steps /\ g.step + 1 \in Nat
    BY <1>1, <1>2, <1>7
  <2>2. h \in Going /\ h.mode = Jumping /\ h.end = g.end /\ h.steps = g.steps /\ h.step = g.step + 1
        /\ h.act = g.act /\ h.from = g.from
    BY <1>1, <2>1 DEF Going
  <2>3. p \in Place /\ (g.step + 1 = g.steps => Reached(p, g.from, g.end, g.steps))
    <3>1. \A s \in 0 .. g.steps : LET q == Linear(g.from, g.end, g.steps, s)
                                  IN q \in Place /\ (s = g.steps => Reached(q, g.from, g.end, g.steps))
      BY <1>1, <1>2, LinearBetween
    <3> QED BY <2>1, <3>1
  <2>4. Jumped(e, d) = [dir |-> d, anim |-> a, pos |-> p, go |-> h]
    BY <1>7 DEF Jumped
  <2>5. h.step <= h.steps /\ h.act # 2
    BY <1>2, <1>7, <2>1, <2>2
  <2> HIDE DEF h, a, p
  <2>6. InOrder(h, i, p)
    BY <1>4, <2>2, <2>3, <2>5
  <2> QED BY <1>1, <1>3, <2>2, <2>3, <2>4, <2>6 DEF Updated
<1> QED BY <1>5, <1>6, <1>7

LEMMA ClimbedOK ==
    ASSUME IInv, phase = "moves", ~DividesByZero, NEW x \in Outside, NEW e \in Body, NEW d \in Dir,
           go[e].mode \in Ladders
    PROVE  Updated(e, Climbed(e, d, x))
<1> DEFINE g == go[e]
           i == Now(e)
           a == anim[e]
           key == IF Free(e) THEN x.key ELSE "forth"
           moved == CASE key = "back" /\ g.step = 0 -> [g EXCEPT !.act = 2]
                      [] key = "back" /\ g.step # 0 -> [g EXCEPT !.step = @ - 1]
                      [] key = "forth" /\ g.step = g.steps -> [g EXCEPT !.act = 2]
                      [] key = "forth" /\ g.step # g.steps -> [g EXCEPT !.step = @ + 1]
                      [] OTHER -> g
           frame == CASE moved.step > g.step -> IF a.last < a.frame + 1 THEN 0 ELSE a.frame + 1
                      [] moved.step < g.step -> IF a.frame = 0 THEN a.last ELSE a.frame - 1
                      [] OTHER -> a.frame
<1>1. /\ g \in Going /\ pos[e] \in Place /\ a \in Animating /\ g.end \in Place /\ g.from \in Place
      /\ g.step \in Nat /\ g.steps \in Nat /\ g.mode \in Ladders
      /\ x.key \in {"none", "back", "forth"}
  BY DEF IInv, ModelsOK, Going, Outside
<1>2. /\ Asks(i, g.mode) /\ (i.op # "MOVA" => g.end = i.at)
      /\ g.act # 0 => g.step <= g.steps
      /\ g.act # 2
  <2>1. InOrder(g, i, pos[e]) /\ (g.mode # NoMode /\ g.act = 2 => phase = "scripts")
    BY DEF IInv, MovesOK, GoOK
  <2> QED BY <1>1, <2>1 DEF InOrder, Ladders, NoMode
<1>3. a.frame \in Nat /\ a.last \in Nat /\ a.id \in AnimId /\ AnimLast[a.id] \in Nat /\ 0 \in 0 .. 6
  BY <1>1, AnimTyped DEF Animating
<1>4. ASSUME NEW h \in Going, h.mode = g.mode, h.end = g.end, NEW p, h.act # 0, h.step <= h.steps,
             h.steps > 0 => (h.step = 0 => p = h.from) /\ (h.step = h.steps => Reached(p, h.from, h.end, h.steps)),
             h.act = 2 => h.steps > 0 /\ h.step \in {0, h.steps}
      PROVE  InOrder(h, i, p)
  BY <1>1, <1>2, <1>4 DEF InOrder, Walking, Jumping, Ladders, NoMode
<1>5. CASE g.act = 0
  <2> DEFINE n == Dist(pos[e], g.end) \div Rung
             h == [g EXCEPT !.act = 1, !.from = pos[e], !.step = 0, !.steps = n]
             b == [a EXCEPT !.last = AnimLast[a.id]]
  <2>1. n \in Nat
    <3>1. \A k \in Nat : k \div Rung \in Nat
      BY Sizes
    <3> QED BY <1>1, <3>1, DistTyped
  <2>2. Climbed(e, d, x) = [pos |-> pos[e], dir |-> d, anim |-> b, go |-> h]
    BY <1>5 DEF Climbed
  <2> HIDE DEF n
  <2>3. /\ h \in Going /\ h.mode = g.mode /\ h.end = g.end /\ h.act = 1 /\ h.step = 0
        /\ h.steps = n /\ h.from = pos[e]
    <3>1. 0 \in Nat /\ 1 \in 0 .. 2
      OBVIOUS
    <3> QED BY <1>1, <2>1, <3>1 DEF Going
  <2>4. b \in Animating
    BY <1>1, <1>3, AnimFields
  <2> HIDE DEF h, b
  <2>5. InOrder(h, i, pos[e])
    BY <1>4, <2>1, <2>3
  <2> QED BY <1>1, <2>2, <2>3, <2>4, <2>5 DEF Updated
<1>6. CASE g.act # 0
  <2> DEFINE p == Linear(g.from, g.end, g.steps, moved.step)
             b == [a EXCEPT !.frame = frame]
  <2>1. g.steps > 0 /\ g.act = 1 /\ g.step <= g.steps
    <3>1. g.act \in 0 .. 2
      BY <1>1 DEF Going
    <3>2. g.steps # 0
      BY <1>1, <1>6 DEF DividesByZero
    <3> QED BY <1>1, <1>2, <1>6, <3>1, <3>2
  <2>2. /\ moved \in Going /\ moved.mode = g.mode /\ moved.end = g.end /\ moved.steps = g.steps
        /\ moved.from = g.from /\ moved.step \in 0 .. g.steps /\ moved.act # 0
        /\ moved.act = 2 => moved.step \in {0, g.steps}
    <3>1. CASE moved = [g EXCEPT !.act = 2] /\ g.step \in {0, g.steps}
      BY <1>1, <2>1, <3>1 DEF Going
    <3>2. CASE moved = [g EXCEPT !.step = g.step - 1] /\ g.step # 0
      BY <1>1, <2>1, <3>2 DEF Going
    <3>3. CASE moved = [g EXCEPT !.step = g.step + 1] /\ g.step # g.steps
      BY <1>1, <2>1, <3>3 DEF Going
    <3>4. CASE moved = g
      BY <1>1, <2>1, <3>4 DEF Going
    <3>5. key \in {"none", "back", "forth"}
      BY <1>1
    <3> HIDE DEF key
    <3> QED BY <3>1, <3>2, <3>3, <3>4, <3>5
  <2> HIDE DEF moved
  <2>3. frame \in Nat
    BY <1>3
  <2> HIDE DEF frame
  <2>4. b \in Animating
    BY <1>1, <1>3, <2>3, AnimFields
  <2>5. /\ p \in Place /\ (moved.step = 0 => p = g.from)
        /\ moved.step = g.steps => Reached(p, g.from, g.end, g.steps)
    BY <1>1, <2>1, <2>2, LinearBetween
  <2>6. Climbed(e, d, x) = [pos |-> p, dir |-> d, anim |-> b, go |-> moved]
    BY <1>6 DEF Climbed, moved, frame
  <2> HIDE DEF p, b
  <2>7. InOrder(moved, i, p)
    BY <1>4, <2>1, <2>2, <2>5
  <2> QED BY <1>1, <2>2, <2>4, <2>5, <2>6, <2>7 DEF Updated
<1> QED BY <1>5, <1>6

LEMMA AfterOK ==
    ASSUME IInv, phase = "moves", ~DividesByZero, NEW x \in Outside, Possible(x), NEW e \in Body
    PROVE  Updated(e, After(e, x))
<1>1. TurnedDir(e) \in Dir
  BY TurnedDirTyped DEF IInv
<1>2. go[e].mode \in {NoMode, Walking, Jumping} \cup Ladders
  BY DEF IInv, ModelsOK, Going
<1> QED BY <1>1, <1>2, ControlledOK, WalkedOK, JumpedOK, ClimbedOK
        DEF After, NoMode, Walking, Jumping, Ladders

LEMMA MovementKept ==
    ASSUME IInv, FieldEntityMovementUpdate
    PROVE  IInv'
<1>1. ScriptsOK /\ ModelsOK /\ FrameOK /\ MovesOK
  BY DEF IInv
<1>2. /\ UNCHANGED <<fix, stack, pcModel, lock, cur, ops, words, halted, asks>>
      /\ phase = "moves" /\ phase' = "scripts" /\ ~DividesByZero
  BY DEF FieldEntityMovementUpdate, Fixed
<1>3. PICK x \in Outside :
         /\ Possible(x)
         /\ pos' = [e \in Body |-> After(e, x).pos]
         /\ dir' = [e \in Body |-> After(e, x).dir]
         /\ go' = [e \in Body |-> After(e, x).go]
         /\ anim' = [e \in Body |-> After(e, x).anim]
  BY DEF FieldEntityMovementUpdate
<1>4. \A e \in Body : Updated(e, After(e, x))
  BY <1>2, <1>3, AfterOK
<1>5. ModelsOK'
  <2>1. /\ pos' \in [Body -> Place] /\ dir' \in [Body -> Dir] /\ go' \in [Body -> Going]
        /\ anim' \in [Body -> Animating]
    BY <1>3, <1>4 DEF Updated
  <2>2. /\ turn' \in [Body -> Turning] /\ ofs' \in [Body -> Offsetting]
        /\ \A e \in Body : /\ ofs'[e].type \in {1, 2} => ofs'[e].step <= ofs'[e].steps /\ ofs'[e].steps > 0
                           /\ turn'[e].type \in {1, 2} => turn'[e].steps > 0
    BY <1>1, TurnedTyped, OffsetTyped DEF FieldEntityMovementUpdate, ModelsOK
  <2> QED BY <1>1, <1>2, <2>1, <2>2 DEF ModelsOK
<1>6. ScriptsOK' /\ FrameOK'
  BY <1>1, <1>2 DEF ScriptsOK, FrameOK
<1>7. ASSUME NEW e \in Body PROVE GoOK(e)'
  <2>1. /\ InOrder(go'[e], Now(e), pos'[e]) /\ go'[e].mode = go[e].mode
    BY <1>3, <1>4 DEF Updated
  <2>2. Now(e)' = Now(e) /\ fix'[e] = fix[e] /\ GoOK(e)
    BY <1>1, <1>2 DEF Now, MovesOK
  <2>3. cur' = 0 /\ e >= cur'
    BY <1>1, <1>2, Sizes DEF FrameOK, Body
  <2> QED BY <1>2, <2>1, <2>2, <2>3 DEF GoOK
<1> QED BY <1>5, <1>6, <1>7 DEF IInv, MovesOK
----------------------------------------------------------------------------
(***************************************************************************)
(* The theorems                                                            *)
(***************************************************************************)
LEMMA InitOK == Init => IInv
<1> SUFFICES ASSUME Init PROVE IInv
  OBVIOUS
<1>1. ScriptsOK
  <2>1. PICK m \in Maps : words = m.words
    BY DEF Init
  <2>2. words \in [Body -> SUBSET Instr]
    BY <2>1, MotionWords
  <2>3. ASSUME NEW e \in Body
        PROVE  /\ stack[e] \in Seq(Instr) /\ stack[e] # << >>
               /\ \A k \in 1 .. Len(stack[e]) : stack[e][k] \in words[e]
               /\ stack[e][Len(stack[e])].op # "RET"
    <3>1. PICK i \in UNION {words[d] : d \in Body} : stack[e] = <<i>>
      BY DEF Init
    <3>2. i \in words[e] /\ i.op # "RET"
      BY <3>1 DEF Init, Now
    <3> QED BY <2>2, <3>1, <3>2
  <2>4. \E S : stack \in [Body -> S]
    BY DEF Init
  <2> QED BY <2>1, <2>3, <2>4 DEF ScriptsOK
<1>2. 0 \in Body /\ 0 \in Place /\ 0 \in Dir /\ 0 \in Nat /\ 0 \in 0 .. 3 /\ 0 \in 0 .. MaxSteps
      /\ 0 \in 0 .. StepLimit - 1 /\ 0 \in -FullTurn .. 2 * FullTurn /\ 0 \in 0 .. 6 /\ 0 \in 0 .. 2
  BY Sizes DEF Body, Place, Dir
<1>3. /\ Standing \in Going /\ Standing.mode = NoMode
      /\ NoTurn \in Turning /\ NoTurn.type = 0
      /\ NoOffset \in Offsetting /\ NoOffset.type = 0
      /\ NoAnim \in Animating
  BY <1>2, AnimTyped DEF Standing, NoTurn, NoOffset, NoAnim, Going, Turning, Offsetting, Animating
<1>4. lock \in BOOLEAN
  BY MotionWords DEF Init
<1>5. \A e \in Body : e % (Far + 1) \in Place
  BY Sizes DEF Body, Place
<1>6. ModelsOK
  BY <1>2, <1>3, <1>4, <1>5 DEF Init, ModelsOK
<1>7. FrameOK
  <2>1. OpsPerTurn \in 1 .. OpsPerTurn /\ 0 \in 0 .. MaxAsks
    BY Sizes
  <2> QED BY <1>2, <2>1 DEF Init, FrameOK
<1>8. MovesOK
  BY <1>3 DEF Init, MovesOK, GoOK, InOrder, NoMode, Walking
<1> QED BY <1>1, <1>6, <1>7, <1>8 DEF IInv

LEMMA StutterOK == IInv /\ UNCHANGED vars => IInv'
<1> SUFFICES ASSUME IInv, UNCHANGED vars PROVE IInv'
  OBVIOUS
<1> USE DEF vars, body, clock
<1>1. ScriptsOK' /\ ModelsOK' /\ FrameOK'
  BY DEF IInv, ScriptsOK, ModelsOK, FrameOK
<1>2. ASSUME NEW e \in Body PROVE GoOK(e)'
  <2>1. GoOK(e) /\ Now(e)' = Now(e)
    BY DEF IInv, MovesOK, Now
  <2> QED BY <2>1 DEF GoOK
<1> QED BY <1>1, <1>2 DEF IInv, MovesOK

LEMMA NextOK == IInv /\ [Next]_vars => IInv'
<1> SUFFICES ASSUME IInv, [Next]_vars PROVE IInv'
  OBVIOUS
<1>1. CASE Handler
  BY <1>1, HandlerKeeps
<1>2. CASE FieldUpdateAnimationState
  BY <1>2, AnimStateKept
<1>3. CASE FieldEntityMovementUpdate
  BY <1>3, MovementKept
<1>4. CASE Halt
  <2> USE DEF clock, body
  <2>1. ScriptsOK' /\ ModelsOK' /\ FrameOK'
    BY <1>4 DEF Halt, IInv, ScriptsOK, ModelsOK, FrameOK
  <2>2. ASSUME NEW e \in Body PROVE GoOK(e)'
    <3>1. GoOK(e) /\ Now(e)' = Now(e)
      BY <1>4 DEF Halt, IInv, MovesOK, Now
    <3> QED BY <1>4, <3>1 DEF Halt, GoOK
  <2> QED BY <2>1, <2>2 DEF IInv, MovesOK
<1>5. CASE UNCHANGED vars
  BY <1>5, StutterOK
<1>6. ASSUME NEW e \in Body, Request(e) PROVE IInv'
  BY <1>6, RequestKept
<1> QED BY <1>1, <1>2, <1>3, <1>4, <1>5, <1>6 DEF Next, Engine, Stopped

LEMMA AlwaysIInv == Spec => []IInv
BY InitOK, NextOK, PTL DEF Spec

\* Whatever scripts do with their models, the orders, positions, directions and
\* animations stay in their types: TypeOK of every run.
THEOREM MotionTypes == Spec => []TypeOK
<1>1. IInv => TypeOK
  <2> SUFFICES ASSUME IInv PROVE TypeOK
    OBVIOUS
  <2>1. \A e \in Body : stack[e] # << >> /\ Now(e) \in words[e]
    BY WordsTyped DEF IInv, ScriptsOK
  <2> QED BY <2>1 DEF IInv, ScriptsOK, ModelsOK, FrameOK, TypeOK
<1> QED BY <1>1, AlwaysIInv, PTL

\* A movement is always the one the running script's opcode asked for.
THEOREM MovesAreOwned == Spec => []MoveOwned
<1>1. IInv => MoveOwned
  BY DEF IInv, MovesOK, GoOK, InOrder, MoveOwned
<1> QED BY <1>1, AlwaysIInv, PTL

\* A movement that is over has got where its opcode wanted it, a long jump or
\* climb but for less than its steps.
THEOREM MovesEndWhereAsked == Spec => []EndsWhereAsked
<1>1. IInv => EndsWhereAsked
  <2> SUFFICES ASSUME IInv, NEW e \in Body, go[e].mode # NoMode, go[e].act = 2
               PROVE  CASE go[e].mode = Walking /\ Now(e).op = "MOVA" -> Dist(pos[e], go[e].end) <= Reach
                        [] go[e].mode = Walking /\ Now(e).op # "MOVA" -> pos[e] = Now(e).at
                        [] go[e].mode = Jumping -> Reached(pos[e], go[e].from, Now(e).at, go[e].steps)
                        [] OTHER -> \/ pos[e] = go[e].from
                                    \/ Reached(pos[e], go[e].from, Now(e).at, go[e].steps)
    BY DEF EndsWhereAsked
  <2>1. InOrder(go[e], Now(e), pos[e]) /\ go[e] \in Going
    BY DEF IInv, MovesOK, GoOK, ModelsOK
  <2>2. CASE go[e].mode = Walking
    BY <2>1, <2>2 DEF InOrder, Asks, Walking, Jumping, NoMode
  <2>3. CASE go[e].mode = Jumping
    BY <2>1, <2>3 DEF InOrder, Asks, Walking, Jumping, Ladders, NoMode
  <2>4. CASE go[e].mode \in Ladders
    BY <2>1, <2>4 DEF InOrder, Asks, Walking, Jumping, Ladders, NoMode
  <2>5. go[e].mode \in {NoMode, Walking, Jumping} \cup Ladders
    BY <2>1 DEF Going
  <2> QED BY <2>2, <2>3, <2>4, <2>5
<1> QED BY <1>1, AlwaysIInv, PTL

\* No step counter passes the number it is compared with for equality.
THEOREM StepsStayInside == Spec => []StepsInside
<1>1. IInv => StepsInside
  <2> SUFFICES ASSUME IInv, NEW e \in Body
               PROVE  /\ ofs[e].type \in {1, 2} => ofs[e].step <= ofs[e].steps /\ ofs[e].steps > 0
                      /\ go[e].mode \in {Jumping} \cup Ladders /\ go[e].act # 0 => go[e].step <= go[e].steps
    BY DEF StepsInside
  <2>1. InOrder(go[e], Now(e), pos[e])
    BY DEF IInv, MovesOK, GoOK
  <2> QED BY <2>1 DEF IInv, ModelsOK, InOrder, NoMode, Jumping, Ladders
<1> QED BY <1>1, AlwaysIInv, PTL

FacingHeldStep == [\A e \in Body : FacingHeld(e)]_vars

\* CMOVE never turns a model that no turn is under way for.
THEOREM CmoveKeepsFacing == Spec => CmoveHoldsFacing
<1>1. IInv /\ [Next]_vars => FacingHeldStep
  <2> SUFFICES ASSUME IInv, Next, NEW e \in Body, go[e].mode = Walking, Now(e).op = "CMOVE",
                      turn[e].type \notin {1, 2}
               PROVE  dir'[e] = dir[e]
    BY DEF FacingHeldStep, FacingHeld
  <2>1. fix[e] /\ TurnedDir(e) = dir[e]
    BY DEF IInv, MovesOK, GoOK, TurnedDir
  <2>2. CASE dir' = dir
    BY <2>2
  <2>3. CASE FieldEntityMovementUpdate
    <3>1. PICK x \in Outside : dir' = [d \in Body |-> After(d, x).dir]
      BY <2>3 DEF FieldEntityMovementUpdate
    <3>2. After(e, x) = Walked(e, dir[e], x)
      BY <2>1 DEF After, Walking, Jumping, NoMode
    <3>3. Walked(e, dir[e], x).dir = dir[e]
      BY <2>1 DEF Walked
    <3> QED BY <3>1, <3>2, <3>3
  <2>4. CASE SetDir \/ FieldEventSetDirByActorId \/ Lader
    <3>1. cur \in Body /\ dir \in [Body -> Dir] /\ Now(cur).op # "CMOVE"
      BY <2>4, TurnHandles, WalkHandles, HandlesKeeps DEF IInv, FrameOK, ModelsOK
    <3>2. \A d \in Body : d # cur => dir'[d] = dir[d]
      BY <2>4, <3>1 DEF SetDir, FieldEventSetDirByActorId, SnapTo, Lader
    <3> QED BY <3>1, <3>2
  <2>5. CASE Handler /\ ~(SetDir \/ FieldEventSetDirByActorId \/ Lader)
    <3>1. dir' = dir
      BY <2>5 DEF Handler, Move, Fmove, Cmove, FieldMoveToEntityUpdate, Jump, Fcfix, Xyzi, Turn, Turnr,
           FieldEntityTurnToEntity, Turnw, Ofstd, Ofstw, Anime, AnimEx, Canim, CanmEx, Animw, Animb, Dfanm,
           AnimFrame, Uc, Cc, Idle, Ret, Retto, body
    <3> QED BY <2>2, <3>1
  <2>6. CASE FieldUpdateAnimationState \/ Halt \/ Stopped \/ \E d \in Body : Request(d)
    <3>1. dir' = dir
      BY <2>6 DEF FieldUpdateAnimationState, Halt, Stopped, Request, vars, body
    <3> QED BY <2>2, <3>1
  <2> QED BY <2>3, <2>4, <2>5, <2>6 DEF Next, Engine
<1> QED BY <1>1, AlwaysIInv, PTL DEF Spec, CmoveHoldsFacing, FacingHeldStep
=============================================================================
