--------------------------- MODULE DissectorProofs ---------------------------
(***************************************************************************)
(* Proofs about the dissector, for any greetings, names and passwords that *)
(* DissectorAssumption allows, any number of lines, cut anywhere, and with *)
(* the switch turned at any time.                                          *)
(***************************************************************************)
EXTENDS Dissector, SequenceTheorems, WellFoundedInduction, TLAPS

-----------------------------------------------------------------------------
(* Where the lines lie in what the client sent.                            *)

(* A set of numbers that is not empty has a smallest one.                  *)
LEMMA LeastNumber ==
  ASSUME NEW T \in SUBSET Nat, T # {}
  PROVE  \E x \in T : \A y \in T : x <= y
<1>1. PICK x \in T : \A y \in T : ~(<<y, x>> \in OpToRel(<, Nat))
  BY NatLessThanWellFounded, WFMin
<1>2. ASSUME NEW y \in T, y < x PROVE FALSE
  <2> DEFINE P == {pair \in Nat \X Nat : pair[1] < pair[2]}
  <2>1. <<y, x>> \in P
    BY <1>2
  <2>2. P = OpToRel(<, Nat)
    BY Zenon DEF OpToRel
  <2> HIDE DEF P
  <2> QED
    BY <1>1, <2>1, <2>2, Zenon
<1> QED
  BY <1>2

(* The sizes of the lines of s summed up to j, by f.                    *)
EndAt(s, f, j) == IF j = 0 THEN 0 ELSE f[j - 1] + Len(LineBytes(s[j]))

Sums(s, k, f) == f = [j \in 0 .. k |-> EndAt(s, f, j)]

(* EndOf for the lines s.                                               *)
Ends(s, k) == LET e[j \in 0 .. k] == IF j = 0 THEN 0 ELSE e[j - 1] + Len(LineBytes(s[j]))
              IN  e[k]

(* The recursive function of EndOf exists.                                 *)
LEMMA SumsExist ==
  ASSUME NEW s, NEW k \in Nat
  PROVE  \E f : Sums(s, k, f)
<1> DEFINE Sum(m, f) == f = [j \in 0 .. m |-> EndAt(s, f, j)]
           bad == {m \in Nat : ~\E f : Sum(m, f)}
<1>1. SUFFICES ASSUME k \in bad PROVE FALSE
  BY DEF Sums
<1>2. PICK m \in bad : \A y \in bad : m <= y
  <2>1. bad \in SUBSET Nat /\ bad # {}
    BY <1>1
  <2> HIDE DEF bad
  <2> QED
    BY <2>1, LeastNumber
<1>3. m # 0
  <2>1. SUFFICES ASSUME m = 0 PROVE \E f : Sum(0, f)
    OBVIOUS
  <2> DEFINE g == [j \in 0 .. 0 |-> 0]
  <2>2. \A j \in 0 .. 0 : EndAt(s, g, j) = 0
    BY DEF EndAt
  <2>3. Sum(0, g)
    BY <2>2
  <2> QED
    BY <2>3
<1>4. m - 1 \in Nat /\ m - 1 \notin bad
  BY <1>2, <1>3
<1>5. PICK g : Sum(m - 1, g)
  BY <1>4
<1> DEFINE h == [j \in 0 .. m |-> IF j < m THEN g[j] ELSE EndAt(s, g, m)]
<1>6. ASSUME NEW j \in 0 .. m PROVE h[j] = EndAt(s, h, j)
  <2>1. j > 0 => h[j - 1] = g[j - 1]
    OBVIOUS
  <2>2. EndAt(s, h, j) = EndAt(s, g, j)
    <3> HIDE DEF h
    <3> QED
      BY <2>1 DEF EndAt
  <2>3. CASE j < m
    <3>1. j \in 0 .. m - 1
      BY <1>4, <2>3
    <3>2. g[j] = EndAt(s, g, j)
      BY <1>5, <3>1
    <3> QED
      BY <2>2, <2>3, <3>2
  <2>4. CASE j = m
    BY <2>2, <2>4
  <2> QED
    BY <2>3, <2>4
<1>7. Sum(m, h)
  <2>1. h = [j \in 0 .. m |-> h[j]]
    OBVIOUS
  <2> HIDE DEF h
  <2> QED
    BY <1>6, <2>1
<1> QED
  BY <1>7

(* Ends is the last of such sums.                                          *)
LEMMA EndsSums ==
  ASSUME NEW s, NEW k \in Nat
  PROVE  \E f : Sums(s, k, f) /\ Ends(s, k) = f[k]
<1> DEFINE e == CHOOSE f : f = [j \in 0 .. k |-> EndAt(s, f, j)]
<1>1. PICK f : f = [j \in 0 .. k |-> EndAt(s, f, j)]
  BY SumsExist DEF Sums
<1>2. e = [j \in 0 .. k |-> EndAt(s, e, j)]
  BY <1>1
<1>3. Ends(s, k) = e[k]
  BY DEF Ends, EndAt
<1> HIDE DEF e
<1> QED
  BY <1>2, <1>3 DEF Sums

Agree(s, t, m) == \A j \in 1 .. m : s[j] = t[j]

(* Two sums over lines that are the same so far agree.                  *)
LEMMA SumsAgree ==
  ASSUME NEW s, NEW t, NEW k \in Nat, NEW l \in Nat, NEW f, Sums(s, k, f), NEW g, Sums(t, l, g),
         NEW m \in Nat, m <= k, m <= l, Agree(s, t, m)
  PROVE  f[m] = g[m]
<1> DEFINE bad == {j \in 0 .. m : f[j] # g[j]}
<1>1. SUFFICES ASSUME bad # {} PROVE FALSE
  OBVIOUS
<1>2. PICK j \in bad : \A y \in bad : j <= y
  <2>1. bad \in SUBSET Nat
    OBVIOUS
  <2> HIDE DEF bad
  <2> QED
    BY <1>1, <2>1, LeastNumber
<1>3. j \in 0 .. k /\ j \in 0 .. l
  OBVIOUS
<1>4. f[j] = EndAt(s, f, j)
  BY <1>3 DEF Sums
<1>5. g[j] = EndAt(t, g, j)
  BY <1>3 DEF Sums
<1>6. CASE j = 0
  BY <1>2, <1>4, <1>5, <1>6 DEF EndAt
<1>7. CASE j # 0
  <2>1. j - 1 \in 0 .. m /\ ~(j <= j - 1) /\ j \in 1 .. m
    BY <1>2, <1>7
  <2>2. f[j - 1] = g[j - 1]
    BY <1>2, <2>1
  <2>3. s[j] = t[j]
    BY <2>1 DEF Agree
  <2> QED
    BY <1>2, <1>4, <1>5, <1>7, <2>2, <2>3 DEF EndAt
<1> QED
  BY <1>6, <1>7

(* A line ends its length after the one before it.                      *)
LEMMA EndsStep ==
  ASSUME NEW s, NEW k \in Nat
  PROVE  Ends(s, 0) = 0 /\ Ends(s, k + 1) = Ends(s, k) + Len(LineBytes(s[k + 1]))
<1>1. PICK z : Sums(s, 0, z) /\ Ends(s, 0) = z[0]
  BY EndsSums
<1>2. PICK f : Sums(s, k, f) /\ Ends(s, k) = f[k]
  BY EndsSums
<1>3. k + 1 \in Nat
  OBVIOUS
<1>4. PICK g : Sums(s, k + 1, g) /\ Ends(s, k + 1) = g[k + 1]
  BY <1>3, EndsSums
<1>5. z[0] = 0
  BY <1>1 DEF Sums, EndAt
<1>6. f[k] = g[k]
  <2>1. Agree(s, s, k) /\ k <= k /\ k <= k + 1
    BY DEF Agree
  <2> QED
    BY <1>2, <1>3, <1>4, <2>1, SumsAgree
<1>7. g[k + 1] = EndAt(s, g, k + 1)
  BY <1>4 DEF Sums
<1>8. EndAt(s, g, k + 1) = g[k] + Len(LineBytes(s[k + 1]))
  BY DEF EndAt
<1> QED
  BY <1>1, <1>2, <1>4, <1>5, <1>6, <1>7, <1>8

(* It does not matter what comes after.                                    *)
LEMMA EndsSame ==
  ASSUME NEW s, NEW t, NEW k \in Nat, \A j \in 1 .. k : s[j] = t[j]
  PROVE  Ends(s, k) = Ends(t, k)
<1>1. PICK f : Sums(s, k, f) /\ Ends(s, k) = f[k]
  BY EndsSums
<1>2. PICK g : Sums(t, k, g) /\ Ends(t, k) = g[k]
  BY EndsSums
<1>3. k <= k /\ Agree(s, t, k)
  BY DEF Agree
<1>4. f[k] = g[k]
  BY <1>1, <1>2, <1>3, SumsAgree
<1> QED
  BY <1>1, <1>2, <1>4
(* EndOf is Ends.                                                          *)
LEMMA EndOfIs ==
  ASSUME NEW k
  PROVE  EndOf(k) = Ends(lines, k)
BY DEF EndOf, Ends

-----------------------------------------------------------------------------
(* What a line looks like.                                                 *)

(* Two sequences of numbers joined.                                        *)
LEMMA JoinedUp ==
  ASSUME NEW s \in Seq(Nat), NEW t \in Seq(Nat)
  PROVE  /\ s \o t \in Seq(Nat) /\ Len(s \o t) = Len(s) + Len(t)
         /\ \A k \in 1 .. Len(s) : (s \o t)[k] = s[k]
         /\ \A k \in 1 .. Len(t) : (s \o t)[Len(s) + k] = t[k]
<1> DEFINE u == s \o t
<1>1. /\ u \in Seq(Nat) /\ Len(u) = Len(s) + Len(t)
      /\ \A k \in 1 .. Len(s) + Len(t) : u[k] = IF k <= Len(s) THEN s[k] ELSE t[k - Len(s)]
  BY ConcatProperties
<1> HIDE DEF u
<1>2. Len(s) \in Nat /\ Len(t) \in Nat
  OBVIOUS
<1>3. \A k \in 1 .. Len(s) : u[k] = s[k]
  BY <1>1, <1>2
<1>4. \A k \in 1 .. Len(t) : u[Len(s) + k] = t[k]
  <2> TAKE k \in 1 .. Len(t)
  <2>1. Len(s) + k \in 1 .. Len(s) + Len(t) /\ ~(Len(s) + k <= Len(s)) /\ (Len(s) + k) - Len(s) = k
    BY <1>2
  <2> QED
    BY <1>1, <2>1
<1> QED
  BY <1>1, <1>3, <1>4 DEF u

(* A keyword, an argument and the end of the line.                         *)
Parts(B, K, arg) ==
  /\ B \in Seq(Nat) /\ Len(B) = Len(K) + Len(arg) + 2
  /\ \A m \in 1 .. Len(K) : B[m] = K[m]
  /\ \A m \in 1 .. Len(arg) : B[Len(K) + m] = arg[m]
  /\ B[Len(K) + Len(arg) + 1] = CR /\ B[Len(K) + Len(arg) + 2] = LF

(* Joining them makes a line.                                              *)
LEMMA PartsJoined ==
  ASSUME NEW K \in Seq(Nat), NEW arg \in Seq(Nat)
  PROVE  Parts(K \o arg \o EOL, K, arg)
<1> DEFINE u == K \o arg
           B == u \o EOL
           k == Len(K)
           a == Len(arg)
<1>1. /\ u \in Seq(Nat) /\ Len(u) = k + a /\ k \in Nat /\ a \in Nat
      /\ \A m \in 1 .. k : u[m] = K[m]
      /\ \A m \in 1 .. a : u[k + m] = arg[m]
  BY JoinedUp
<1>2. EOL \in Seq(Nat) /\ Len(EOL) = 2 /\ EOL[1] = CR /\ EOL[2] = LF
  BY DEF EOL, CR, LF
<1> HIDE DEF u, k, a
<1>3. /\ B \in Seq(Nat) /\ Len(B) = Len(u) + 2
      /\ \A m \in 1 .. Len(u) : B[m] = u[m]
      /\ \A m \in 1 .. 2 : B[Len(u) + m] = EOL[m]
  <2>1. /\ B \in Seq(Nat) /\ Len(B) = Len(u) + Len(EOL)
        /\ \A m \in 1 .. Len(u) : B[m] = u[m]
        /\ \A m \in 1 .. Len(EOL) : B[Len(u) + m] = EOL[m]
    BY ONLY <1>1, <1>2, JoinedUp
  <2> QED
    BY <1>2, <2>1
<1> HIDE DEF B
<1>4. B[k + a + 1] = CR /\ B[k + a + 2] = LF
  BY <1>1, <1>2, <1>3
<1>5. \A m \in 1 .. k : B[m] = K[m]
  <2> TAKE m \in 1 .. k
  <2>1. m \in 1 .. Len(u)
    BY <1>1
  <2> QED
    BY <1>1, <1>3, <2>1
<1>6. \A m \in 1 .. a : B[k + m] = arg[m]
  <2> TAKE m \in 1 .. a
  <2>1. k + m \in 1 .. Len(u)
    BY <1>1
  <2> QED
    BY <1>1, <1>3, <2>1
<1>7. Len(B) = k + a + 2
  BY <1>1, <1>3
<1> QED
  BY <1>3, <1>4, <1>5, <1>6, <1>7 DEF Parts, B, u, k, a

(* The bytes of a command with an argument.                                *)
CommandLaid(B, line, K) ==
  /\ line.arg \in Seq(Nat) /\ Len(line.arg) \in Nat
  /\ B \in Seq(Nat) /\ Len(B) = Len(line.arg) + 7
  /\ B[1] = K[1] /\ B[2] = K[2] /\ B[3] = K[3] /\ B[4] = K[4] /\ B[5] = 32
  /\ \A m \in 1 .. Len(line.arg) : B[5 + m] = line.arg[m] /\ line.arg[m] # LF
  /\ B[Len(line.arg) + 6] = CR /\ B[Len(line.arg) + 7] = LF

(* UsEr and a name.                                                        *)
LEMMA UserLine ==
  ASSUME NEW line \in Lines, line.cmd = "USER"
  PROVE  /\ CommandLaid(LineBytes(line), line, <<85, 115, 69, 114>>)
         /\ line.arg \in Names
<1> DEFINE K == <<85, 115, 69, 114, 32>>
<1>1. line.arg \in Names
  BY DEF Lines
<1>2. line.arg \in Seq(Nat \ {0, LF})
  BY <1>1, DissectorAssumption DEF DissectorAssumption
<1>3. line.arg \in Seq(Nat) /\ Len(line.arg) \in Nat /\ \A m \in 1 .. Len(line.arg) : line.arg[m] # LF
  BY <1>2
<1>4. K \in Seq(Nat) /\ Len(K) = 5 /\ Keyword(line) = K
  BY DEF Keyword
<1>5. Parts(LineBytes(line), K, line.arg)
  <2>1. LineBytes(line) = K \o line.arg \o EOL
    BY <1>4 DEF LineBytes
  <2> HIDE DEF K
  <2> QED
    BY <1>3, <1>4, <2>1, PartsJoined
<1> DEFINE B == LineBytes(line)
           a == Len(line.arg)
<1> HIDE DEF B
<1>6. B[1] = 85 /\ B[2] = 115 /\ B[3] = 69 /\ B[4] = 114 /\ B[5] = 32
  <2>1. \A m \in 1 .. 5 : B[m] = K[m]
    BY <1>4, <1>5 DEF Parts, B
  <2> QED
    BY <2>1
<1>7. /\ B \in Seq(Nat) /\ Len(B) = a + 7 /\ \A m \in 1 .. a : B[5 + m] = line.arg[m]
      /\ B[a + 6] = CR /\ B[a + 7] = LF
  <2>1. 5 + a + 2 = a + 7 /\ 5 + a + 1 = a + 6
    BY <1>3
  <2> HIDE DEF K, a
  <2> QED
    BY <1>4, <1>5, <2>1 DEF Parts, B, a
<1> QED
  BY <1>1, <1>3, <1>6, <1>7 DEF CommandLaid, B

(* pAsS and a password.                                                    *)
LEMMA PassLine ==
  ASSUME NEW line \in Lines, line.cmd = "PASS"
  PROVE  CommandLaid(LineBytes(line), line, <<112, 65, 115, 83>>)
<1> DEFINE K == <<112, 65, 115, 83, 32>>
<1>1. line.arg \in Passwords
  BY DEF Lines
<1>2. line.arg \in Seq(Nat \ {0, LF})
  BY <1>1, DissectorAssumption DEF DissectorAssumption
<1>3. line.arg \in Seq(Nat) /\ Len(line.arg) \in Nat /\ \A m \in 1 .. Len(line.arg) : line.arg[m] # LF
  BY <1>2
<1>4. K \in Seq(Nat) /\ Len(K) = 5 /\ Keyword(line) = K
  BY DEF Keyword
<1>5. Parts(LineBytes(line), K, line.arg)
  <2>1. LineBytes(line) = K \o line.arg \o EOL
    BY <1>4 DEF LineBytes
  <2> HIDE DEF K
  <2> QED
    BY <1>3, <1>4, <2>1, PartsJoined
<1> DEFINE B == LineBytes(line)
           a == Len(line.arg)
<1> HIDE DEF B
<1>6. B[1] = 112 /\ B[2] = 65 /\ B[3] = 115 /\ B[4] = 83 /\ B[5] = 32
  <2>1. \A m \in 1 .. 5 : B[m] = K[m]
    BY <1>4, <1>5 DEF Parts, B
  <2> QED
    BY <2>1
<1>7. /\ B \in Seq(Nat) /\ Len(B) = a + 7 /\ \A m \in 1 .. a : B[5 + m] = line.arg[m]
      /\ B[a + 6] = CR /\ B[a + 7] = LF
  <2>1. 5 + a + 2 = a + 7 /\ 5 + a + 1 = a + 6
    BY <1>3
  <2> HIDE DEF K, a
  <2> QED
    BY <1>4, <1>5, <2>1 DEF Parts, B, a
<1> QED
  BY <1>3, <1>6, <1>7 DEF CommandLaid, B

(* CAPA.                                                                   *)
LEMMA CapaLine ==
  ASSUME NEW line \in Lines, line.cmd = "CAPA"
  PROVE  LET B == LineBytes(line)
         IN  /\ B \in Seq(Nat) /\ Len(B) = 6
             /\ B[1] = 67 /\ B[2] = 65 /\ B[3] = 80 /\ B[4] = 65 /\ B[5] = CR /\ B[6] = LF
<1> DEFINE B == LineBytes(line)
<1>1. CAPA \in Seq(Nat) /\ Len(CAPA) = 4 /\ <<>> \in Seq(Nat) /\ Len(<<>>) = 0
  BY DEF CAPA
<1>2. B = CAPA \o <<>> \o EOL
  BY DEF Lines, LineBytes, Keyword
<1>3. Parts(B, CAPA, <<>>)
  BY <1>1, <1>2, PartsJoined
<1> HIDE DEF B
<1>4. B \in Seq(Nat) /\ Len(B) = 6 /\ B[5] = CR /\ B[6] = LF /\ \A m \in 1 .. 4 : B[m] = CAPA[m]
  BY <1>1, <1>3 DEF Parts
<1>5. B[1] = 67 /\ B[2] = 65 /\ B[3] = 80 /\ B[4] = 65
  BY <1>4 DEF CAPA
<1> QED
  BY <1>4, <1>5 DEF B

(* What the automaton needs to know of every line.                         *)
LEMMA LineFacts ==
  ASSUME NEW line \in Lines, NEW B, B = LineBytes(line)
  PROVE  /\ line.cmd \in {"USER", "PASS", "CAPA"} /\ line.arg \in Seq(Nat)
         /\ B \in Seq(Nat) /\ Len(B) \in Nat /\ Len(B) >= 6
         /\ B[Len(B)] = LF /\ \A m \in 1 .. Len(B) - 1 : B[m] # LF
         /\ B[1] = IF line.cmd = "USER" THEN 85 ELSE IF line.cmd = "PASS" THEN 112 ELSE 67
<1>1. line.cmd \in {"USER", "PASS", "CAPA"}
  BY DEF Lines
<1>2. ASSUME NEW K \in {<<85, 115, 69, 114>>, <<112, 65, 115, 83>>}, CommandLaid(B, line, K)
      PROVE  /\ line.arg \in Seq(Nat)
             /\ B \in Seq(Nat) /\ Len(B) \in Nat /\ Len(B) >= 6
             /\ B[Len(B)] = LF /\ \A m \in 1 .. Len(B) - 1 : B[m] # LF
             /\ B[1] = K[1]
  <2> DEFINE a == Len(line.arg)
  <2>1. /\ a \in Nat /\ B \in Seq(Nat) /\ Len(B) = a + 7 /\ line.arg \in Seq(Nat)
        /\ B[1] = K[1] /\ B[2] = K[2] /\ B[3] = K[3] /\ B[4] = K[4] /\ B[5] = 32
        /\ \A m \in 1 .. a : B[5 + m] # LF
        /\ B[a + 6] = CR /\ B[a + 7] = LF
    BY <1>2 DEF CommandLaid
  <2>2. B[1] # LF /\ B[2] # LF /\ B[3] # LF /\ B[4] # LF /\ B[5] # LF
    <3>1. CASE K = <<85, 115, 69, 114>>
      BY <2>1, <3>1 DEF LF
    <3>2. CASE K = <<112, 65, 115, 83>>
      BY <2>1, <3>2 DEF LF
    <3> QED
      BY <1>2, <3>1, <3>2
  <2> HIDE DEF a
  <2>3. ASSUME NEW m \in 1 .. Len(B) - 1 PROVE B[m] # LF
    <3>1. CASE m <= 5
      <4>1. m \in {1, 2, 3, 4, 5}
        BY <3>1
      <4> QED
        BY <2>2, <4>1
    <3>2. CASE m = a + 6
      BY <2>1, <3>2 DEF LF, CR
    <3>3. CASE m > 5 /\ m # a + 6
      <4>1. m - 5 \in 1 .. a /\ m = 5 + (m - 5)
        BY <2>1, <3>3
      <4> QED
        BY <2>1, <4>1
    <3> QED
      BY <3>1, <3>2, <3>3
  <2> QED
    BY <2>1, <2>3
<1>3. CASE line.cmd = "USER"
  BY <1>2, <1>3, UserLine
<1>4. CASE line.cmd = "PASS"
  BY <1>2, <1>4, PassLine
<1>5. CASE line.cmd = "CAPA"
  <2>1. /\ B \in Seq(Nat) /\ Len(B) = 6
        /\ B[1] = 67 /\ B[2] = 65 /\ B[3] = 80 /\ B[4] = 65 /\ B[5] = 13 /\ B[6] = LF
    BY <1>5, CapaLine DEF CR
  <2>2. ASSUME NEW m \in 1 .. 5 PROVE B[m] # LF
    <3>1. m \in {1, 2, 3, 4, 5}
      OBVIOUS
    <3> QED
      BY <2>1, <3>1 DEF LF
  <2>3. line.arg = <<>>
    BY <1>5 DEF Lines
  <2>4. <<>> \in Seq(Nat)
    OBVIOUS
  <2> QED
    BY <1>5, <2>1, <2>2, <2>3, <2>4
<1> QED
  BY <1>1, <1>3, <1>4, <1>5

PlainName(line) == line.cmd = "USER" => Plain(line.arg)

(* USER is spelled only at the start of its line, and maybe in a password. *)
LEMMA SpelledWhere ==
  ASSUME NEW line \in Lines, NEW j \in 4 .. Len(LineBytes(line)), Spells(LineBytes(line), j - 4),
         j = 4 \/ PlainName(line)
  PROVE  (line.cmd = "USER" /\ j = 4) \/ line.cmd = "PASS"
<1> DEFINE B == LineBytes(line)
<1>1. line.cmd \in {"USER", "PASS", "CAPA"} /\ Len(B) \in Nat
  BY LineFacts
<1>2. ASSUME NEW m \in 1 .. 4 PROVE TO_UPPER(B[(j - 4) + m]) = USER[m]
  BY DEF Spells
<1>3. /\ TO_UPPER(B[(j - 4) + 1]) = 85 /\ TO_UPPER(B[(j - 4) + 2]) = 83
      /\ TO_UPPER(B[(j - 4) + 3]) = 69 /\ TO_UPPER(B[(j - 4) + 4]) = 82
  BY <1>2 DEF USER
<1>4. (j - 4) + 1 = j - 3 /\ (j - 4) + 2 = j - 2 /\ (j - 4) + 3 = j - 1 /\ (j - 4) + 4 = j
  BY <1>1
<1>5. /\ TO_UPPER(B[j - 3]) = 85 /\ TO_UPPER(B[j - 2]) = 83 /\ TO_UPPER(B[j - 1]) = 69
      /\ TO_UPPER(B[j]) = 82
  BY <1>3, <1>4
<1>6. CASE line.cmd = "CAPA"
  <2>1. Len(B) = 6 /\ B[1] = 67 /\ B[2] = 65 /\ B[3] = 80 /\ B[4] = 65 /\ B[5] = 13 /\ B[6] = 10
    BY <1>6, CapaLine DEF CR, LF
  <2>2. j \in {4, 5, 6}
    BY <2>1
  <2> HIDE DEF B
  <2>3. B[j] # 82 /\ B[j] < 97
    BY <2>1, <2>2
  <2> QED
    BY <1>5, <2>3 DEF TO_UPPER
<1>7. CASE line.cmd = "USER" /\ j # 4
  <2> DEFINE a == Len(line.arg)
             g == line.arg
  <2>1. CommandLaid(B, line, <<85, 115, 69, 114>>) /\ line.arg \in Names
    BY <1>7, UserLine
  <2>2. /\ a \in Nat /\ Len(B) = a + 7 /\ B[2] = 115 /\ B[3] = 69 /\ B[4] = 114 /\ B[5] = 32
        /\ \A m \in 1 .. a : B[5 + m] = g[m]
        /\ B[a + 6] = 13 /\ B[a + 7] = 10
    BY <2>1 DEF CommandLaid, CR, LF
  <2>3. \A i \in 0 .. a - 4 : ~Spells(g, i)
    BY <1>7 DEF PlainName, Plain
  <2> HIDE DEF B, a, g
  <2>4. CASE j <= 8
    <3>1. j - 3 \in {2, 3, 4, 5}
      BY <1>7, <2>4
    <3>2. TO_UPPER(B[j - 3]) # 85
      <4>1. B[j - 3] \in {115, 69, 114, 32}
        BY <2>2, <3>1
      <4> QED
        BY ONLY <4>1 DEF TO_UPPER
    <3> QED
      BY <1>5, <3>2
  <2>5. CASE j = a + 6 \/ j = a + 7
    BY <1>5, <2>2, <2>5 DEF TO_UPPER
  <2>6. CASE j > 8 /\ j < a + 6
    <3> DEFINE i == j - 9
    <3>1. i \in 0 .. a - 4 /\ i \in Nat
      BY <2>2, <2>6
    <3>2. ASSUME NEW m \in 1 .. 4 PROVE TO_UPPER(g[i + m]) = USER[m]
      <4>1. i + m \in 1 .. a /\ 5 + (i + m) = (j - 4) + m
        BY <2>2, <2>6
      <4>2. B[(j - 4) + m] = g[i + m]
        BY <2>2, <4>1
      <4> QED
        BY <1>2, <4>2
    <3>3. Spells(g, i)
      BY <3>2 DEF Spells
    <3> QED
      BY <2>3, <3>1, <3>3
  <2>7. j <= a + 7
    BY <2>2 DEF B
  <2> QED
    BY <2>2, <2>4, <2>5, <2>6, <2>7
<1> QED
  BY <1>1, <1>6, <1>7

-----------------------------------------------------------------------------
(* What the parser knows.                                                  *)

(* A name or password as the parser collects it: the keyword is found one  *)
(* letter early.                                                           *)
Arg(line) == <<32>> \o line.arg

(* The first pos bytes of the lines ls end with byte j of line k.          *)
Place(ls, pos, k, j) ==
  /\ k \in 1 .. Len(ls) + 1 /\ j \in Nat /\ pos = Ends(ls, k - 1) + j
  /\ k <= Len(ls) => j < Len(LineBytes(ls[k]))
  /\ k = Len(ls) + 1 => j = 0

(* What was collected so far of the argument of a line.                    *)
ArrayIs(array, i, bytes) == i <= Len(array) /\ \A m \in 1 .. i : array[m] = bytes[4 + m]

(* What is known of the parser p at that place, in each state. Unless no   *)
(* byte went unseen (x), it may have started in the middle of a line, or   *)
(* taken a password for the command. A PASS that it is done with was       *)
(* answered: it is one of the first s lines.                               *)
AtUser(ls, p, k, j, x, s) ==
  /\ p.i \in 0 .. 3
  /\ j # 0 => p.i <= j /\ \A m \in 1 .. p.i : TO_UPPER(LineBytes(ls[k])[(j - p.i) + m]) = USER[m]
  /\ x => /\ j = 0 => p.i = 0 /\ (k > 1 => ls[k - 1].cmd # "USER")
          /\ k <= Len(ls) => ls[k].cmd # "PASS" /\ (ls[k].cmd = "USER" => p.i = j)
          /\ j = 0 /\ k > 1 /\ ls[k - 1].cmd = "PASS" => s >= k - 1

AtUserCopy(ls, p, k, j, x) ==
  /\ k <= Len(ls) /\ j # 0 /\ p.i <= Len(p.user)
  /\ \/ ls[k].cmd = "USER" /\ j = p.i + 4 /\ ArrayIs(p.user, p.i, LineBytes(ls[k]))
     \/ ls[k].cmd = "PASS" /\ ~x

AtPassword(ls, p, k, j, x) ==
  /\ k > 1
  /\ \/ /\ ls[k - 1].cmd = "USER" /\ p.user = Arg(ls[k - 1])
        /\ p.i = j /\ j <= 3 /\ (j # 0 => ls[k].cmd = "PASS")
     \/ ls[k - 1].cmd = "PASS" /\ ~x /\ p.i = 0 /\ j = 0

AtPasswordCopy(ls, p, k, j) ==
  /\ k > 1 /\ k <= Len(ls) /\ ls[k].cmd = "PASS" /\ p.user = Arg(ls[k - 1])
  /\ j = p.i + 4 /\ ArrayIs(p.pass, p.i, LineBytes(ls[k]))

AtResponse(ls, p, k) ==
  /\ k = Len(ls) + 1 /\ k > 2 /\ ls[k - 1].cmd = "PASS" /\ p.i \in {0, 1}
  /\ p.user = Arg(ls[k - 2]) /\ p.pass = Arg(ls[k - 1])

Commands == {"user", "user_copy", "password", "password_copy"}

States == {"wait_pop", "incompatible", "user", "user_copy", "password", "password_copy", "response", "done"}

(* Parsers, between two bytes.                                             *)
AllParsers ==
  [state : States,
   i : Nat, user_carry : {FALSE}, user : Seq(Nat), pass : Seq(Nat)]

ParserAt(ls, p, k, j, x, s) ==
  /\ p \in AllParsers /\ p.state # "done"
  /\ p.state = "user" => AtUser(ls, p, k, j, x, s)
  /\ p.state = "user_copy" => AtUserCopy(ls, p, k, j, x)
  /\ p.state = "password" => AtPassword(ls, p, k, j, x)
  /\ p.state = "password_copy" => AtPasswordCopy(ls, p, k, j)
  /\ p.state = "response" => AtResponse(ls, p, k)

-----------------------------------------------------------------------------
(* What disector_consume does with one byte.                               *)

Fed(p, c) ==
  LET r == disector_parser_feed(p, c)
  IN  IF r.state = "restart" THEN disector_parser_reset(r) ELSE r

(* Parsers, before a restart is noticed too.                               *)
RawParsers ==
  [state : States \cup {"restart"},
   i : Nat, user_carry : BOOLEAN, user : Seq(Nat), pass : Seq(Nat)]

(* A parser and its fields.                                                *)
LEMMA ParserFields ==
  ASSUME NEW p \in AllParsers
  PROVE  /\ p.state \in States
         /\ p.i \in Nat /\ p.user_carry = FALSE /\ p.user \in Seq(Nat) /\ p.pass \in Seq(Nat)
         /\ p \in RawParsers
BY DEF AllParsers, RawParsers

(* disector_parser_reset.                                                  *)
LEMMA ResetOf ==
  ASSUME NEW r \in RawParsers, NEW q, q = disector_parser_reset(r)
  PROVE  /\ q \in AllParsers /\ q.state = "user" /\ q.i = IF r.user_carry THEN 1 ELSE 0
         /\ q.user = r.user /\ q.pass = r.pass
<1> DEFINE n == IF r.user_carry THEN 1 ELSE 0
<1>1. q = [r EXCEPT !.state = "user", !.i = n, !.user_carry = FALSE]
  BY DEF disector_parser_reset
<1>2. n \in Nat
  OBVIOUS
<1> HIDE DEF n
<1>3. q \in AllParsers
  BY <1>1, <1>2 DEF AllParsers, RawParsers, States
<1>4. q.state = "user" /\ q.i = n /\ q.user = r.user /\ q.pass = r.pass
  BY <1>1 DEF RawParsers
<1> QED
  BY <1>3, <1>4 DEF n

(* r is p in another state and at another index.                           *)
Becomes(p, r, st, n) ==
  /\ r \in RawParsers /\ r.state = st /\ r.i = n /\ r.user_carry = FALSE
  /\ r.user = p.user /\ r.pass = p.pass
  /\ st # "restart" => r \in AllParsers

LEMMA ChangedBecomes ==
  ASSUME NEW p \in AllParsers, NEW n \in Nat, NEW r,
         NEW st \in States \cup {"restart"},
         r = [p EXCEPT !.state = st, !.i = n]
  PROVE  Becomes(p, r, st, n)
<1>1. r \in RawParsers
  BY DEF AllParsers, RawParsers
<1>2. /\ r.state = st /\ r.i = n /\ r.user_carry = FALSE
      /\ r.user = p.user /\ r.pass = p.pass
  BY DEF AllParsers
<1>3. st # "restart" => r \in AllParsers
  BY DEF AllParsers
<1> QED
  BY ONLY <1>1, <1>2, <1>3 DEF Becomes

(* Match, by what it does to the fields.                                   *)
Matches(p, c, keyword, found, missed, r) ==
  LET w == keyword[p.i + 1]
  IN  \/ c # w /\ Becomes(p, r, missed, 0)
      \/ c = w /\ p.i + 1 >= Len(keyword) - 1 /\ Becomes(p, r, found, 0)
      \/ c = w /\ p.i + 1 < Len(keyword) - 1 /\ Becomes(p, r, p.state, p.i + 1)

LEMMA Matched ==
  ASSUME NEW p \in AllParsers, NEW c, NEW keyword, Len(keyword) \in Nat,
         NEW found \in States, NEW missed \in {"restart", "incompatible"},
         NEW r, r = Match(p, c, keyword, found, missed)
  PROVE  Matches(p, c, keyword, found, missed, r)
<1> DEFINE w == keyword[p.i + 1]
<1>0. missed \in States \cup {"restart"} /\ found \in States \cup {"restart"}
  BY DEF States
<1>a. p.i \in Nat /\ p.state \in States
  BY ParserFields
<1>1. p.i \in Nat /\ p.i + 1 \in Nat /\ p.state \in States \cup {"restart"} /\ 0 \in Nat
  BY <1>a
<1>2. CASE c # w
  <2>1. r = [p EXCEPT !.state = missed, !.i = 0]
    BY <1>2 DEF Match
  <2>2. Becomes(p, r, missed, 0)
    BY <1>0, <1>1, <2>1, ChangedBecomes
  <2> QED
    BY <1>2, <2>2 DEF Matches
<1>3. CASE c = w /\ p.i + 1 >= Len(keyword) - 1
  <2>1. r = [p EXCEPT !.state = found, !.i = 0]
    BY <1>3 DEF Match
  <2>2. Becomes(p, r, found, 0)
    BY <1>0, <1>1, <2>1, ChangedBecomes
  <2> QED
    BY <1>3, <2>2 DEF Matches
<1>4. CASE c = w /\ p.i + 1 < Len(keyword) - 1
  <2>1. r = [p EXCEPT !.i = p.i + 1]
    BY <1>1, <1>4 DEF Match
  <2>2. r = [p EXCEPT !.state = p.state, !.i = p.i + 1]
    BY <2>1 DEF AllParsers
  <2>3. Becomes(p, r, p.state, p.i + 1)
    BY <1>0, <1>1, <2>2, ChangedBecomes
  <2> QED
    BY <1>4, <2>3 DEF Matches
<1> QED
  BY <1>1, <1>2, <1>3, <1>4 DEF Matches

(* A byte that is fed to a matching parser: the parser goes on, or starts  *)
(* again.                                                                  *)
LEMMA FedMatch ==
  ASSUME NEW p, NEW c, NEW r \in RawParsers, r = disector_parser_feed(p, c), NEW q, q = Fed(p, c)
  PROVE  /\ r.state # "restart" => q = r
         /\ r.state = "restart" =>
              /\ q \in AllParsers /\ q.state = "user" /\ q.i = IF r.user_carry THEN 1 ELSE 0
              /\ q.user = r.user /\ q.pass = r.pass
<1>1. q = IF r.state = "restart" THEN disector_parser_reset(r) ELSE r
  BY DEF Fed
<1> QED
  BY <1>1, ResetOf

(* ... and becomes what it is, or the parser of USER.                      *)
LEMMA FedBecomes ==
  ASSUME NEW p, NEW c, NEW r, r = disector_parser_feed(p, c), NEW q, q = Fed(p, c),
         NEW st \in States \cup {"restart"}, NEW n \in Nat, Becomes(p, r, st, n)
  PROVE  /\ st # "restart" => Becomes(p, q, st, n)
         /\ st = "restart" => Becomes(p, q, "user", 0)
<1>1. r \in RawParsers /\ r.state = st /\ r.user_carry = FALSE /\ r.user = p.user /\ r.pass = p.pass
  BY DEF Becomes
<1>2. CASE st # "restart"
  <2>1. q = r
    BY <1>1, <1>2, FedMatch
  <2> QED
    BY <1>2, <2>1
<1>3. CASE st = "restart"
  <2>1. q \in AllParsers /\ q.state = "user" /\ q.i = 0 /\ q.user = p.user /\ q.pass = p.pass
    BY <1>1, <1>3, FedMatch
  <2>2. q \in RawParsers /\ q.user_carry = FALSE
    BY <2>1, ParserFields
  <2> QED
    BY <1>3, <2>1, <2>2 DEF Becomes
<1> QED
  BY <1>2, <1>3

(* The state `user'.                                                       *)
LEMMA FedUser ==
  ASSUME NEW p \in AllParsers, p.state = "user", p.i \in 0 .. 3, NEW c, NEW q, q = Fed(p, c)
  PROVE  \/ TO_UPPER(c) # USER[p.i + 1] /\ Becomes(p, q, "user", 0)
         \/ TO_UPPER(c) = USER[p.i + 1] /\ p.i < 3 /\ Becomes(p, q, "user", p.i + 1)
         \/ TO_UPPER(c) = USER[p.i + 1] /\ p.i = 3 /\ Becomes(p, q, "user_copy", 0)
<1> DEFINE w == USER[p.i + 1]
           u == TO_UPPER(c)
           r == Match(p, u, USER, "user_copy", "restart")
<1>1. r = disector_parser_feed(p, c)
  BY DEF disector_parser_feed
<1>2. Len(USER) = 5 /\ Len(USER) \in Nat /\ "user_copy" \in States /\ "user" \in States /\ p.i \in Nat /\ p.i + 1 \in Nat /\ 5 \in Nat
  BY DEF USER, States
<1>0. USER[p.i + 1] = w /\ r = Match(p, u, USER, "user_copy", "restart")
  OBVIOUS
<1> HIDE DEF u, w, r
<1>3. \/ u # w /\ Becomes(p, r, "restart", 0)
      \/ u = w /\ p.i + 1 >= Len(USER) - 1 /\ Becomes(p, r, "user_copy", 0)
      \/ u = w /\ p.i + 1 < Len(USER) - 1 /\ Becomes(p, r, "user", p.i + 1)
  <2>1. p \in AllParsers /\ "restart" \in {"restart", "incompatible"} /\ p.state = "user"
    OBVIOUS
  <2>2. Matches(p, u, USER, "user_copy", "restart", r)
    BY <1>0, <1>2, <2>1, Matched, Zenon
  <2> QED
    BY <1>0, <2>1, <2>2 DEF Matches
<1>5. (p.i + 1 >= Len(USER) - 1 <=> p.i = 3) /\ (p.i + 1 < Len(USER) - 1 <=> p.i < 3)
  BY <1>2
<1>6. /\ Becomes(p, r, "restart", 0) => Becomes(p, q, "user", 0)
      /\ Becomes(p, r, "user_copy", 0) => Becomes(p, q, "user_copy", 0)
      /\ Becomes(p, r, "user", p.i + 1) => Becomes(p, q, "user", p.i + 1)
  BY <1>1, <1>2, FedBecomes
<1> QED
  BY <1>3, <1>5, <1>6 DEF u, w

(* The state `password'.                                                   *)
LEMMA FedPassword ==
  ASSUME NEW p \in AllParsers, p.state = "password", p.i \in 0 .. 3, NEW c, NEW q, q = Fed(p, c)
  PROVE  \/ TO_UPPER(c) # PASS[p.i + 1] /\ TO_UPPER(c) # USER[1] /\ Becomes(p, q, "user", 0)
         \/ TO_UPPER(c) # PASS[p.i + 1] /\ TO_UPPER(c) = USER[1] /\ Becomes(p, q, "user", 1)
         \/ TO_UPPER(c) = PASS[p.i + 1] /\ p.i < 3 /\ Becomes(p, q, "password", p.i + 1)
         \/ TO_UPPER(c) = PASS[p.i + 1] /\ p.i = 3 /\ Becomes(p, q, "password_copy", 0)
<1> DEFINE w == PASS[p.i + 1]
           u == TO_UPPER(c)
           m == Match(p, u, PASS, "password_copy", "restart")
           carry == u = USER[1]
           r == [m EXCEPT !.user_carry = @ \/ (m.state = "restart" /\ carry)]
<1>1. r = disector_parser_feed(p, c)
  BY DEF disector_parser_feed, password
<1>2. /\ Len(PASS) = 5 /\ Len(PASS) \in Nat /\ "password_copy" \in States /\ "password" \in States /\ "restart" \notin States
      /\ p.i \in Nat /\ p.i + 1 \in Nat /\ 5 \in Nat
  BY DEF PASS, States
<1>0. PASS[p.i + 1] = w /\ m = Match(p, u, PASS, "password_copy", "restart")
  OBVIOUS
<1>4. carry \in BOOLEAN
  OBVIOUS
<1> HIDE DEF u, w, m, carry
<1>3. \/ u # w /\ Becomes(p, m, "restart", 0)
      \/ u = w /\ p.i + 1 >= Len(PASS) - 1 /\ Becomes(p, m, "password_copy", 0)
      \/ u = w /\ p.i + 1 < Len(PASS) - 1 /\ Becomes(p, m, "password", p.i + 1)
  <2>1. p \in AllParsers /\ "restart" \in {"restart", "incompatible"} /\ p.state = "password"
    OBVIOUS
  <2>2. Matches(p, u, PASS, "password_copy", "restart", m)
    BY <1>0, <1>2, <2>1, Matched, Zenon
  <2> QED
    BY <1>0, <2>1, <2>2 DEF Matches
<1>5. (p.i + 1 >= Len(PASS) - 1 <=> p.i = 3) /\ (p.i + 1 < Len(PASS) - 1 <=> p.i < 3)
  BY <1>2
<1>6. CASE u # w
  <2>0. m \in RawParsers /\ m.state = "restart" /\ m.user_carry = FALSE /\ m.user = p.user /\ m.pass = p.pass
    BY <1>3, <1>6 DEF Becomes
  <2>1. r = [m EXCEPT !.user_carry = carry]
    BY <1>4, <2>0
  <2>2. r \in RawParsers
    BY <1>4, <2>0, <2>1 DEF RawParsers
  <2>3. r.state = "restart" /\ r.user_carry = carry /\ r.user = p.user /\ r.pass = p.pass
    BY <1>4, <2>0, <2>1 DEF RawParsers
  <2> HIDE DEF r
  <2>4. q \in AllParsers /\ q.state = "user" /\ q.i = (IF carry THEN 1 ELSE 0)
        /\ q.user = p.user /\ q.pass = p.pass
    BY <1>1, <2>2, <2>3, FedMatch
  <2>5. q \in RawParsers /\ q.user_carry = FALSE
    BY <2>4, ParserFields
  <2>6. Becomes(p, q, "user", IF carry THEN 1 ELSE 0)
    BY <2>4, <2>5 DEF Becomes
  <2> QED
    BY <1>6, <2>6 DEF u, w, carry
<1>7. CASE u = w
  <2>1. PICK st \in {"password_copy", "password"}, n \in Nat :
           /\ Becomes(p, m, st, n)
           /\ \/ p.i = 3 /\ st = "password_copy" /\ n = 0
              \/ p.i < 3 /\ st = "password" /\ n = p.i + 1
    BY <1>2, <1>3, <1>5, <1>7
  <2>2. m \in RawParsers /\ m.state # "restart" /\ m.user_carry = FALSE
    BY <2>1 DEF Becomes
  <2>3. r = m
    BY <2>2 DEF RawParsers
  <2>4. q = m
    BY <1>1, <2>2, <2>3, FedMatch
  <2> QED
    BY <1>7, <2>1, <2>4 DEF u, w
<1> QED
  BY <1>6, <1>7

(* What Collect does to an array.                                          *)
Collected(a, i, c, b) ==
  /\ b \in Seq(Nat)
  /\ c = LF => b = IF i = 0 THEN a ELSE SubSeq(a, 1, i - 1)
  /\ c # LF => /\ Len(b) = i + 1 /\ b[i + 1] = c
               /\ \A m \in 1 .. i : b[m] = a[m]

LEMMA CollectArray ==
  ASSUME NEW a \in Seq(Nat), NEW i \in Nat, i <= Len(a), NEW c \in Nat, NEW b,
         b = IF c = LF THEN (IF i = 0 THEN a ELSE SubSeq(a, 1, i - 1)) ELSE Append(SubSeq(a, 1, i), c)
  PROVE  Collected(a, i, c, b)
<1>1. CASE c = LF
  <2>1. b \in Seq(Nat)
    <3>1. CASE i = 0
      BY <1>1, <3>1
    <3>2. CASE i # 0
      BY <1>1, <3>2
    <3> QED
      BY <3>1, <3>2
  <2> QED
    BY <1>1, <2>1 DEF Collected
<1>2. CASE c # LF
  <2> DEFINE h == SubSeq(a, 1, i)
  <2>1. h \in Seq(Nat) /\ Len(h) = i /\ \A m \in 1 .. i : h[m] = a[m]
    OBVIOUS
  <2>2. b = Append(h, c)
    BY <1>2
  <2> HIDE DEF h
  <2>3. b \in Seq(Nat) /\ Len(b) = i + 1 /\ b[i + 1] = c /\ \A m \in 1 .. i : b[m] = h[m]
    BY ONLY <2>1, <2>2, c \in Nat, i \in Nat, AppendProperties
  <2> QED
    BY <1>2, <2>1, <2>3 DEF Collected
<1> QED
  BY <1>1, <1>2

(* The states `user_copy' ...                                              *)
LEMMA FedUserCopy ==
  ASSUME NEW p \in AllParsers, p.state = "user_copy", p.i <= Len(p.user), NEW c \in Nat, NEW q, q = Fed(p, c)
  PROVE  /\ q \in AllParsers /\ Collected(p.user, p.i, c, q.user) /\ q.pass = p.pass
         /\ c = LF => q.state = "password" /\ q.i = 0
         /\ c # LF => q.state = "user_copy" /\ q.i = p.i + 1
<1>0. p.i \in Nat /\ p.user \in Seq(Nat) /\ p.i + 1 \in Nat
  <2>1. p.i \in Nat /\ p.user \in Seq(Nat)
    BY ParserFields
  <2> QED
    BY <2>1
<1> DEFINE r == Collect(p, c, "user", "password")
<1>1. r = disector_parser_feed(p, c)
  BY DEF disector_parser_feed
<1>2. PICK b : b = IF c = LF THEN (IF p.i = 0 THEN p.user ELSE SubSeq(p.user, 1, p.i - 1))
                             ELSE Append(SubSeq(p.user, 1, p.i), c)
  OBVIOUS
<1>3. Collected(p.user, p.i, c, b)
  BY <1>0, <1>2, CollectArray
<1>4. b \in Seq(Nat)
  BY <1>3 DEF Collected
<1>5. CASE c = LF
  <2>1. r = [p EXCEPT !.state = "password", !.i = 0, !.user = b]
    BY <1>2, <1>5 DEF Collect
  <2> HIDE DEF r
  <2>a. "password" \in States /\ 0 \in Nat
    BY DEF States
  <2>2. r \in AllParsers
    BY ONLY p \in AllParsers, <1>4, <2>1, <2>a DEF AllParsers
  <2>3. r.state = "password" /\ r.i = 0 /\ r.user = b /\ r.pass = p.pass
    BY <1>4, <2>1 DEF AllParsers, States
  <2>b. r \in RawParsers
    BY <2>2, ParserFields
  <2>4. q = r
    BY <1>1, <2>b, <2>3, FedMatch
  <2> QED
    BY <1>3, <1>5, <2>2, <2>3, <2>4
<1>6. CASE c # LF
  <2>1. r = [p EXCEPT !.i = p.i + 1, !.user = b]
    BY <1>2, <1>6 DEF Collect
  <2>2. r \in AllParsers
    BY <1>0, <1>4, <2>1 DEF AllParsers, States
  <2>3. r.state = "user_copy" /\ r.i = p.i + 1 /\ r.user = b /\ r.pass = p.pass
    BY <1>0, <1>4, <2>1 DEF AllParsers, States
  <2> HIDE DEF r
  <2>b. r \in RawParsers
    BY <2>2, ParserFields
  <2>4. q = r
    BY <1>1, <2>b, <2>3, FedMatch
  <2> QED
    BY <1>3, <1>6, <2>2, <2>3, <2>4
<1> QED
  BY <1>5, <1>6

(* ... and `password_copy'.                                                *)
LEMMA FedPasswordCopy ==
  ASSUME NEW p \in AllParsers, p.state = "password_copy", p.i <= Len(p.pass), NEW c \in Nat, NEW q, q = Fed(p, c)
  PROVE  /\ q \in AllParsers /\ Collected(p.pass, p.i, c, q.pass) /\ q.user = p.user
         /\ c = LF => q.state = "response" /\ q.i = 0
         /\ c # LF => q.state = "password_copy" /\ q.i = p.i + 1
<1>0. p.i \in Nat /\ p.pass \in Seq(Nat) /\ p.i + 1 \in Nat
  <2>1. p.i \in Nat /\ p.pass \in Seq(Nat)
    BY ParserFields
  <2> QED
    BY <2>1
<1> DEFINE r == Collect(p, c, "pass", "response")
<1>1. r = disector_parser_feed(p, c)
  BY DEF disector_parser_feed
<1>2. PICK b : b = IF c = LF THEN (IF p.i = 0 THEN p.pass ELSE SubSeq(p.pass, 1, p.i - 1))
                             ELSE Append(SubSeq(p.pass, 1, p.i), c)
  OBVIOUS
<1>3. Collected(p.pass, p.i, c, b)
  BY <1>0, <1>2, CollectArray
<1>4. b \in Seq(Nat)
  BY <1>3 DEF Collected
<1>5. CASE c = LF
  <2>1. r = [p EXCEPT !.state = "response", !.i = 0, !.pass = b]
    BY <1>2, <1>5 DEF Collect
  <2> HIDE DEF r
  <2>a. "response" \in States /\ 0 \in Nat
    BY DEF States
  <2>2. r \in AllParsers
    BY ONLY p \in AllParsers, <1>4, <2>1, <2>a DEF AllParsers
  <2>3. r.state = "response" /\ r.i = 0 /\ r.pass = b /\ r.user = p.user
    BY <1>4, <2>1 DEF AllParsers, States
  <2>b. r \in RawParsers
    BY <2>2, ParserFields
  <2>4. q = r
    BY <1>1, <2>b, <2>3, FedMatch
  <2> QED
    BY <1>3, <1>5, <2>2, <2>3, <2>4
<1>6. CASE c # LF
  <2>1. r = [p EXCEPT !.i = p.i + 1, !.pass = b]
    BY <1>2, <1>6 DEF Collect
  <2>2. r \in AllParsers
    BY <1>0, <1>4, <2>1 DEF AllParsers, States
  <2>3. r.state = "password_copy" /\ r.i = p.i + 1 /\ r.pass = b /\ r.user = p.user
    BY <1>0, <1>4, <2>1 DEF AllParsers, States
  <2> HIDE DEF r
  <2>b. r \in RawParsers
    BY <2>2, ParserFields
  <2>4. q = r
    BY <1>1, <2>b, <2>3, FedMatch
  <2> QED
    BY <1>3, <1>6, <2>2, <2>3, <2>4
<1> QED
  BY <1>5, <1>6

(* The states `wait_pop', ...                                              *)
LEMMA FedWait ==
  ASSUME NEW p \in AllParsers, p.state = "wait_pop", p.i \in {0, 1}, NEW c, NEW q, q = Fed(p, c)
  PROVE  \/ c # OK[p.i + 1] /\ Becomes(p, q, "incompatible", 0)
         \/ c = OK[p.i + 1] /\ p.i = 0 /\ Becomes(p, q, "wait_pop", 1)
         \/ c = OK[p.i + 1] /\ p.i = 1 /\ Becomes(p, q, "user", 0)
<1> DEFINE r == Match(p, c, OK, "user", "incompatible")
<1>1. r = disector_parser_feed(p, c)
  BY DEF disector_parser_feed
<1>2. Len(OK) = 3 /\ Len(OK) \in Nat /\ "user" \in States /\ "wait_pop" \in States /\ "incompatible" \in States
      /\ "restart" \notin States
  BY DEF OK, States
<1>0. r = Match(p, c, OK, "user", "incompatible")
  OBVIOUS
<1> HIDE DEF r
<1>3. Matches(p, c, OK, "user", "incompatible", r)
  BY <1>0, <1>2, Matched, Zenon
<1>4. \/ c # OK[p.i + 1] /\ Becomes(p, r, "incompatible", 0)
      \/ c = OK[p.i + 1] /\ p.i = 0 /\ Becomes(p, r, "wait_pop", 1)
      \/ c = OK[p.i + 1] /\ p.i = 1 /\ Becomes(p, r, "user", 0)
  BY <1>2, <1>3 DEF Matches
<1>5. /\ Becomes(p, r, "incompatible", 0) => Becomes(p, q, "incompatible", 0)
      /\ Becomes(p, r, "wait_pop", 1) => Becomes(p, q, "wait_pop", 1)
      /\ Becomes(p, r, "user", 0) => Becomes(p, q, "user", 0)
  BY <1>1, <1>2, FedBecomes
<1> QED
  BY <1>4, <1>5

(* ... `response' ...                                                      *)
LEMMA FedResponse ==
  ASSUME NEW p \in AllParsers, p.state = "response", p.i \in {0, 1}, NEW c, NEW q, q = Fed(p, c)
  PROVE  \/ c # OK[p.i + 1] /\ Becomes(p, q, "user", 0)
         \/ c = OK[p.i + 1] /\ p.i = 0 /\ Becomes(p, q, "response", 1)
         \/ c = OK[p.i + 1] /\ p.i = 1 /\ Becomes(p, q, "done", 0)
<1> DEFINE r == Match(p, c, OK, "done", "restart")
<1>1. r = disector_parser_feed(p, c)
  BY DEF disector_parser_feed
<1>2. Len(OK) = 3 /\ Len(OK) \in Nat /\ "done" \in States /\ "response" \in States /\ "restart" \notin States
  BY DEF OK, States
<1>0. r = Match(p, c, OK, "done", "restart")
  OBVIOUS
<1> HIDE DEF r
<1>3. Matches(p, c, OK, "done", "restart", r)
  BY <1>0, <1>2, Matched, Zenon
<1>4. \/ c # OK[p.i + 1] /\ Becomes(p, r, "restart", 0)
      \/ c = OK[p.i + 1] /\ p.i = 0 /\ Becomes(p, r, "response", 1)
      \/ c = OK[p.i + 1] /\ p.i = 1 /\ Becomes(p, r, "done", 0)
  BY <1>2, <1>3 DEF Matches
<1>5. /\ Becomes(p, r, "restart", 0) => Becomes(p, q, "user", 0)
      /\ Becomes(p, r, "response", 1) => Becomes(p, q, "response", 1)
      /\ Becomes(p, r, "done", 0) => Becomes(p, q, "done", 0)
  BY <1>1, <1>2, FedBecomes
<1> QED
  BY <1>4, <1>5

(* ... and `done'.                                                         *)
LEMMA FedDone ==
  ASSUME NEW p \in AllParsers, p.state = "done", NEW c
  PROVE  Fed(p, c) = p
BY DEF Fed, disector_parser_feed

-----------------------------------------------------------------------------
(* The loop of disector_consume.                                           *)

Stepped(q, c) == IF q.state = "incompatible" THEN q ELSE Fed(q, c)

RunAt(p, bytes, f, k) == IF k = 0 THEN p ELSE Stepped(f[k - 1], bytes[k])

Runs(p, bytes, n, f) == f = [k \in 0 .. n |-> RunAt(p, bytes, f, k)]

(* The recursive function of disector_consume exists.                      *)
LEMMA RunsExist ==
  ASSUME NEW p, NEW bytes, NEW n \in Nat
  PROVE  \E f : Runs(p, bytes, n, f)
<1> DEFINE Run(m, f) == f = [k \in 0 .. m |-> RunAt(p, bytes, f, k)]
           bad == {m \in Nat : ~\E f : Run(m, f)}
<1>1. SUFFICES ASSUME n \in bad PROVE FALSE
  BY DEF Runs
<1>2. PICK m \in bad : \A y \in bad : m <= y
  <2>1. bad \in SUBSET Nat /\ bad # {}
    BY <1>1
  <2> HIDE DEF bad
  <2> QED
    BY <2>1, LeastNumber
<1>3. m # 0
  <2>1. SUFFICES ASSUME m = 0 PROVE \E f : Run(0, f)
    OBVIOUS
  <2> DEFINE g == [k \in 0 .. 0 |-> p]
  <2>2. \A k \in 0 .. 0 : RunAt(p, bytes, g, k) = p
    BY DEF RunAt
  <2>3. Run(0, g)
    BY <2>2
  <2> QED
    BY <2>3
<1>4. m - 1 \in Nat /\ m - 1 \notin bad
  BY <1>2, <1>3
<1>5. PICK g : Run(m - 1, g)
  BY <1>4
<1> DEFINE h == [k \in 0 .. m |-> IF k < m THEN g[k] ELSE RunAt(p, bytes, g, m)]
<1>6. ASSUME NEW k \in 0 .. m PROVE h[k] = RunAt(p, bytes, h, k)
  <2>1. k > 0 => h[k - 1] = g[k - 1]
    OBVIOUS
  <2>2. RunAt(p, bytes, h, k) = RunAt(p, bytes, g, k)
    <3> HIDE DEF h
    <3> QED
      BY <2>1 DEF RunAt
  <2>3. CASE k < m
    <3>1. k \in 0 .. m - 1
      BY <1>4, <2>3
    <3>2. g[k] = RunAt(p, bytes, g, k)
      BY <1>5, <3>1
    <3> QED
      BY <2>2, <2>3, <3>2
  <2>4. CASE k = m
    BY <2>2, <2>4
  <2> QED
    BY <2>3, <2>4
<1>7. Run(m, h)
  <2>1. h = [k \in 0 .. m |-> h[k]]
    OBVIOUS
  <2> HIDE DEF h
  <2> QED
    BY <1>6, <2>1
<1> QED
  BY <1>7

(* disector_consume is the last of such a run.                             *)
LEMMA ConsumeRuns ==
  ASSUME NEW p, NEW bytes, Len(bytes) \in Nat
  PROVE  \E f : Runs(p, bytes, Len(bytes), f) /\ disector_consume(p, bytes) = f[Len(bytes)]
<1> DEFINE n == Len(bytes)
           e == CHOOSE f : f = [k \in 0 .. n |-> RunAt(p, bytes, f, k)]
<1>1. PICK f : f = [k \in 0 .. n |-> RunAt(p, bytes, f, k)]
  BY RunsExist DEF Runs
<1>2. e = [k \in 0 .. n |-> RunAt(p, bytes, e, k)]
  BY <1>1
<1>3. disector_consume(p, bytes) = e[n]
  BY DEF disector_consume, RunAt, Stepped, Fed
<1> HIDE DEF e
<1> QED
  BY <1>2, <1>3 DEF Runs

(* What every byte keeps, holds at the end.                                *)
LEMMA ConsumeKeeps ==
  ASSUME NEW p, NEW bytes, Len(bytes) \in Nat, NEW G, p \in G[0],
         \A k \in 1 .. Len(bytes) : \A q \in G[k - 1] : Stepped(q, bytes[k]) \in G[k]
  PROVE  disector_consume(p, bytes) \in G[Len(bytes)]
<1> DEFINE n == Len(bytes)
<1>1. PICK f : Runs(p, bytes, n, f) /\ disector_consume(p, bytes) = f[n]
  BY ConsumeRuns
<1> DEFINE bad == {k \in 0 .. n : f[k] \notin G[k]}
<1>2. SUFFICES ASSUME bad # {} PROVE FALSE
  BY <1>1
<1>3. PICK k \in bad : \A y \in bad : k <= y
  <2>1. bad \in SUBSET Nat
    OBVIOUS
  <2> HIDE DEF bad
  <2> QED
    BY <1>2, <2>1, LeastNumber
<1>4. f[k] = RunAt(p, bytes, f, k)
  BY <1>1 DEF Runs
<1>5. CASE k = 0
  BY <1>4, <1>5 DEF RunAt
<1>6. CASE k # 0
  <2>1. k - 1 \in 0 .. n /\ ~(k <= k - 1) /\ k \in 1 .. n
    BY <1>6
  <2>2. f[k - 1] \in G[k - 1]
    BY <1>3, <2>1
  <2>3. f[k] = Stepped(f[k - 1], bytes[k])
    BY <1>4, <1>6 DEF RunAt
  <2> QED
    BY <2>1, <2>2, <2>3
<1> QED
  BY <1>5, <1>6

-----------------------------------------------------------------------------
(* One byte of the lines.                                                  *)

PassAfterUser(ls) == \A k \in 1 .. Len(ls) : ls[k].cmd = "PASS" => k > 1 /\ ls[k - 1].cmd = "USER"

(* c comes after byte j of line k, and nothing was sent after a PASS.      *)
IsNext(ls, k, j, c) ==
  /\ ls \in Seq(Lines) /\ PassAfterUser(ls)
  /\ k \in 1 .. Len(ls) /\ j \in Nat /\ j < Len(LineBytes(ls[k])) /\ c = LineBytes(ls[k])[j + 1]
  /\ ls[k].cmd = "PASS" => k = Len(ls)

(* The bytes of a line, by its command.                                    *)
LineIs(B, cmd) ==
  /\ cmd \in {"USER", "PASS", "CAPA"}
  /\ B \in Seq(Nat) /\ Len(B) \in Nat /\ Len(B) >= 6
  /\ B[Len(B)] = LF /\ \A m \in 1 .. Len(B) - 1 : B[m] # LF
  /\ B[1] = IF cmd = "USER" THEN 85 ELSE IF cmd = "PASS" THEN 112 ELSE 67

LEMMA LineShape ==
  ASSUME NEW line \in Lines
  PROVE  LineIs(LineBytes(line), line.cmd)
<1>1. PICK B : B = LineBytes(line)
  OBVIOUS
<1> QED
  BY <1>1, LineFacts DEF LineIs

LEMMA NextFacts ==
  ASSUME NEW ls, NEW k, NEW j, NEW c, IsNext(ls, k, j, c), NEW B, B = LineBytes(ls[k])
  PROVE  /\ ls \in Seq(Lines) /\ Len(ls) \in Nat /\ k \in 1 .. Len(ls) /\ j \in Nat /\ j < Len(B)
         /\ ls[k] \in Lines /\ ls[k].cmd \in {"USER", "PASS", "CAPA"}
         /\ B \in Seq(Nat) /\ Len(B) \in Nat /\ Len(B) >= 6
         /\ c = B[j + 1] /\ c \in Nat /\ (c = LF <=> j + 1 = Len(B))
         /\ B[1] = IF ls[k].cmd = "USER" THEN 85 ELSE IF ls[k].cmd = "PASS" THEN 112 ELSE 67
<1>1. /\ ls \in Seq(Lines) /\ k \in 1 .. Len(ls) /\ j \in Nat /\ j < Len(B) /\ c = B[j + 1]
  BY DEF IsNext
<1>2. ls[k] \in Lines /\ Len(ls) \in Nat
  BY <1>1
<1>3. /\ ls[k].cmd \in {"USER", "PASS", "CAPA"}
      /\ B \in Seq(Nat) /\ Len(B) \in Nat /\ Len(B) >= 6
      /\ B[Len(B)] = LF /\ \A m \in 1 .. Len(B) - 1 : B[m] # LF
      /\ B[1] = IF ls[k].cmd = "USER" THEN 85 ELSE IF ls[k].cmd = "PASS" THEN 112 ELSE 67
  <2>1. LineIs(LineBytes(ls[k]), ls[k].cmd)
    BY <1>2, LineShape
  <2> QED
    BY <2>1 DEF LineIs
<1>4. j + 1 \in 1 .. Len(B) /\ (j + 1 # Len(B) => j + 1 \in 1 .. Len(B) - 1)
  <2>1. j \in Nat /\ j < Len(B) /\ Len(B) \in Nat
    BY <1>1, <1>3
  <2> QED
    BY ONLY <2>1
<1>5. c \in Nat
  <2>1. B \in Seq(Nat) /\ j + 1 \in 1 .. Len(B) /\ c = B[j + 1]
    BY <1>1, <1>3, <1>4
  <2> QED
    BY ONLY <2>1
<1> QED
  BY <1>1, <1>2, <1>3, <1>4, <1>5

(* What is known after it.                                                 *)
Moved(ls, q, k, j, x, s) ==
  /\ q.state \in Commands \cup {"response"} /\ (q.state = "response" => q.i = 0)
  /\ j + 1 = Len(LineBytes(ls[k])) => ParserAt(ls, q, k + 1, 0, x, s)
  /\ j + 1 # Len(LineBytes(ls[k])) => ParserAt(ls, q, k, j + 1, x, s)

(* The letters of UsEr and pAsS.                                           *)
LEMMA UserLetters ==
  ASSUME NEW line \in Lines, line.cmd = "USER", NEW j \in 0 .. 3
  PROVE  TO_UPPER(LineBytes(line)[j + 1]) = USER[j + 1]
<1> DEFINE B == LineBytes(line)
<1>1. B[1] = 85 /\ B[2] = 115 /\ B[3] = 69 /\ B[4] = 114
  BY UserLine DEF CommandLaid
<1> HIDE DEF B
<1>2. j + 1 \in {1, 2, 3, 4}
  OBVIOUS
<1>3. TO_UPPER(B[j + 1]) = USER[j + 1]
  BY <1>1, <1>2 DEF TO_UPPER, USER
<1> QED
  BY <1>3 DEF B

LEMMA PassLetters ==
  ASSUME NEW line \in Lines, line.cmd = "PASS", NEW j \in 0 .. 3
  PROVE  TO_UPPER(LineBytes(line)[j + 1]) = PASS[j + 1]
<1> DEFINE B == LineBytes(line)
<1>1. B[1] = 112 /\ B[2] = 65 /\ B[3] = 115 /\ B[4] = 83
  BY PassLine DEF CommandLaid
<1> HIDE DEF B
<1>2. j + 1 \in {1, 2, 3, 4}
  OBVIOUS
<1>3. TO_UPPER(B[j + 1]) = PASS[j + 1]
  BY <1>1, <1>2 DEF TO_UPPER, PASS
<1> QED
  BY <1>3 DEF B

(* What was collected when a line ends is its argument.                    *)
LEMMA ArgCollected ==
  ASSUME NEW line \in Lines, line.cmd \in {"USER", "PASS"}, NEW B, B = LineBytes(line),
         NEW a \in Seq(Nat), NEW i \in Nat, i + 5 = Len(B), ArrayIs(a, i, B)
  PROVE  i # 0 /\ SubSeq(a, 1, i - 1) = Arg(line)
<1> DEFINE g == line.arg
           n == Len(g)
<1>1. /\ g \in Seq(Nat) /\ n \in Nat /\ Len(B) = n + 7 /\ B[5] = 32
      /\ \A m \in 1 .. n : B[5 + m] = g[m]
  BY UserLine, PassLine DEF CommandLaid
<1>2. i = n + 2 /\ i <= Len(a) /\ \A m \in 1 .. i : a[m] = B[4 + m]
  BY <1>1 DEF ArrayIs
<1> HIDE DEF g, n
<1> DEFINE t == SubSeq(a, 1, i - 1)
           u == Arg(line)
<1>3. t \in Seq(Nat) /\ Len(t) = n + 1 /\ \A m \in 1 .. n + 1 : t[m] = a[m]
  BY <1>1, <1>2
<1>4. /\ u \in Seq(Nat) /\ Len(u) = n + 1
      /\ u[1] = 32 /\ \A m \in 1 .. n : u[1 + m] = g[m]
  <2>1. <<32>> \in Seq(Nat) /\ Len(<<32>>) = 1 /\ <<32>>[1] = 32
    OBVIOUS
  <2>2. u = <<32>> \o g
    BY DEF Arg, g
  <2>3. /\ u \in Seq(Nat) /\ Len(u) = 1 + n
        /\ \A m \in 1 .. 1 : u[m] = <<32>>[m]
        /\ \A m \in 1 .. n : u[1 + m] = g[m]
    BY <1>1, <2>1, <2>2, JoinedUp DEF n
  <2> QED
    BY <1>1, <2>1, <2>3
<1> HIDE DEF t, u
<1>5. ASSUME NEW m \in 1 .. n + 1 PROVE t[m] = u[m]
  <2>0. m \in 1 .. i
    BY <1>1, <1>2
  <2>1. t[m] = B[4 + m]
    BY <1>2, <1>3, <2>0
  <2>2. CASE m = 1
    BY <1>1, <1>4, <2>1, <2>2
  <2>3. CASE m # 1
    <3>1. m - 1 \in 1 .. n /\ 5 + (m - 1) = 4 + m /\ 1 + (m - 1) = m
      BY <1>1, <2>3
    <3> QED
      BY <1>1, <1>4, <2>1, <3>1
  <2> QED
    BY <2>2, <2>3
<1>6. t = u
  BY <1>1, <1>3, <1>4, <1>5
<1> QED
  BY <1>1, <1>2, <1>6 DEF t, u

(* In the state `user': the line is not, or not yet, the one looked for;   *)
LEMMA UserMissed ==
  ASSUME NEW ls, NEW k, NEW j, NEW c, IsNext(ls, k, j, c), NEW x \in BOOLEAN, NEW s,
         NEW p, AtUser(ls, p, k, j, x, s), TO_UPPER(c) # USER[p.i + 1],
         NEW q \in AllParsers, q.state = "user", q.i = 0
  PROVE  Moved(ls, q, k, j, x, s)
<1> DEFINE B == LineBytes(ls[k])
<1>1. /\ ls \in Seq(Lines) /\ Len(ls) \in Nat /\ k \in 1 .. Len(ls) /\ j \in Nat /\ j < Len(B)
      /\ ls[k] \in Lines /\ ls[k].cmd \in {"USER", "PASS", "CAPA"}
      /\ Len(B) \in Nat /\ Len(B) >= 6 /\ c = B[j + 1]
  BY NextFacts
<1>2. p.i \in 0 .. 3 /\ (x => ls[k].cmd # "PASS" /\ (ls[k].cmd = "USER" => p.i = j))
  BY <1>1 DEF AtUser
<1>3. x => ls[k].cmd # "USER"
  <2>1. ASSUME x, ls[k].cmd = "USER" PROVE FALSE
    <3>1. p.i = j /\ j \in 0 .. 3
      BY <1>2, <2>1
    <3>2. TO_UPPER(B[j + 1]) = USER[j + 1]
      BY <1>1, <2>1, <3>1, UserLetters
    <3> QED
      BY <1>1, <3>1, <3>2
  <2> QED
    BY <2>1
<1>4. ASSUME x, k + 1 <= Len(ls) PROVE ls[k + 1].cmd # "PASS"
  <2>1. k + 1 \in 1 .. Len(ls) /\ (k + 1) - 1 = k
    BY <1>1, <1>4
  <2> QED
    BY <1>3, <1>4, <2>1 DEF IsNext, PassAfterUser
<1>5. AtUser(ls, q, k + 1, 0, x, s)
  <2>1. (k + 1) - 1 = k /\ q.i \in 0 .. 3
    BY <1>1
  <2> QED
    BY <1>1, <1>2, <1>3, <1>4, <2>1 DEF AtUser
<1>6. AtUser(ls, q, k, j + 1, x, s)
  <2>1. q.i <= j + 1 /\ q.i \in 0 .. 3 /\ j + 1 # 0 /\ \A m \in 1 .. q.i : FALSE
    BY <1>1
  <2> QED
    BY <1>1, <1>2, <1>3, <2>1 DEF AtUser
<1> QED
  BY <1>5, <1>6 DEF Moved, ParserAt, Commands

(* it may still be,                                                        *)
LEMMA UserGoesOn ==
  ASSUME NEW ls, NEW k, NEW j, NEW c, IsNext(ls, k, j, c), NEW x \in BOOLEAN, NEW s,
         NEW p, AtUser(ls, p, k, j, x, s), TO_UPPER(c) = USER[p.i + 1], p.i < 3,
         NEW q \in AllParsers, q.state = "user", q.i = p.i + 1
  PROVE  Moved(ls, q, k, j, x, s)
<1> DEFINE B == LineBytes(ls[k])
<1>1. /\ ls \in Seq(Lines) /\ Len(ls) \in Nat /\ k \in 1 .. Len(ls) /\ j \in Nat /\ j < Len(B)
      /\ ls[k] \in Lines /\ ls[k].cmd \in {"USER", "PASS", "CAPA"}
      /\ Len(B) \in Nat /\ Len(B) >= 6 /\ c = B[j + 1] /\ (c = LF <=> j + 1 = Len(B))
      /\ B[1] = IF ls[k].cmd = "USER" THEN 85 ELSE IF ls[k].cmd = "PASS" THEN 112 ELSE 67
  BY NextFacts
<1>2. /\ p.i \in 0 .. 3 /\ (x => ls[k].cmd # "PASS" /\ (ls[k].cmd = "USER" => p.i = j))
      /\ j # 0 => p.i <= j /\ \A m \in 1 .. p.i : TO_UPPER(B[(j - p.i) + m]) = USER[m]
  BY <1>1 DEF AtUser
<1>3. p.i \in {0, 1, 2}
  BY <1>2
<1> HIDE DEF B
<1>4. c # LF
  BY <1>3 DEF LF, TO_UPPER, USER
<1>5. j = 0 => p.i = 0
  <2>1. j = 0 => B[1] \in {85, 112, 67} /\ c = B[1]
    BY <1>1
  <2> QED
    BY <1>3, <2>1 DEF TO_UPPER, USER
<1>6. p.i <= j
  BY <1>1, <1>2, <1>5
<1>7. ASSUME NEW m \in 1 .. q.i PROVE TO_UPPER(B[((j + 1) - q.i) + m]) = USER[m]
  <2>1. ((j + 1) - q.i) + m = (j - p.i) + m
    BY <1>1, <1>3
  <2>2. CASE m = p.i + 1
    <3>1. (j - p.i) + m = j + 1
      BY <1>1, <1>3, <2>2
    <3> QED
      BY <1>1, <2>1, <2>2, <3>1
  <2>3. CASE m # p.i + 1
    <3>1. m \in 1 .. p.i /\ p.i # 0
      BY <1>3, <2>3
    <3>2. j # 0
      BY <1>5, <3>1
    <3> QED
      BY <1>2, <2>1, <3>1, <3>2
  <2> QED
    BY <2>2, <2>3
<1>8. AtUser(ls, q, k, j + 1, x, s)
  <2>1. q.i <= j + 1 /\ q.i \in 0 .. 3 /\ j + 1 # 0
    BY <1>1, <1>3, <1>6
  <2>2. \A m \in 1 .. q.i : TO_UPPER(LineBytes(ls[k])[((j + 1) - q.i) + m]) = USER[m]
    BY <1>7 DEF B
  <2> QED
    BY <1>2, <2>1, <2>2 DEF AtUser
<1>9. j + 1 # Len(LineBytes(ls[k]))
  BY <1>1, <1>4 DEF B
<1> QED
  BY <1>8, <1>9 DEF Moved, ParserAt, Commands

(* or it is, unless it is taken for it.                                    *)
LEMMA UserFound ==
  ASSUME NEW ls, NEW k, NEW j, NEW c, IsNext(ls, k, j, c), NEW x \in BOOLEAN, NEW s,
         NEW p, AtUser(ls, p, k, j, x, s), TO_UPPER(c) = USER[p.i + 1], p.i = 3,
         NEW q \in AllParsers, q.state = "user_copy", q.i = 0, x \/ PlainName(ls[k])
  PROVE  Moved(ls, q, k, j, x, s)
<1> DEFINE B == LineBytes(ls[k])
<1>1. /\ ls \in Seq(Lines) /\ Len(ls) \in Nat /\ k \in 1 .. Len(ls) /\ j \in Nat /\ j < Len(B)
      /\ ls[k] \in Lines /\ ls[k].cmd \in {"USER", "PASS", "CAPA"}
      /\ Len(B) \in Nat /\ Len(B) >= 6 /\ c = B[j + 1] /\ (c = LF <=> j + 1 = Len(B))
      /\ B[1] = IF ls[k].cmd = "USER" THEN 85 ELSE IF ls[k].cmd = "PASS" THEN 112 ELSE 67
  BY NextFacts
<1>2. /\ x => ls[k].cmd # "PASS" /\ (ls[k].cmd = "USER" => j = 3)
      /\ j # 0 => 3 <= j /\ \A m \in 1 .. 3 : TO_UPPER(B[(j - 3) + m]) = USER[m]
  BY <1>1 DEF AtUser
<1> HIDE DEF B
<1>3. TO_UPPER(c) = USER[4] /\ USER[4] = 82
  BY DEF USER
<1>4. c # LF
  BY <1>3 DEF LF, TO_UPPER
<1>5. j # 0
  <2>1. j = 0 => B[1] \in {85, 112, 67} /\ c = B[1]
    BY <1>1
  <2> QED
    BY <1>3, <2>1 DEF TO_UPPER
<1>6. ASSUME NEW m \in 1 .. 4 PROVE TO_UPPER(B[((j + 1) - 4) + m]) = USER[m]
  <2>1. ((j + 1) - 4) + m = (j - 3) + m
    BY <1>1
  <2>2. CASE m = 4
    <3>1. (j - 3) + m = j + 1
      BY <1>1, <2>2
    <3> QED
      BY <1>1, <1>3, <2>1, <2>2, <3>1
  <2>3. CASE m # 4
    <3>1. m \in 1 .. 3
      BY <2>3
    <3> QED
      BY <1>2, <1>5, <2>1, <3>1
  <2> QED
    BY <2>2, <2>3
<1>7. Spells(B, (j + 1) - 4) /\ j + 1 \in 4 .. Len(B)
  <2>1. Spells(B, (j + 1) - 4)
    BY ONLY <1>6 DEF Spells
  <2>2. j + 1 \in 4 .. Len(B)
    <3>1. j \in Nat /\ 3 <= j /\ j < Len(B) /\ Len(B) \in Nat
      BY <1>1, <1>2, <1>5
    <3> QED
      BY ONLY <3>1
  <2> QED
    BY <2>1, <2>2
<1>8. (ls[k].cmd = "USER" /\ j + 1 = 4) \/ ls[k].cmd = "PASS"
  <2>1. j + 1 = 4 \/ PlainName(ls[k])
    BY <1>2 DEF PlainName
  <2> QED
    BY <1>1, <1>7, <2>1, SpelledWhere DEF B
<1>9. AtUserCopy(ls, q, k, j + 1, x)
  <2>0. q.user \in Seq(Nat)
    BY ParserFields
  <2>1. 0 <= Len(q.user) /\ j + 1 # 0 /\ \A m \in 1 .. 0 : FALSE
    BY ONLY <1>1, <2>0
  <2>2. ArrayIs(q.user, q.i, LineBytes(ls[k]))
    BY <2>1 DEF ArrayIs
  <2> QED
    <3>1. k <= Len(ls) /\ q.i <= Len(q.user) /\ q.i = 0
      BY <1>1, <2>1
    <3>2. CASE ls[k].cmd = "USER" /\ j + 1 = 4
      <4>1. j + 1 = q.i + 4
        BY <3>1, <3>2
      <4> QED
        BY <2>2, <3>1, <3>2, <4>1 DEF AtUserCopy
    <3>3. CASE ls[k].cmd = "PASS"
      BY <1>2, <2>1, <3>1, <3>3 DEF AtUserCopy
    <3> QED
      BY <1>8, <3>2, <3>3
<1>10. j + 1 # Len(LineBytes(ls[k]))
  BY <1>1, <1>4 DEF B
<1> QED
  BY <1>9, <1>10 DEF Moved, ParserAt, Commands

LEMMA MovedUser ==
  ASSUME NEW ls, NEW k, NEW j, NEW c, IsNext(ls, k, j, c), NEW x \in BOOLEAN, NEW s,
         NEW p, p.state = "user", ParserAt(ls, p, k, j, x, s), x \/ PlainName(ls[k])
  PROVE  Moved(ls, Fed(p, c), k, j, x, s)
<1>1. PICK q : q = Fed(p, c)
  OBVIOUS
<1>2. p \in AllParsers /\ AtUser(ls, p, k, j, x, s) /\ p.i \in 0 .. 3
  BY DEF ParserAt, AtUser
<1>3. \/ TO_UPPER(c) # USER[p.i + 1] /\ Becomes(p, q, "user", 0)
      \/ TO_UPPER(c) = USER[p.i + 1] /\ p.i < 3 /\ Becomes(p, q, "user", p.i + 1)
      \/ TO_UPPER(c) = USER[p.i + 1] /\ p.i = 3 /\ Becomes(p, q, "user_copy", 0)
  BY <1>1, <1>2, FedUser
<1>4. ASSUME NEW st \in {"user", "user_copy"}, NEW n, Becomes(p, q, st, n)
      PROVE  q \in AllParsers /\ q.state = st /\ q.i = n
  BY <1>4 DEF Becomes
<1>5. CASE TO_UPPER(c) # USER[p.i + 1] /\ Becomes(p, q, "user", 0)
  BY <1>1, <1>2, <1>4, <1>5, UserMissed
<1>6. CASE TO_UPPER(c) = USER[p.i + 1] /\ p.i < 3 /\ Becomes(p, q, "user", p.i + 1)
  BY <1>1, <1>2, <1>4, <1>6, UserGoesOn
<1>7. CASE TO_UPPER(c) = USER[p.i + 1] /\ p.i = 3 /\ Becomes(p, q, "user_copy", 0)
  BY <1>1, <1>2, <1>4, <1>7, UserFound
<1> QED
  BY <1>3, <1>5, <1>6, <1>7

(* In the state `user_copy' the argument is collected, of a USER unless a  *)
(* password was taken for one.                                             *)
LEMMA MovedUserCopy ==
  ASSUME NEW ls, NEW k, NEW j, NEW c, IsNext(ls, k, j, c), NEW x \in BOOLEAN, NEW s,
         NEW p, p.state = "user_copy", ParserAt(ls, p, k, j, x, s)
  PROVE  Moved(ls, Fed(p, c), k, j, x, s)
<1> DEFINE B == LineBytes(ls[k])
<1>1. /\ ls \in Seq(Lines) /\ Len(ls) \in Nat /\ k \in 1 .. Len(ls) /\ j \in Nat /\ j < Len(B)
      /\ ls[k] \in Lines /\ Len(B) \in Nat /\ c = B[j + 1] /\ c \in Nat /\ (c = LF <=> j + 1 = Len(B))
  BY NextFacts
<1>2. /\ p \in AllParsers /\ j # 0 /\ p.i <= Len(p.user)
      /\ \/ ls[k].cmd = "USER" /\ j = p.i + 4 /\ ArrayIs(p.user, p.i, B)
         \/ ls[k].cmd = "PASS" /\ ~x
  BY DEF ParserAt, AtUserCopy
<1>3. p.i \in Nat /\ p.user \in Seq(Nat)
  BY <1>2, ParserFields
<1>4. PICK q : q = Fed(p, c)
  OBVIOUS
<1>5. /\ q \in AllParsers /\ Collected(p.user, p.i, c, q.user)
      /\ c = LF => q.state = "password" /\ q.i = 0
      /\ c # LF => q.state = "user_copy" /\ q.i = p.i + 1
  <2>1. p \in AllParsers /\ p.state = "user_copy" /\ p.i <= Len(p.user) /\ c \in Nat
    BY <1>1, <1>2
  <2> QED
    BY ONLY <1>4, <2>1, FedUserCopy
<1> HIDE DEF B
<1>6. CASE c = LF
  <2>1. (k + 1) - 1 = k /\ k + 1 > 1
    BY <1>1
  <2>2. AtPassword(ls, q, k + 1, 0, x)
    <3>1. CASE ls[k].cmd = "USER" /\ j = p.i + 4 /\ ArrayIs(p.user, p.i, B)
      <4>1. p.i + 5 = Len(B)
        BY <1>1, <1>3, <1>6, <3>1
      <4>2. p.i # 0 /\ SubSeq(p.user, 1, p.i - 1) = Arg(ls[k])
        <5>1. ls[k] \in Lines /\ ls[k].cmd \in {"USER", "PASS"} /\ B = LineBytes(ls[k]) /\ ArrayIs(p.user, p.i, B)
          BY <1>1, <3>1 DEF B
        <5> QED
          BY ONLY <1>3, <4>1, <5>1, ArgCollected
      <4>3. q.user = Arg(ls[k])
        BY <1>5, <1>6, <4>2 DEF Collected
      <4> QED
        BY <1>5, <1>6, <2>1, <3>1, <4>3 DEF AtPassword
    <3>2. CASE ls[k].cmd = "PASS" /\ ~x
      BY <1>5, <1>6, <2>1, <3>2 DEF AtPassword
    <3> QED
      BY <1>2, <3>1, <3>2
  <2>3. ParserAt(ls, q, k + 1, 0, x, s)
    BY <1>5, <1>6, <2>2 DEF ParserAt
  <2>4. j + 1 = Len(LineBytes(ls[k]))
    BY <1>1, <1>6 DEF B
  <2> QED
    BY <1>4, <1>5, <1>6, <2>3, <2>4 DEF Moved, Commands
<1>7. CASE c # LF
  <2>1. Len(q.user) = p.i + 1 /\ q.user[p.i + 1] = c /\ (\A m \in 1 .. p.i : q.user[m] = p.user[m])
        /\ q.i = p.i + 1 /\ q.i <= Len(q.user)
    BY <1>3, <1>5, <1>7 DEF Collected
  <2>2. ASSUME j = p.i + 4, ArrayIs(p.user, p.i, B) PROVE j + 1 = q.i + 4 /\ ArrayIs(q.user, q.i, B)
    <3>1. ASSUME NEW m \in 1 .. q.i PROVE q.user[m] = B[4 + m]
      <4>1. CASE m = p.i + 1
        <5>1. 4 + m = j + 1
          BY <1>3, <2>2, <4>1
        <5> QED
          BY <1>1, <2>1, <4>1, <5>1
      <4>2. CASE m # p.i + 1
        <5>1. m \in 1 .. p.i
          BY <1>3, <2>1, <4>2
        <5> QED
          BY <2>1, <2>2, <5>1 DEF ArrayIs
      <4> QED
        BY <4>1, <4>2
    <3> QED
      BY <1>3, <2>1, <2>2, <3>1 DEF ArrayIs
  <2>3. AtUserCopy(ls, q, k, j + 1, x)
    <3>1. j + 1 # 0 /\ k <= Len(ls)
      BY <1>1
    <3> QED
      BY <1>2, <2>1, <2>2, <3>1 DEF AtUserCopy, B
  <2>4. ParserAt(ls, q, k, j + 1, x, s)
    BY <1>5, <1>7, <2>3 DEF ParserAt
  <2>5. j + 1 # Len(LineBytes(ls[k]))
    BY <1>1, <1>7 DEF B
  <2> QED
    BY <1>4, <1>5, <1>7, <2>4, <2>5 DEF Moved, Commands
<1> QED
  BY <1>6, <1>7

(* In the state `password' a line other than PASS starts the search again. *)
LEMMA MovedPassword ==
  ASSUME NEW ls, NEW k, NEW j, NEW c, IsNext(ls, k, j, c), NEW x \in BOOLEAN, NEW s,
         NEW p, p.state = "password", ParserAt(ls, p, k, j, x, s)
  PROVE  Moved(ls, Fed(p, c), k, j, x, s)
<1> DEFINE B == LineBytes(ls[k])
<1>1. /\ ls \in Seq(Lines) /\ Len(ls) \in Nat /\ k \in 1 .. Len(ls) /\ j \in Nat /\ j < Len(B)
      /\ ls[k] \in Lines /\ Len(B) \in Nat /\ Len(B) >= 6 /\ c = B[j + 1] /\ (c = LF <=> j + 1 = Len(B))
      /\ ls[k].cmd \in {"USER", "PASS", "CAPA"}
      /\ B[1] = IF ls[k].cmd = "USER" THEN 85 ELSE IF ls[k].cmd = "PASS" THEN 112 ELSE 67
  BY NextFacts
<1>2. /\ p \in AllParsers /\ k > 1
      /\ \/ /\ ls[k - 1].cmd = "USER" /\ p.user = Arg(ls[k - 1])
            /\ p.i = j /\ j <= 3 /\ (j # 0 => ls[k].cmd = "PASS")
         \/ ls[k - 1].cmd = "PASS" /\ ~x /\ p.i = 0 /\ j = 0
  BY DEF ParserAt, AtPassword
<1>3. p.i = j /\ j \in 0 .. 3 /\ p.i \in 0 .. 3 /\ (j # 0 => ls[k].cmd = "PASS")
  BY <1>1, <1>2
<1>4. ls[k].cmd = "PASS" => ls[k - 1].cmd = "USER" /\ p.user = Arg(ls[k - 1])
  BY <1>1, <1>2 DEF IsNext, PassAfterUser
<1>5. PICK q : q = Fed(p, c)
  OBVIOUS
<1>6. \/ TO_UPPER(c) # PASS[p.i + 1] /\ TO_UPPER(c) # USER[1] /\ Becomes(p, q, "user", 0)
      \/ TO_UPPER(c) # PASS[p.i + 1] /\ TO_UPPER(c) = USER[1] /\ Becomes(p, q, "user", 1)
      \/ TO_UPPER(c) = PASS[p.i + 1] /\ p.i < 3 /\ Becomes(p, q, "password", p.i + 1)
      \/ TO_UPPER(c) = PASS[p.i + 1] /\ p.i = 3 /\ Becomes(p, q, "password_copy", 0)
  BY <1>2, <1>3, <1>5, FedPassword
<1> HIDE DEF B
<1>7. j + 1 # Len(B) /\ j + 1 # 0
  BY <1>1, <1>3
<1>8. CASE ls[k].cmd = "PASS"
  <2>1. TO_UPPER(c) = PASS[p.i + 1]
    BY <1>1, <1>3, <1>8, PassLetters DEF B
  <2>2. CASE p.i < 3 /\ Becomes(p, q, "password", p.i + 1)
    <3>1. q \in AllParsers /\ q.state = "password" /\ q.i = j + 1 /\ q.user = p.user /\ j + 1 <= 3
      BY <1>3, <2>2 DEF Becomes
    <3>2. AtPassword(ls, q, k, j + 1, x)
      BY <1>2, <1>4, <1>8, <3>1 DEF AtPassword
    <3> QED
      BY <1>5, <1>7, <3>1, <3>2 DEF Moved, ParserAt, Commands, B
  <2>3. CASE p.i = 3 /\ Becomes(p, q, "password_copy", 0)
    <3>1. q \in AllParsers /\ q.state = "password_copy" /\ q.i = 0 /\ q.user = p.user /\ j + 1 = q.i + 4
      BY <1>3, <2>3 DEF Becomes
    <3>2. q.pass \in Seq(Nat)
      BY <3>1, ParserFields
    <3>3. 0 <= Len(q.pass) /\ \A m \in 1 .. 0 : FALSE
      BY ONLY <3>2
    <3>4. ArrayIs(q.pass, q.i, LineBytes(ls[k]))
      BY <3>1, <3>3 DEF ArrayIs
    <3>5. AtPasswordCopy(ls, q, k, j + 1)
      BY <1>1, <1>2, <1>4, <1>8, <3>1, <3>4 DEF AtPasswordCopy
    <3> QED
      BY <1>5, <1>7, <3>1, <3>5 DEF Moved, ParserAt, Commands, B
  <2> QED
    BY <1>6, <2>1, <2>2, <2>3
<1>9. CASE ls[k].cmd # "PASS"
  <2>1. j = 0 /\ p.i = 0 /\ c = (IF ls[k].cmd = "USER" THEN 85 ELSE 67)
    BY <1>1, <1>3, <1>9
  <2>2. PASS[1] = 80 /\ USER[1] = 85 /\ TO_UPPER(85) = 85 /\ TO_UPPER(67) = 67
    BY DEF PASS, USER, TO_UPPER
  <2>3. TO_UPPER(c) = c /\ p.i + 1 = 1 /\ TO_UPPER(c) # PASS[1] /\ (TO_UPPER(c) = USER[1] <=> ls[k].cmd = "USER")
    BY <2>1, <2>2
  <2>4. Becomes(p, q, "user", IF ls[k].cmd = "USER" THEN 1 ELSE 0)
    BY <1>6, <2>1, <2>3
  <2>5. q \in AllParsers /\ q.state = "user" /\ q.i = IF ls[k].cmd = "USER" THEN 1 ELSE 0
    BY <2>4 DEF Becomes
  <2>6. ASSUME NEW m \in 1 .. q.i PROVE TO_UPPER(B[(1 - q.i) + m]) = USER[m]
    <3>1. ls[k].cmd = "USER" /\ q.i = 1 /\ m = 1
      BY <2>5
    <3>2. (1 - q.i) + m = 1
      BY <3>1
    <3>3. B[1] = 85
      BY <1>1, <3>1
    <3> QED
      BY <2>2, <3>1, <3>2, <3>3
  <2>7. AtUser(ls, q, k, 1, x, s)
    <3>1. q.i \in 0 .. 3 /\ q.i <= 1 /\ 1 # 0
      BY <2>5
    <3>2. \A m \in 1 .. q.i : TO_UPPER(LineBytes(ls[k])[(1 - q.i) + m]) = USER[m]
      BY <2>6 DEF B
    <3> QED
      BY ONLY <1>9, <2>5, <3>1, <3>2 DEF AtUser
  <2>8. ParserAt(ls, q, k, j + 1, x, s)
    BY <2>1, <2>5, <2>7 DEF ParserAt
  <2> QED
    BY <1>5, <1>7, <2>5, <2>8 DEF Moved, Commands, B
<1> QED
  BY <1>8, <1>9

(* In the state `password_copy' the password is collected.                 *)
LEMMA MovedPasswordCopy ==
  ASSUME NEW ls, NEW k, NEW j, NEW c, IsNext(ls, k, j, c), NEW x \in BOOLEAN, NEW s,
         NEW p, p.state = "password_copy", ParserAt(ls, p, k, j, x, s)
  PROVE  Moved(ls, Fed(p, c), k, j, x, s)
<1> DEFINE B == LineBytes(ls[k])
<1>1. /\ ls \in Seq(Lines) /\ Len(ls) \in Nat /\ k \in 1 .. Len(ls) /\ j \in Nat /\ j < Len(B)
      /\ ls[k] \in Lines /\ Len(B) \in Nat /\ c = B[j + 1] /\ c \in Nat /\ (c = LF <=> j + 1 = Len(B))
  BY NextFacts
<1>2. /\ p \in AllParsers /\ k > 1 /\ ls[k].cmd = "PASS" /\ p.user = Arg(ls[k - 1])
      /\ j = p.i + 4 /\ ArrayIs(p.pass, p.i, B) /\ p.i <= Len(p.pass) /\ k = Len(ls)
  BY DEF ParserAt, AtPasswordCopy, ArrayIs, IsNext
<1>3. p.i \in Nat /\ p.pass \in Seq(Nat)
  BY <1>2, ParserFields
<1>4. PICK q : q = Fed(p, c)
  OBVIOUS
<1>5. /\ q \in AllParsers /\ Collected(p.pass, p.i, c, q.pass) /\ q.user = p.user
      /\ c = LF => q.state = "response" /\ q.i = 0
      /\ c # LF => q.state = "password_copy" /\ q.i = p.i + 1
  <2>1. p \in AllParsers /\ p.state = "password_copy" /\ p.i <= Len(p.pass) /\ c \in Nat
    BY <1>1, <1>2
  <2> QED
    BY ONLY <1>4, <2>1, FedPasswordCopy
<1> HIDE DEF B
<1>6. CASE c = LF
  <2>1. (k + 1) - 1 = k /\ k + 1 > 2 /\ (k + 1) - 2 = k - 1 /\ k + 1 = Len(ls) + 1
    BY <1>1, <1>2
  <2>2. p.i + 5 = Len(B)
    <3>1. j = p.i + 4 /\ p.i \in Nat /\ j + 1 = Len(B)
      BY <1>1, <1>2, <1>3, <1>6
    <3> QED
      BY ONLY <3>1
  <2>3. p.i # 0 /\ SubSeq(p.pass, 1, p.i - 1) = Arg(ls[k])
    <3>1. ls[k] \in Lines /\ ls[k].cmd \in {"USER", "PASS"} /\ B = LineBytes(ls[k]) /\ ArrayIs(p.pass, p.i, B)
      BY <1>1, <1>2 DEF B
    <3> QED
      BY ONLY <1>3, <2>2, <3>1, ArgCollected
  <2>4. q.pass = Arg(ls[k])
    BY <1>5, <1>6, <2>3 DEF Collected
  <2>5. AtResponse(ls, q, k + 1)
    BY <1>2, <1>5, <1>6, <2>1, <2>4 DEF AtResponse
  <2>6. ParserAt(ls, q, k + 1, 0, x, s)
    BY <1>5, <1>6, <2>5 DEF ParserAt
  <2>7. j + 1 = Len(LineBytes(ls[k]))
    BY <1>1, <1>6 DEF B
  <2> QED
    BY <1>4, <1>5, <1>6, <2>6, <2>7 DEF Moved, Commands
<1>7. CASE c # LF
  <2>1. Len(q.pass) = p.i + 1 /\ q.pass[p.i + 1] = c /\ (\A m \in 1 .. p.i : q.pass[m] = p.pass[m])
        /\ q.i = p.i + 1 /\ q.i <= Len(q.pass)
    BY <1>3, <1>5, <1>7 DEF Collected
  <2>2. j + 1 = q.i + 4
    BY <1>2, <1>3, <2>1
  <2>3. ASSUME NEW m \in 1 .. q.i PROVE q.pass[m] = B[4 + m]
    <3>1. CASE m = p.i + 1
      <4>1. 4 + m = j + 1
        BY <1>2, <1>3, <3>1
      <4> QED
        BY <1>1, <2>1, <3>1, <4>1
    <3>2. CASE m # p.i + 1
      <4>1. m \in 1 .. p.i
        BY <1>3, <2>1, <3>2
      <4> QED
        BY <1>2, <2>1, <4>1 DEF ArrayIs
    <3> QED
      BY <3>1, <3>2
  <2>4. ArrayIs(q.pass, q.i, LineBytes(ls[k]))
    BY <2>1, <2>3 DEF ArrayIs, B
  <2>5. AtPasswordCopy(ls, q, k, j + 1)
    BY <1>1, <1>2, <1>5, <2>2, <2>4 DEF AtPasswordCopy
  <2>6. ParserAt(ls, q, k, j + 1, x, s)
    BY <1>5, <1>7, <2>5 DEF ParserAt
  <2>7. j + 1 # Len(LineBytes(ls[k]))
    BY <1>1, <1>7 DEF B
  <2> QED
    BY <1>4, <1>5, <1>7, <2>6, <2>7 DEF Moved, Commands
<1> QED
  BY <1>6, <1>7

-----------------------------------------------------------------------------
(* A piece of what the client sent.                                        *)

(* The bytes u are those of the lines ls.                                  *)
Laid(ls, u) ==
  /\ u \in Seq(Nat) /\ Len(u) = Ends(ls, Len(ls))
  /\ \A k \in 1 .. Len(ls) : \A j \in 1 .. Len(LineBytes(ls[k])) :
       u[Ends(ls, k - 1) + j] = LineBytes(ls[k])[j]

(* A PASS that is not the last line was sent.                              *)
PassesSent(ls, pos) == \A k \in 1 .. Len(ls) - 1 : ls[k].cmd = "PASS" => pos >= Ends(ls, k)

LEMMA EndsNext ==
  ASSUME NEW ls \in Seq(Lines), NEW k \in 1 .. Len(ls)
  PROVE  /\ Ends(ls, 0) = 0 /\ Ends(ls, k) = Ends(ls, k - 1) + Len(LineBytes(ls[k]))
         /\ Len(LineBytes(ls[k])) \in Nat /\ Len(LineBytes(ls[k])) >= 6
<1>1. k - 1 \in Nat /\ (k - 1) + 1 = k
  OBVIOUS
<1>2. Ends(ls, 0) = 0 /\ Ends(ls, (k - 1) + 1) = Ends(ls, k - 1) + Len(LineBytes(ls[(k - 1) + 1]))
  BY <1>1, EndsStep
<1>3. ls[k] \in Lines
  OBVIOUS
<1> QED
  BY <1>1, <1>2, <1>3, LineFacts

LEMMA EndsNat ==
  ASSUME NEW ls \in Seq(Lines), NEW k \in 0 .. Len(ls)
  PROVE  Ends(ls, k) \in Nat
<1> DEFINE bad == {j \in 0 .. Len(ls) : Ends(ls, j) \notin Nat}
<1>0. Len(ls) \in Nat
  OBVIOUS
<1>1. SUFFICES ASSUME bad # {} PROVE FALSE
  OBVIOUS
<1>2. PICK j \in bad : \A y \in bad : j <= y
  <2>1. bad \in SUBSET Nat
    BY <1>0
  <2> HIDE DEF bad
  <2> QED
    BY <1>1, <2>1, LeastNumber
<1>3. j # 0
  <2>1. 0 \in Nat /\ Ends(ls, 0) = 0
    BY EndsStep
  <2> QED
    BY <1>2, <2>1
<1>4. j \in 1 .. Len(ls) /\ j - 1 \in 0 .. Len(ls) /\ ~(j <= j - 1)
  BY <1>0, <1>3
<1>5. Ends(ls, j - 1) \in Nat
  BY <1>2, <1>4
<1> QED
  BY <1>2, <1>4, <1>5, EndsNext

(* Lines lie one after the other.                                          *)
LEMMA EndsMono ==
  ASSUME NEW ls \in Seq(Lines), NEW k \in 0 .. Len(ls), NEW l \in 0 .. Len(ls), k <= l
  PROVE  Ends(ls, k) <= Ends(ls, l)
<1> DEFINE bad == {j \in k .. Len(ls) : ~(Ends(ls, k) <= Ends(ls, j))}
<1>0. Len(ls) \in Nat
  OBVIOUS
<1>1. SUFFICES ASSUME bad # {} PROVE FALSE
  BY <1>0
<1>2. PICK j \in bad : \A y \in bad : j <= y
  <2>1. bad \in SUBSET Nat
    BY <1>0
  <2> HIDE DEF bad
  <2> QED
    BY <1>1, <2>1, LeastNumber
<1>3. Ends(ls, k) \in Nat
  BY EndsNat
<1>4. j # k
  BY <1>2, <1>3
<1>5. j \in 1 .. Len(ls) /\ j - 1 \in 0 .. Len(ls) /\ j - 1 \in k .. Len(ls) /\ ~(j <= j - 1)
  BY <1>0, <1>4
<1>6. Ends(ls, k) <= Ends(ls, j - 1)
  BY <1>2, <1>5
<1>7. Ends(ls, j - 1) \in Nat
  BY <1>5, EndsNat
<1>8. Ends(ls, j) = Ends(ls, j - 1) + Len(LineBytes(ls[j])) /\ Len(LineBytes(ls[j])) \in Nat
  BY <1>5, EndsNext
<1> QED
  BY <1>2, <1>3, <1>6, <1>7, <1>8

(* Every position has its place.                                           *)
LEMMA PlaceExists ==
  ASSUME NEW ls \in Seq(Lines), NEW pos \in Nat, pos <= Ends(ls, Len(ls))
  PROVE  \E k \in 1 .. Len(ls) + 1, j \in Nat : Place(ls, pos, k, j)
<1> DEFINE L == Len(ls)
           T == {k \in 1 .. L + 1 : k = L + 1 \/ pos < Ends(ls, k)}
<1>0. L \in Nat /\ ls \in Seq(Lines)
  OBVIOUS
<1>1. PICK k \in T : \A y \in T : k <= y
  <2>1. T \in SUBSET Nat /\ T # {}
    BY <1>0
  <2> HIDE DEF T
  <2> QED
    BY <2>1, LeastNumber
<1>2. k \in 1 .. L + 1 /\ k - 1 \in 0 .. L
  BY <1>0
<1>3. Ends(ls, k - 1) \in Nat
  BY <1>2, EndsNat
<1>4. pos >= Ends(ls, k - 1)
  <2>1. CASE k = 1
    <3>1. Ends(ls, 0) = 0 /\ k - 1 = 0
      BY <2>1, EndsStep
    <3> QED
      BY <3>1
  <2>2. CASE k # 1
    <3>1. k - 1 \in 1 .. L + 1 /\ k - 1 # L + 1 /\ ~(k <= k - 1)
      BY <1>0, <1>2, <2>2
    <3>2. ~(pos < Ends(ls, k - 1))
      BY <1>1, <3>1
    <3> QED
      BY <1>3, <3>2
  <2> QED
    BY <2>1, <2>2
<1> DEFINE j == pos - Ends(ls, k - 1)
<1>5. j \in Nat /\ pos = Ends(ls, k - 1) + j
  BY <1>3, <1>4
<1>6. k <= L => j < Len(LineBytes(ls[k]))
  <2>1. SUFFICES ASSUME k <= L PROVE j < Len(LineBytes(ls[k]))
    OBVIOUS
  <2>2. k \in 1 .. Len(ls) /\ pos < Ends(ls, k)
    BY <1>0, <1>1, <1>2, <2>1
  <2>3. Ends(ls, k) = Ends(ls, k - 1) + Len(LineBytes(ls[k])) /\ Len(LineBytes(ls[k])) \in Nat
    BY <2>2, EndsNext
  <2> QED
    BY <1>3, <1>5, <2>2, <2>3
<1>7. k = L + 1 => j = 0
  <2>1. k = L + 1 => k - 1 = L
    BY <1>0
  <2> QED
    BY <1>3, <1>4, <2>1
<1> HIDE DEF T, j
<1>8. Place(ls, pos, k, j)
  BY <1>2, <1>5, <1>6, <1>7 DEF Place
<1> QED
  BY <1>2, <1>5, <1>8

(* Parsers that fit the first pos bytes.                                   *)
Known(ls, pos, x, s) ==
  {q \in AllParsers :
     /\ q.state \in Commands \cup {"response"} /\ (q.state = "response" => q.i = 0)
     /\ \E k \in 1 .. Len(ls) + 1, j \in Nat : Place(ls, pos, k, j) /\ ParserAt(ls, q, k, j, x, s)}

PlainNames(ls) == \A k \in 1 .. Len(ls) : PlainName(ls[k])

LEMMA KnownStep ==
  ASSUME NEW ls \in Seq(Lines), PassAfterUser(ls), NEW u, Laid(ls, u),
         NEW pos \in Nat, PassesSent(ls, pos), NEW m \in Nat, pos + m < Len(u),
         NEW x \in BOOLEAN, x \/ PlainNames(ls), NEW s, NEW q \in Known(ls, pos + m, x, s)
  PROVE  Stepped(q, u[(pos + m) + 1]) \in Known(ls, (pos + m) + 1, x, s)
<1> DEFINE c == u[(pos + m) + 1]
<1>0. Len(ls) \in Nat /\ u \in Seq(Nat) /\ Len(u) = Ends(ls, Len(ls)) /\ Len(u) \in Nat
  BY DEF Laid
<1>1. /\ q.state \in Commands \cup {"response"} /\ (q.state = "response" => q.i = 0)
      /\ \E k \in 1 .. Len(ls) + 1, j \in Nat : Place(ls, pos + m, k, j) /\ ParserAt(ls, q, k, j, x, s)
  BY DEF Known
<1>2. PICK k \in 1 .. Len(ls) + 1, j \in Nat : Place(ls, pos + m, k, j) /\ ParserAt(ls, q, k, j, x, s)
  BY <1>1
<1>3. /\ pos + m = Ends(ls, k - 1) + j
      /\ k <= Len(ls) => j < Len(LineBytes(ls[k]))
      /\ k = Len(ls) + 1 => j = 0
  BY <1>2 DEF Place
<1>4. k \in 1 .. Len(ls)
  <2>1. ASSUME k = Len(ls) + 1 PROVE FALSE
    <3>1. k - 1 = Len(ls) /\ j = 0
      BY <1>0, <1>3, <2>1
    <3> QED
      BY <1>0, <1>3, <3>1
  <2> QED
    BY <1>0, <2>1
<1> DEFINE B == LineBytes(ls[k])
<1>5. /\ Ends(ls, k) = Ends(ls, k - 1) + Len(B) /\ Len(B) \in Nat /\ Len(B) >= 6 /\ j < Len(B)
      /\ Ends(ls, k - 1) \in Nat /\ k <= Len(ls)
  <2>1. k - 1 \in 0 .. Len(ls) /\ k <= Len(ls)
    BY <1>0, <1>4
  <2> QED
    BY <1>3, <1>4, <2>1, EndsNext, EndsNat
<1>6. c = B[j + 1]
  <2>1. j + 1 \in 1 .. Len(B) /\ Ends(ls, k - 1) + (j + 1) = (pos + m) + 1
    <3> DEFINE e == Ends(ls, k - 1)
    <3>1. /\ pos + m = e + j /\ j \in Nat /\ j < Len(B) /\ e \in Nat
          /\ Len(B) \in Nat /\ pos \in Nat /\ m \in Nat
      BY <1>3, <1>5
    <3> HIDE DEF e, B
    <3>2. e + (j + 1) = (pos + m) + 1 /\ j + 1 \in 1 .. Len(B)
      BY ONLY <3>1
    <3> QED
      BY <3>2 DEF e
  <2>2. u[Ends(ls, k - 1) + (j + 1)] = B[j + 1]
    BY <1>4, <2>1 DEF Laid
  <2> QED
    BY <2>1, <2>2
<1>7. ls[k].cmd = "PASS" => k = Len(ls)
  <2>1. ASSUME ls[k].cmd = "PASS", k # Len(ls) PROVE FALSE
    <3>1. k \in 1 .. Len(ls) - 1
      BY <1>0, <1>4, <2>1
    <3>2. pos >= Ends(ls, k)
      BY <2>1, <3>1 DEF PassesSent
    <3> QED
      BY <1>3, <1>5, <3>2
  <2> QED
    BY <2>1
<1>8. IsNext(ls, k, j, c)
  BY <1>4, <1>5, <1>6, <1>7 DEF IsNext
<1> HIDE DEF c
<1>9. q.state \in Commands
  <2>1. q.state # "response"
    BY <1>0, <1>2, <1>4 DEF ParserAt, AtResponse
  <2> QED
    BY <1>1, <2>1
<1>10. Moved(ls, Fed(q, c), k, j, x, s)
  <2>1. x \/ PlainName(ls[k])
    BY <1>4 DEF PlainNames
  <2> QED
    BY <1>2, <1>8, <1>9, <2>1, MovedUser, MovedUserCopy, MovedPassword, MovedPasswordCopy DEF Commands
<1>11. Stepped(q, c) = Fed(q, c)
  BY <1>9 DEF Stepped, Commands
<1>12. PICK r : r = Fed(q, c)
  OBVIOUS
<1>13. r.state \in Commands \cup {"response"} /\ (r.state = "response" => r.i = 0)
  BY <1>10, <1>12 DEF Moved
<1>14. PICK k2 \in 1 .. Len(ls) + 1, j2 \in Nat : Place(ls, (pos + m) + 1, k2, j2) /\ ParserAt(ls, r, k2, j2, x, s)
  <2>1. CASE j + 1 = Len(B)
    <3>1. k + 1 \in 1 .. Len(ls) + 1 /\ 0 \in Nat /\ (k + 1) - 1 = k /\ (pos + m) + 1 = Ends(ls, k) + 0
      <4> DEFINE e == Ends(ls, k - 1)
      <4>1. /\ pos + m = e + j /\ j \in Nat /\ j + 1 = Len(B) /\ Ends(ls, k) = e + Len(B) /\ e \in Nat
            /\ Len(B) \in Nat /\ pos \in Nat /\ m \in Nat
        BY <1>3, <1>5, <2>1
      <4> HIDE DEF e, B
      <4>2. (pos + m) + 1 = Ends(ls, k) + 0
        BY ONLY <4>1
      <4> QED
        BY <1>0, <1>4, <4>2
    <3>2. k + 1 <= Len(ls) => 0 < Len(LineBytes(ls[k + 1]))
      <4>1. SUFFICES ASSUME k + 1 <= Len(ls) PROVE 0 < Len(LineBytes(ls[k + 1]))
        OBVIOUS
      <4>2. k + 1 \in 1 .. Len(ls)
        BY <1>0, <1>4, <4>1
      <4>3. Len(LineBytes(ls[k + 1])) \in Nat /\ Len(LineBytes(ls[k + 1])) >= 6
        BY <4>2, EndsNext
      <4> QED
        BY <4>3
    <3>3. Place(ls, (pos + m) + 1, k + 1, 0)
      BY <3>1, <3>2 DEF Place
    <3>4. ParserAt(ls, r, k + 1, 0, x, s)
      BY <1>10, <1>12, <2>1 DEF Moved
    <3> QED
      BY <3>1, <3>3, <3>4
  <2>2. CASE j + 1 # Len(B)
    <3>1. j + 1 \in Nat /\ (pos + m) + 1 = Ends(ls, k - 1) + (j + 1) /\ j + 1 < Len(B) /\ k # Len(ls) + 1
      <4> DEFINE e == Ends(ls, k - 1)
      <4>1. /\ pos + m = e + j /\ j \in Nat /\ j < Len(B) /\ j + 1 # Len(B) /\ e \in Nat
            /\ Len(B) \in Nat /\ pos \in Nat /\ m \in Nat
        BY <1>3, <1>5, <2>2
      <4> HIDE DEF e, B
      <4>2. (pos + m) + 1 = e + (j + 1) /\ j + 1 < Len(B) /\ j + 1 \in Nat
        BY ONLY <4>1
      <4> QED
        BY <1>0, <1>4, <4>2 DEF e
    <3>2. Place(ls, (pos + m) + 1, k, j + 1)
      BY <1>2, <3>1 DEF Place
    <3>3. ParserAt(ls, r, k, j + 1, x, s)
      BY <1>10, <1>12, <2>2 DEF Moved
    <3> QED
      BY <1>2, <3>1, <3>2, <3>3
  <2> QED
    BY <2>1, <2>2
<1>15. r \in AllParsers
  BY <1>14 DEF ParserAt
<1>16. r \in Known(ls, (pos + m) + 1, x, s)
  BY <1>13, <1>14, <1>15 DEF Known
<1> QED
  BY <1>11, <1>12, <1>16 DEF c

LEMMA Piece ==
  ASSUME NEW u \in Seq(Nat), NEW pos \in Nat, NEW n \in Nat, pos + n <= Len(u),
         NEW b, b = SubSeq(u, pos + 1, pos + n)
  PROVE  Len(b) = n /\ \A m \in 1 .. n : b[m] = u[pos + m]
<1>1. pos + 1 \in 1 .. Len(u) + 1 /\ pos + n \in (pos + 1) - 1 .. Len(u)
  OBVIOUS
<1>2. /\ Len(b) = (pos + n) - (pos + 1) + 1
      /\ \A m \in 1 .. (pos + n) - (pos + 1) + 1 : b[m] = u[(pos + 1) + m - 1]
  BY <1>1, SubSeqProperties
<1>3. (pos + n) - (pos + 1) + 1 = n
  OBVIOUS
<1>4. ASSUME NEW m \in 1 .. n PROVE (pos + 1) + m - 1 = pos + m
  OBVIOUS
<1> QED
  BY <1>2, <1>3, <1>4

(* What disector_consume makes of a piece.                                 *)
LEMMA UpConsumed ==
  ASSUME NEW ls \in Seq(Lines), PassAfterUser(ls), NEW u, Laid(ls, u),
         NEW pos \in Nat, PassesSent(ls, pos), NEW n \in Nat, pos + n <= Len(u),
         NEW x \in BOOLEAN, x \/ PlainNames(ls), NEW s, NEW p \in Known(ls, pos, x, s)
  PROVE  disector_consume(p, SubSeq(u, pos + 1, pos + n)) \in Known(ls, pos + n, x, s)
<1> DEFINE bytes == SubSeq(u, pos + 1, pos + n)
           G == [m \in 0 .. n |-> Known(ls, pos + m, x, s)]
<1>0. u \in Seq(Nat) /\ Len(u) \in Nat
  BY DEF Laid
<1>1. Len(bytes) = n /\ \A m \in 1 .. n : bytes[m] = u[pos + m]
  BY <1>0, Piece
<1>2. p \in G[0]
  <2>1. pos + 0 = pos /\ 0 \in 0 .. n
    OBVIOUS
  <2> QED
    BY <2>1
<1>3. ASSUME NEW k \in 1 .. n, NEW q \in G[k - 1] PROVE Stepped(q, bytes[k]) \in G[k]
  <2>1. /\ k - 1 \in Nat /\ k - 1 \in 0 .. n /\ k \in 0 .. n /\ pos + (k - 1) < Len(u)
        /\ (pos + (k - 1)) + 1 = pos + k
    BY <1>0
  <2>2. q \in Known(ls, pos + (k - 1), x, s)
    BY <2>1
  <2>3. Stepped(q, u[(pos + (k - 1)) + 1]) \in Known(ls, (pos + (k - 1)) + 1, x, s)
    BY <2>1, <2>2, KnownStep
  <2> QED
    BY <1>1, <2>1, <2>3
<1> HIDE DEF G, bytes
<1>4. disector_consume(p, bytes) \in G[n]
  <2>1. Len(bytes) \in Nat
    BY <1>1
  <2> QED
    BY <1>1, <1>2, <1>3, <2>1, ConsumeKeeps
<1> QED
  BY <1>4 DEF G, bytes

-----------------------------------------------------------------------------
(* A piece of what the origin sent.                                        *)

(* Parsers after the first pos bytes of d, for one that waits for the      *)
(* greeting. If nothing spells USER (b, plain), no letter of it is found.  *)
GreetingAt(d, pos, x, b) ==
  {q \in AllParsers :
     /\ q.state \in {"wait_pop", "incompatible", "user"}
     /\ q.state = "wait_pop" => q.i \in {0, 1} /\ (x => q.i = pos /\ (q.i = 1 => d[1] = OK[1]))
     /\ q.state = "incompatible" /\ x => ~(d[1] = OK[1] /\ d[2] = OK[2])
     /\ q.state = "user" => /\ q.i \in 0 .. 3 /\ q.i <= pos /\ (b => q.i = 0)
                            /\ \A t \in 1 .. q.i : TO_UPPER(d[(pos - q.i) + t]) = USER[t]}

LEMMA GreetingStep ==
  ASSUME NEW d \in Seq(Nat), NEW pos \in Nat, pos < Len(d), NEW x \in BOOLEAN, NEW b \in BOOLEAN,
         b => TO_UPPER(d[pos + 1]) # USER[1],
         ~b => \A i \in 0 .. Len(d) - 4 : ~Spells(d, i),
         NEW q \in GreetingAt(d, pos, x, b)
  PROVE  Stepped(q, d[pos + 1]) \in GreetingAt(d, pos + 1, x, b)
<1> DEFINE c == d[pos + 1]
<1>1. /\ q \in AllParsers /\ q.state \in {"wait_pop", "incompatible", "user"}
      /\ q.state = "wait_pop" => q.i \in {0, 1} /\ (x => q.i = pos /\ (q.i = 1 => d[1] = OK[1]))
      /\ q.state = "incompatible" /\ x => ~(d[1] = OK[1] /\ d[2] = OK[2])
      /\ q.state = "user" => /\ q.i \in 0 .. 3 /\ q.i <= pos /\ (b => q.i = 0)
                             /\ \A t \in 1 .. q.i : TO_UPPER(d[(pos - q.i) + t]) = USER[t]
  BY DEF GreetingAt
<1>2. CASE q.state = "incompatible"
  BY <1>1, <1>2 DEF GreetingAt, Stepped
<1>3. PICK r : r = Fed(q, c)
  OBVIOUS
<1>4. q.state # "incompatible" => r = Stepped(q, c)
  BY <1>3 DEF Stepped
<1>0. pos + 1 \in Nat
  OBVIOUS
<1>5. ASSUME r \in AllParsers, r.state = "user", r.i = 0 PROVE r \in GreetingAt(d, pos + 1, x, b)
  <2>1. r.i \in 0 .. 3 /\ r.i <= pos + 1 /\ \A t \in 1 .. r.i : FALSE
    BY <1>0, <1>5
  <2> QED
    BY <1>5, <2>1 DEF GreetingAt
<1>6. CASE q.state = "wait_pop"
  <2>1. \/ c # OK[q.i + 1] /\ Becomes(q, r, "incompatible", 0)
        \/ c = OK[q.i + 1] /\ q.i = 0 /\ Becomes(q, r, "wait_pop", 1)
        \/ c = OK[q.i + 1] /\ q.i = 1 /\ Becomes(q, r, "user", 0)
    BY <1>1, <1>3, <1>6, FedWait
  <2>2. CASE c # OK[q.i + 1] /\ Becomes(q, r, "incompatible", 0)
    <3>1. r \in AllParsers /\ r.state = "incompatible"
      BY <2>2 DEF Becomes
    <3>2. x => ~(d[1] = OK[1] /\ d[2] = OK[2])
      BY <1>1, <1>6, <2>2
    <3> QED
      BY <1>4, <1>6, <3>1, <3>2 DEF GreetingAt
  <2>3. CASE c = OK[q.i + 1] /\ q.i = 0 /\ Becomes(q, r, "wait_pop", 1)
    <3>1. r \in AllParsers /\ r.state = "wait_pop" /\ r.i = 1
      BY <2>3 DEF Becomes
    <3>2. x => 1 = pos + 1 /\ d[1] = OK[1]
      BY <1>1, <1>6, <2>3
    <3> QED
      BY <1>4, <1>6, <3>1, <3>2 DEF GreetingAt
  <2>4. CASE c = OK[q.i + 1] /\ q.i = 1 /\ Becomes(q, r, "user", 0)
    <3>1. r \in AllParsers /\ r.state = "user" /\ r.i = 0
      BY <2>4 DEF Becomes
    <3> QED
      BY <1>4, <1>5, <1>6, <3>1
  <2> QED
    BY <2>1, <2>2, <2>3, <2>4
<1>7. CASE q.state = "user"
  <2>1. \/ TO_UPPER(c) # USER[q.i + 1] /\ Becomes(q, r, "user", 0)
        \/ TO_UPPER(c) = USER[q.i + 1] /\ q.i < 3 /\ Becomes(q, r, "user", q.i + 1)
        \/ TO_UPPER(c) = USER[q.i + 1] /\ q.i = 3 /\ Becomes(q, r, "user_copy", 0)
    BY <1>1, <1>3, <1>7, FedUser
  <2>2. CASE TO_UPPER(c) # USER[q.i + 1]
    <3>1. r \in AllParsers /\ r.state = "user" /\ r.i = 0
      BY <2>1, <2>2 DEF Becomes
    <3> QED
      BY <1>4, <1>5, <1>7, <3>1
  <2>3. CASE TO_UPPER(c) = USER[q.i + 1]
    <3>1. ~b
      <4>1. b => q.i + 1 = 1
        BY <1>1, <1>7
      <4> QED
        BY <2>3, <4>1
    <3>2. q.i \in 0 .. 3 /\ q.i <= pos /\ \A t \in 1 .. q.i : TO_UPPER(d[(pos - q.i) + t]) = USER[t]
      BY <1>1, <1>7
    <3>3. ASSUME NEW t \in 1 .. q.i + 1 PROVE TO_UPPER(d[((pos + 1) - (q.i + 1)) + t]) = USER[t]
      <4>1. ((pos + 1) - (q.i + 1)) + t = (pos - q.i) + t
        BY <3>2
      <4>2. CASE t = q.i + 1
        <5>1. (pos - q.i) + t = pos + 1
          BY <3>2, <4>2
        <5> QED
          BY <2>3, <4>1, <4>2, <5>1
      <4>3. CASE t # q.i + 1
        <5>1. t \in 1 .. q.i
          BY <3>2, <4>3
        <5> QED
          BY <3>2, <4>1, <5>1
      <4> QED
        BY <4>2, <4>3
    <3>4. q.i # 3
      <4>1. SUFFICES ASSUME q.i = 3 PROVE FALSE
        OBVIOUS
      <4>2. (pos + 1) - (q.i + 1) = pos - 3 /\ q.i + 1 = 4 /\ pos - 3 \in 0 .. Len(d) - 4
        BY <3>2, <4>1
      <4>3. \A t \in 1 .. 4 : TO_UPPER(d[(pos - 3) + t]) = USER[t]
        BY <3>3, <4>2
      <4> QED
        BY <3>1, <4>2, <4>3 DEF Spells
    <3>5. r \in AllParsers /\ r.state = "user" /\ r.i = q.i + 1
      BY <2>1, <2>3, <3>4 DEF Becomes
    <3>6. r.i \in 0 .. 3 /\ r.i <= pos + 1
      BY <3>2, <3>4, <3>5
    <3>7. r \in GreetingAt(d, pos + 1, x, b)
      BY <3>1, <3>3, <3>5, <3>6 DEF GreetingAt
    <3> QED
      BY <1>4, <1>7, <3>7
  <2> QED
    BY <2>2, <2>3
<1> QED
  BY <1>1, <1>2, <1>6, <1>7

LEMMA GreetingConsumed ==
  ASSUME NEW d \in Seq(Nat), NEW pos \in Nat, NEW n \in Nat, pos + n <= Len(d), NEW x \in BOOLEAN, NEW b \in BOOLEAN,
         b => \A m \in pos + 1 .. Len(d) : TO_UPPER(d[m]) # USER[1],
         ~b => \A i \in 0 .. Len(d) - 4 : ~Spells(d, i),
         NEW p \in GreetingAt(d, pos, x, b)
  PROVE  disector_consume(p, SubSeq(d, pos + 1, pos + n)) \in GreetingAt(d, pos + n, x, b)
<1> DEFINE bytes == SubSeq(d, pos + 1, pos + n)
           G == [m \in 0 .. n |-> GreetingAt(d, pos + m, x, b)]
<1>0. Len(d) \in Nat
  OBVIOUS
<1>1. Len(bytes) = n /\ \A m \in 1 .. n : bytes[m] = d[pos + m]
  BY <1>0, Piece
<1>2. p \in G[0]
  <2>1. pos + 0 = pos /\ 0 \in 0 .. n
    OBVIOUS
  <2> QED
    BY <2>1
<1>3. ASSUME NEW k \in 1 .. n, NEW q \in G[k - 1] PROVE Stepped(q, bytes[k]) \in G[k]
  <2> DEFINE e == pos + (k - 1)
  <2>1. /\ k - 1 \in 0 .. n /\ k \in 0 .. n /\ e \in Nat /\ e < Len(d) /\ e + 1 = pos + k
        /\ e + 1 \in pos + 1 .. Len(d)
    BY <1>0
  <2>2. q \in GreetingAt(d, e, x, b)
    BY <2>1
  <2>3. b => TO_UPPER(d[e + 1]) # USER[1]
    BY <2>1
  <2> HIDE DEF e
  <2>4. Stepped(q, d[e + 1]) \in GreetingAt(d, e + 1, x, b)
    BY <2>1, <2>2, <2>3, GreetingStep
  <2> QED
    BY <1>1, <2>1, <2>4
<1> HIDE DEF G, bytes
<1>4. disector_consume(p, bytes) \in G[n]
  <2>1. Len(bytes) \in Nat
    BY <1>1
  <2> QED
    BY <1>1, <1>2, <1>3, <2>1, ConsumeKeeps
<1> QED
  BY <1>4 DEF G, bytes

(* The reply that p waits for, p.i bytes of it seen, starts like OK.       *)
Positive(d, pos, i) == (i = 1 \/ d[pos + 1] = OK[1]) /\ d[(pos - i) + 2] = OK[2]

(* Parsers that p may become with m bytes after the first pos.             *)
ReplyAt(d, pos, p, m) ==
  {q \in AllParsers :
     /\ q.user = p.user /\ q.pass = p.pass
     /\ \/ q.state = "response" /\ q.i = p.i + m /\ q.i \in {0, 1} /\ (m # 0 => d[pos + m] = OK[1])
        \/ q.state = "user" /\ q.i = 0 /\ ~Positive(d, pos, p.i)
        \/ q.state = "done" /\ Positive(d, pos, p.i)}

LEMMA ReplyStep ==
  ASSUME NEW d \in Seq(Nat), NEW pos \in Nat, NEW m \in Nat, TO_UPPER(d[(pos + m) + 1]) # USER[1],
         NEW p, p.i \in {0, 1}, p.i <= pos, NEW q \in ReplyAt(d, pos, p, m)
  PROVE  Stepped(q, d[(pos + m) + 1]) \in ReplyAt(d, pos, p, m + 1)
<1> DEFINE c == d[(pos + m) + 1]
<1>1. /\ q \in AllParsers /\ q.user = p.user /\ q.pass = p.pass
      /\ \/ q.state = "response" /\ q.i = p.i + m /\ q.i \in {0, 1} /\ (m # 0 => d[pos + m] = OK[1])
         \/ q.state = "user" /\ q.i = 0 /\ ~Positive(d, pos, p.i)
         \/ q.state = "done" /\ Positive(d, pos, p.i)
  BY DEF ReplyAt
<1>2. Stepped(q, c) = Fed(q, c)
  BY <1>1 DEF Stepped
<1>3. PICK r : r = Fed(q, c)
  OBVIOUS
<1>4. CASE q.state = "response"
  <2>0. q.i = p.i + m /\ q.i \in {0, 1}
    BY <1>1, <1>4
  <2>1. \/ c # OK[q.i + 1] /\ Becomes(q, r, "user", 0)
        \/ c = OK[q.i + 1] /\ q.i = 0 /\ Becomes(q, r, "response", 1)
        \/ c = OK[q.i + 1] /\ q.i = 1 /\ Becomes(q, r, "done", 0)
    BY <1>1, <1>3, <1>4, <2>0, FedResponse
  <2>2. CASE q.i = 0
    <3>1. p.i = 0 /\ m = 0 /\ q.i + 1 = 1 /\ (pos + m) + 1 = pos + 1 /\ m + 1 = 1 /\ pos + (m + 1) = pos + 1
      BY <2>0, <2>2
    <3>2. CASE c # OK[1]
      <4>1. r \in AllParsers /\ r.state = "user" /\ r.i = 0 /\ r.user = p.user /\ r.pass = p.pass
        BY <1>1, <2>1, <2>2, <3>1, <3>2 DEF Becomes
      <4>2. ~Positive(d, pos, p.i)
        BY <3>1, <3>2 DEF Positive
      <4> QED
        BY <1>2, <1>3, <4>1, <4>2 DEF ReplyAt
    <3>3. CASE c = OK[1]
      <4>1. r \in AllParsers /\ r.state = "response" /\ r.i = 1 /\ r.user = p.user /\ r.pass = p.pass
        BY <1>1, <2>1, <2>2, <3>1, <3>3 DEF Becomes
      <4>2. d[pos + (m + 1)] = OK[1] /\ r.i = p.i + (m + 1)
        BY <3>1, <3>3, <4>1
      <4> QED
        BY <1>2, <1>3, <4>1, <4>2 DEF ReplyAt
    <3> QED
      BY <3>2, <3>3
  <2>3. CASE q.i = 1
    <3>1. /\ (pos + m) + 1 = (pos - p.i) + 2 /\ q.i + 1 = 2
          /\ p.i = 1 \/ (p.i = 0 /\ m = 1 /\ d[pos + 1] = OK[1])
      BY <1>1, <1>4, <2>0, <2>3
    <3>2. c = OK[2] <=> Positive(d, pos, p.i)
      BY <3>1 DEF Positive
    <3>3. /\ r \in AllParsers /\ r.i = 0 /\ r.user = p.user /\ r.pass = p.pass
          /\ r.state = IF c = OK[2] THEN "done" ELSE "user"
      BY <1>1, <2>1, <2>3, <3>1 DEF Becomes
    <3> QED
      BY <1>2, <1>3, <3>2, <3>3 DEF ReplyAt
  <2> QED
    BY <2>0, <2>2, <2>3
<1>5. CASE q.state = "user"
  <2>1. q.i = 0 /\ q.i \in 0 .. 3 /\ q.i + 1 = 1
    BY <1>1, <1>5
  <2>2. Becomes(q, r, "user", 0)
    BY <1>1, <1>3, <1>5, <2>1, FedUser
  <2>3. r \in AllParsers /\ r.state = "user" /\ r.i = 0 /\ r.user = p.user /\ r.pass = p.pass
    BY <1>1, <2>2 DEF Becomes
  <2> QED
    BY <1>1, <1>2, <1>3, <1>5, <2>3 DEF ReplyAt
<1>6. CASE q.state = "done"
  <2>1. r = q
    BY <1>1, <1>3, <1>6, FedDone
  <2> QED
    BY <1>1, <1>2, <1>3, <1>6, <2>1 DEF ReplyAt
<1> QED
  BY <1>1, <1>4, <1>5, <1>6

LEMMA ReplyConsumed ==
  ASSUME NEW d \in Seq(Nat), NEW pos \in Nat, NEW n \in Nat, pos + n <= Len(d),
         \A m \in pos + 1 .. Len(d) : TO_UPPER(d[m]) # USER[1],
         NEW p \in AllParsers, p.state = "response", p.i \in {0, 1}, p.i <= pos
  PROVE  disector_consume(p, SubSeq(d, pos + 1, pos + n)) \in ReplyAt(d, pos, p, n)
<1> DEFINE bytes == SubSeq(d, pos + 1, pos + n)
           G == [m \in 0 .. n |-> ReplyAt(d, pos, p, m)]
<1>0. Len(d) \in Nat
  OBVIOUS
<1>1. Len(bytes) = n /\ \A m \in 1 .. n : bytes[m] = d[pos + m]
  BY <1>0, Piece
<1>2. p \in G[0]
  <2>1. p.i + 0 = p.i /\ 0 \in 0 .. n
    OBVIOUS
  <2> QED
    BY <2>1 DEF ReplyAt
<1>3. ASSUME NEW k \in 1 .. n, NEW q \in G[k - 1] PROVE Stepped(q, bytes[k]) \in G[k]
  <2> DEFINE m == k - 1
  <2>1. m \in Nat /\ m \in 0 .. n /\ k \in 0 .. n /\ (pos + m) + 1 = pos + k /\ m + 1 = k /\ pos + k \in pos + 1 .. Len(d)
    BY <1>0
  <2>2. q \in ReplyAt(d, pos, p, m) /\ TO_UPPER(d[(pos + m) + 1]) # USER[1]
    BY <2>1
  <2> HIDE DEF m
  <2>3. Stepped(q, d[(pos + m) + 1]) \in ReplyAt(d, pos, p, m + 1)
    BY <2>1, <2>2, ReplyStep
  <2> QED
    BY <1>1, <2>1, <2>3
<1> HIDE DEF G, bytes
<1>4. disector_consume(p, bytes) \in G[n]
  <2>1. Len(bytes) \in Nat
    BY <1>1
  <2> QED
    BY <1>1, <1>2, <1>3, <2>1, ConsumeKeeps
<1> QED
  BY <1>4 DEF G, bytes

-----------------------------------------------------------------------------
(* A line more, and fewer certainties.                                     *)

OneMore(ls, line, ls2) ==
  /\ ls2 \in Seq(Lines) /\ Len(ls2) = Len(ls) + 1 /\ ls2[Len(ls) + 1] = line
  /\ \A k \in 1 .. Len(ls) : ls2[k] = ls[k]
  /\ \A k \in 0 .. Len(ls) : Ends(ls2, k) = Ends(ls, k)
  /\ Ends(ls2, Len(ls) + 1) = Ends(ls, Len(ls)) + Len(LineBytes(line))

LEMMA LineMore ==
  ASSUME NEW ls \in Seq(Lines), NEW line \in Lines, NEW ls2, ls2 = Append(ls, line)
  PROVE  OneMore(ls, line, ls2)
<1>1. /\ ls2 \in Seq(Lines) /\ Len(ls2) = Len(ls) + 1 /\ ls2[Len(ls) + 1] = line
      /\ \A k \in 1 .. Len(ls) : ls2[k] = ls[k]
  OBVIOUS
<1>2. ASSUME NEW k \in 0 .. Len(ls) PROVE Ends(ls2, k) = Ends(ls, k)
  <2>1. k \in Nat /\ \A j \in 1 .. k : ls2[j] = ls[j]
    BY <1>1
  <2> QED
    BY <2>1, EndsSame
<1>3. Len(ls) \in Nat /\ Len(ls) \in 0 .. Len(ls)
  OBVIOUS
<1>4. Ends(ls2, Len(ls) + 1) = Ends(ls2, Len(ls)) + Len(LineBytes(ls2[Len(ls) + 1]))
  BY <1>3, EndsStep
<1>5. Ends(ls2, Len(ls)) = Ends(ls, Len(ls))
  BY <1>2, <1>3
<1> QED
  BY ONLY <1>1, <1>2, <1>4, <1>5 DEF OneMore

LEMMA LaidMore ==
  ASSUME NEW ls \in Seq(Lines), NEW line \in Lines, NEW ls2, ls2 = Append(ls, line),
         NEW u, Laid(ls, u), NEW u2, u2 = u \o LineBytes(line)
  PROVE  Laid(ls2, u2) /\ Len(u2) = Len(u) + Len(LineBytes(line)) /\ Len(LineBytes(line)) \in Nat
<1> DEFINE B == LineBytes(line)
           L == Len(ls)
<1>1. u \in Seq(Nat) /\ Len(u) = Ends(ls, L) /\ B \in Seq(Nat) /\ Len(B) \in Nat /\ L \in Nat /\ Len(u) \in Nat
  BY LineFacts DEF Laid
<1>2. /\ u2 \in Seq(Nat) /\ Len(u2) = Len(u) + Len(B)
      /\ \A k \in 1 .. Len(u) : u2[k] = u[k]
      /\ \A k \in 1 .. Len(B) : u2[Len(u) + k] = B[k]
  BY <1>1, JoinedUp
<1>3. /\ ls2 \in Seq(Lines) /\ Len(ls2) = L + 1 /\ ls2[L + 1] = line
      /\ \A k \in 1 .. L : ls2[k] = ls[k]
      /\ \A k \in 0 .. L : Ends(ls2, k) = Ends(ls, k)
      /\ Ends(ls2, L + 1) = Ends(ls, L) + Len(B)
  <2>1. OneMore(ls, line, ls2)
    BY LineMore
  <2> QED
    BY ONLY <2>1 DEF OneMore
<1>4. ASSUME NEW k \in 1 .. L + 1, NEW j \in 1 .. Len(LineBytes(ls2[k]))
      PROVE  u2[Ends(ls2, k - 1) + j] = LineBytes(ls2[k])[j]
  <2>1. CASE k = L + 1
    <3>1. k - 1 = L /\ L \in 0 .. L
      BY <1>1, <2>1
    <3>2. Ends(ls2, k - 1) = Len(u) /\ ls2[k] = line
      BY <1>1, <1>3, <2>1, <3>1
    <3> QED
      BY <1>2, <1>4, <3>2
  <2>2. CASE k # L + 1
    <3>1. k \in 1 .. L /\ k - 1 \in 0 .. L
      BY <1>1, <2>2
    <3>2. Ends(ls2, k - 1) = Ends(ls, k - 1) /\ ls2[k] = ls[k]
      BY <1>3, <3>1
    <3>3. u[Ends(ls, k - 1) + j] = LineBytes(ls[k])[j]
      BY <1>4, <3>1, <3>2 DEF Laid
    <3>4. Ends(ls, k - 1) + j \in 1 .. Len(u)
      <4>1. Ends(ls, k) = Ends(ls, k - 1) + Len(LineBytes(ls[k])) /\ Len(LineBytes(ls[k])) \in Nat
        BY <3>1, EndsNext
      <4>2. Ends(ls, k - 1) \in Nat /\ Ends(ls, k) \in Nat
        BY <1>1, <3>1, EndsNat
      <4>3. Ends(ls, k) <= Ends(ls, L)
        BY <1>1, <3>1, EndsMono
      <4>4. j \in 1 .. Len(LineBytes(ls[k]))
        BY <1>4, <3>2
      <4> DEFINE e == Ends(ls, k - 1)
                 f == Ends(ls, k)
                 n == Len(LineBytes(ls[k]))
                 M == Len(u)
      <4>5. j \in 1 .. n /\ f = e + n /\ n \in Nat /\ e \in Nat /\ f <= M /\ M \in Nat
        BY <1>1, <4>1, <4>2, <4>3, <4>4
      <4> HIDE DEF e, f, n, M
      <4>6. e + j \in 1 .. M
        BY ONLY <4>5
      <4> QED
        BY <4>6 DEF e, M
    <3> QED
      BY <1>2, <3>2, <3>3, <3>4
  <2> QED
    BY <2>1, <2>2
<1> HIDE DEF B
<1>5. Laid(ls2, u2)
  BY <1>1, <1>2, <1>3, <1>4 DEF Laid
<1> QED
  BY <1>1, <1>2, <1>5 DEF B

LEMMA PlaceMore ==
  ASSUME NEW ls \in Seq(Lines), NEW line \in Lines, NEW ls2, ls2 = Append(ls, line),
         NEW pos, NEW k, NEW j, Place(ls, pos, k, j)
  PROVE  k \in 1 .. Len(ls2) + 1 /\ j \in Nat /\ Place(ls2, pos, k, j)
<1> DEFINE L == Len(ls)
<1>1. /\ k \in 1 .. L + 1 /\ j \in Nat /\ pos = Ends(ls, k - 1) + j
      /\ k <= L => j < Len(LineBytes(ls[k]))
      /\ k = L + 1 => j = 0
  BY DEF Place
<1>a. L \in Nat
  OBVIOUS
<1>b. /\ Len(ls2) = L + 1 /\ ls2[L + 1] = line
      /\ \A i \in 1 .. L : ls2[i] = ls[i]
      /\ \A i \in 0 .. L : Ends(ls2, i) = Ends(ls, i)
  <2>1. OneMore(ls, line, ls2)
    BY LineMore
  <2> QED
    BY ONLY <2>1 DEF OneMore
<1>2. /\ Len(ls2) = L + 1 /\ ls2[L + 1] = line /\ L \in Nat
      /\ \A i \in 1 .. L : ls2[i] = ls[i]
      /\ \A i \in 0 .. L : Ends(ls2, i) = Ends(ls, i)
  BY <1>a, <1>b
<1>3. k - 1 \in 0 .. L /\ k \in 1 .. Len(ls2) + 1 /\ k <= Len(ls2) /\ k # Len(ls2) + 1
  BY <1>1, <1>2
<1>4. pos = Ends(ls2, k - 1) + j
  BY <1>1, <1>2, <1>3
<1>5. j < Len(LineBytes(ls2[k]))
  <2>1. CASE k = L + 1
    <3>1. Len(LineBytes(line)) \in Nat /\ Len(LineBytes(line)) >= 6
      BY LineFacts
    <3> QED
      BY <1>1, <1>2, <2>1, <3>1
  <2>2. CASE k # L + 1
    <3>1. k \in 1 .. L
      BY <1>1, <1>2, <2>2
    <3> QED
      BY <1>1, <1>2, <3>1
  <2> QED
    BY <2>1, <2>2
<1> QED
  BY <1>1, <1>3, <1>4, <1>5 DEF Place

LEMMA Weaken ==
  ASSUME NEW ls, NEW p, NEW k \in Nat, NEW j, NEW x \in BOOLEAN, NEW x2 \in BOOLEAN, x2 => x,
         NEW s \in Nat, NEW s2 \in Nat, s <= s2, ParserAt(ls, p, k, j, x, s)
  PROVE  ParserAt(ls, p, k, j, x2, s2)
<1>1. s >= k - 1 => s2 >= k - 1
  OBVIOUS
<1>2. AtUser(ls, p, k, j, x, s) => AtUser(ls, p, k, j, x2, s2)
  BY <1>1 DEF AtUser
<1>3. AtUserCopy(ls, p, k, j, x) => AtUserCopy(ls, p, k, j, x2)
  BY DEF AtUserCopy
<1>4. AtPassword(ls, p, k, j, x) => AtPassword(ls, p, k, j, x2)
  BY DEF AtPassword
<1> QED
  BY <1>2, <1>3, <1>4 DEF ParserAt

(* A parser that waits for no reply is not disturbed by another line.      *)
LEMMA ParserMore ==
  ASSUME NEW ls \in Seq(Lines), NEW line \in Lines, NEW ls2, ls2 = Append(ls, line), PassAfterUser(ls2),
         NEW k, NEW j \in Nat, k \in 1 .. Len(ls) + 1, k = Len(ls) + 1 => j = 0, NEW x \in BOOLEAN, NEW s,
         NEW p, p.state # "response", ParserAt(ls, p, k, j, x, s)
  PROVE  ParserAt(ls2, p, k, j, x, s)
<1> DEFINE L == Len(ls)
<1>1. /\ Len(ls2) = L + 1 /\ ls2[L + 1] = line /\ L \in Nat
      /\ \A i \in 1 .. L : ls2[i] = ls[i]
  BY LineMore DEF OneMore
<1>2. (k > 1 => ls2[k - 1] = ls[k - 1]) /\ (k <= L => ls2[k] = ls[k]) /\ k <= Len(ls2)
      /\ (j # 0 => ls2[k] = ls[k])
  <2>1. (k > 1 => k - 1 \in 1 .. L) /\ (k <= L => k \in 1 .. L) /\ (j # 0 => k \in 1 .. L) /\ k <= L + 1
    BY <1>1
  <2> QED
    BY <1>1, <2>1
<1>3. ASSUME AtUser(ls, p, k, j, x, s) PROVE AtUser(ls2, p, k, j, x, s)
  <2>1. ASSUME x, k = L + 1 PROVE j = 0 /\ p.i = 0 /\ ls2[k].cmd # "PASS"
    <3>1. j = 0 /\ p.i = 0 /\ (k > 1 => ls[k - 1].cmd # "USER")
      BY <1>3, <2>1 DEF AtUser
    <3>2. k \in 1 .. Len(ls2)
      BY <1>1, <2>1
    <3>3. ls2[k].cmd = "PASS" => k > 1 /\ ls2[k - 1].cmd = "USER"
      BY <3>2 DEF PassAfterUser
    <3> QED
      BY <1>2, <3>1, <3>3
  <2>2. ASSUME x PROVE ls2[k].cmd # "PASS" /\ (ls2[k].cmd = "USER" => p.i = j)
    <3>1. CASE k = L + 1
      BY <2>1, <2>2, <3>1
    <3>2. CASE k # L + 1
      <4>1. k <= L
        BY <1>1, <3>2
      <4> QED
        BY <1>2, <1>3, <2>2, <4>1 DEF AtUser
    <3> QED
      BY <3>1, <3>2
  <2>3. /\ p.i \in 0 .. 3
        /\ j # 0 => p.i <= j /\ \A m \in 1 .. p.i : TO_UPPER(LineBytes(ls2[k])[(j - p.i) + m]) = USER[m]
    BY <1>2, <1>3 DEF AtUser
  <2>4. x => /\ j = 0 => p.i = 0 /\ (k > 1 => ls2[k - 1].cmd # "USER")
             /\ j = 0 /\ k > 1 /\ ls2[k - 1].cmd = "PASS" => s >= k - 1
    BY <1>2, <1>3 DEF AtUser
  <2> QED
    BY <2>2, <2>3, <2>4 DEF AtUser
<1>4. AtUserCopy(ls, p, k, j, x) => AtUserCopy(ls2, p, k, j, x)
  BY <1>2 DEF AtUserCopy
<1>5. AtPassword(ls, p, k, j, x) => AtPassword(ls2, p, k, j, x)
  BY <1>2 DEF AtPassword
<1>6. AtPasswordCopy(ls, p, k, j) => AtPasswordCopy(ls2, p, k, j)
  BY <1>2 DEF AtPasswordCopy
<1> QED
  BY <1>3, <1>4, <1>5, <1>6 DEF ParserAt

-----------------------------------------------------------------------------
(* The inductive invariant.                                                *)

(* No byte went unseen, and the greeting was not taken for a command.      *)
Exact == gap = "none" /\ PlainGreeting

(* The lines whose reply the parser may have seen.                         *)
Served == IF eager THEN Len(lines) ELSE replied

ParserOK ==
  \E k \in 1 .. Len(lines) + 1, j \in Nat : Place(lines, upSent, k, j) /\ ParserAt(lines, dp, k, j, Exact, Served)

(* The lines of the client and their bytes.                                *)
LinesOK == lines \in Seq(Lines) /\ PassAfterUser(lines) /\ Laid(lines, up)

(* Who has sent, and read, what.                                           *)
TurnOK ==
  /\ replied \in Nat /\ replied <= Len(lines) /\ replied + 2 >= Len(lines)
  /\ replied + 2 = Len(lines) => eager /\ lines[Len(lines)].cmd = "PASS"
  /\ replied # Len(lines) /\ ~eager => downSent = Len(down)
  /\ upSent \in Nat /\ upSent <= Len(up) /\ upSent >= Ends(lines, replied)
  /\ downSent \in Nat /\ downSent <= Len(down)

(* What was accepted is what the last two lines gave.                      *)
AcceptedOK ==
  \/ accepted = <<>>
  \/ /\ Len(lines) > 1 /\ replied = Len(lines) /\ lines[Len(lines)].cmd = "PASS"
     /\ accepted = <<<<lines[Len(lines) - 1].arg, lines[Len(lines)].arg>>>>

(* What the origin sent: after the greeting, nothing that starts USER.     *)
DownOK ==
  /\ down \in Seq(Nat) /\ Len(down) >= 3 /\ down[Len(down)] = LF
  /\ lines = <<>> => down \in Greetings
  /\ lines # <<>> => downSent >= 3 /\ \A m \in downSent + 1 .. Len(down) : TO_UPPER(down[m]) # USER[1]

(* The parser before the greeting, or after another one.                   *)
GreetingOK ==
  /\ dp.state \in {"wait_pop", "incompatible"} => logged = <<>>
  /\ dp.state = "wait_pop" => dp.i \in {0, 1} /\ (Exact => dp.i = downSent /\ (dp.i = 1 => down[1] = OK[1]))
  /\ dp.state = "incompatible" /\ Exact => ~Pop3

(* The reply R is what the client waits for, and dp.i bytes of it were     *)
(* seen.                                                                   *)
Awaited(R) ==
  /\ Len(down) = (downSent - dp.i) + Len(R) + 2
  /\ \A m \in 1 .. Len(R) : down[(downSent - dp.i) + m] = R[m]
  /\ R = OK <=> accepted # <<>> /\ Pop3
  /\ dp.i = 1 => R = OK

ResponseOK ==
  dp.state = "response" =>
    /\ downSent = Len(down) => replied < Len(lines)
    /\ ~eager => /\ logged = <<>>
                 /\ replied # Len(lines) => dp.i = 0
                 /\ replied = Len(lines) => \E R \in {OK, ERR, FTP} : Awaited(R)

LogOK ==
  /\ eager => logged \in Seq(Given)
  /\ ~eager => \/ logged = <<>>
               \/ Pop3 /\ accepted # <<>> /\ logged = <<AsLogged(accepted[1])>>
  /\ Exact /\ ~eager /\ accepted # <<>> /\ Pop3 /\ logged = <<>> => dp.state = "response"

(* The traffic, and what the dissector makes of it, as long as it follows. *)
TrafficInv ==
  /\ eager \in BOOLEAN /\ gap \in {"none", "idle", "mid"}
  /\ LinesOK /\ TurnOK /\ AcceptedOK /\ DownOK

SeenInv == ParserOK /\ GreetingOK /\ ResponseOK /\ LogOK

DissectorInv == TrafficInv /\ (Followed => SeenInv)

-----------------------------------------------------------------------------
(* The traffic.                                                            *)

LEMMA DissectTypes ==
  ASSUME gap \in {"none", "idle", "mid"}, NEW bytes, NEW toOrigin, Dissect(bytes, toOrigin)
  PROVE  gap' \in {"none", "idle", "mid"} /\ (gap = "mid" => gap' = "mid") /\ (gap' = "none" => gap = "none")
<1>1. gap' = gap \/ gap' = Gap
  BY DEF Dissect
<1>2. Gap \in {"none", "idle", "mid"} /\ (gap = "mid" => Gap = "mid") /\ (Gap = "none" => gap = "none")
  BY DEF Gap
<1> QED
  BY <1>1, <1>2

LEMMA TrafficInit ==
  ASSUME Init
  PROVE  TrafficInv
<1>1. /\ up = <<>> /\ upSent = 0 /\ down \in Greetings /\ downSent = 0 /\ lines = <<>> /\ replied = 0
      /\ accepted = <<>> /\ gap = "none" /\ eager \in BOOLEAN
  BY DEF Init
<1>2. Ends(lines, 0) = 0
  BY EndsStep
<1>3. Len(lines) = 0 /\ lines \in Seq(Lines) /\ up \in Seq(Nat) /\ Len(up) = 0 /\ \A k \in 1 .. Len(lines) : FALSE
  BY <1>1
<1>4. LinesOK
  BY <1>2, <1>3 DEF LinesOK, PassAfterUser, Laid
<1>5. down \in Seq(Nat) /\ Len(down) >= 3 /\ down[Len(down)] = LF
  BY <1>1, DissectorAssumption DEF DissectorAssumption
<1>6. TurnOK
  <2>1. 0 <= Len(down)
    BY <1>5
  <2> QED
    BY <1>1, <1>2, <1>3, <2>1 DEF TurnOK
<1>7. DownOK
  BY <1>1, <1>5 DEF DownOK
<1> QED
  BY <1>1, <1>4, <1>6, <1>7 DEF TrafficInv, AcceptedOK

LEMMA TrafficUp ==
  ASSUME TrafficInv, NEW n, copy_w_origin(n)
  PROVE  TrafficInv'
<1>1. /\ n \in 1 .. Len(up) - upSent /\ upSent' = upSent + n
      /\ UNCHANGED <<eager, lines, replied, accepted, up, down, downSent>>
  BY DEF copy_w_origin, envVars
<1>2. gap' \in {"none", "idle", "mid"}
  BY DissectTypes DEF TrafficInv, copy_w_origin
<1>3. lines \in Seq(Lines) /\ Laid(lines, up) /\ TurnOK
  BY DEF TrafficInv, LinesOK
<1>4. /\ Len(up) \in Nat /\ upSent \in Nat /\ upSent <= Len(up) /\ upSent >= Ends(lines, replied)
      /\ replied \in 0 .. Len(lines)
  <2>1. up \in Seq(Nat) /\ Len(lines) \in Nat
    BY <1>3 DEF Laid
  <2> QED
    BY <1>3, <2>1 DEF TurnOK
<1>5. Ends(lines, replied) \in Nat
  BY <1>3, <1>4, EndsNat
<1>6. upSent' \in Nat /\ upSent' <= Len(up) /\ upSent' >= Ends(lines, replied)
  BY <1>1, <1>4, <1>5
<1>7. TurnOK'
  BY <1>1, <1>3, <1>6 DEF TurnOK
<1>8. LinesOK' /\ AcceptedOK' /\ DownOK'
  BY <1>1 DEF TrafficInv, LinesOK, AcceptedOK, DownOK
<1> QED
  BY <1>1, <1>2, <1>7, <1>8 DEF TrafficInv

LEMMA TrafficDown ==
  ASSUME TrafficInv, NEW n, copy_w_client(n)
  PROVE  TrafficInv'
<1>1. /\ n \in 1 .. Len(down) - downSent /\ downSent' = downSent + n
      /\ UNCHANGED <<eager, lines, replied, accepted, up, upSent, down>>
  BY DEF copy_w_client, envVars
<1>2. gap' \in {"none", "idle", "mid"}
  BY DissectTypes DEF TrafficInv, copy_w_client
<1>3. TurnOK /\ DownOK
  BY DEF TrafficInv
<1>4. Len(down) \in Nat /\ downSent \in Nat /\ downSent <= Len(down)
  BY <1>3 DEF TurnOK, DownOK
<1>5. downSent' \in Nat /\ downSent' <= Len(down) /\ downSent # Len(down) /\ downSent' >= downSent
  BY <1>1, <1>4
<1>6. TurnOK'
  BY <1>1, <1>3, <1>5 DEF TurnOK
<1>7. ASSUME lines # <<>> PROVE downSent' >= 3 /\ \A m \in downSent' + 1 .. Len(down) : TO_UPPER(down[m]) # USER[1]
  <2>1. downSent >= 3 /\ \A m \in downSent + 1 .. Len(down) : TO_UPPER(down[m]) # USER[1]
    BY <1>3, <1>7 DEF DownOK
  <2>2. PICK e \in Nat : e = downSent'
    BY <1>5
  <2>3. e >= downSent /\ e >= 3
    BY <1>4, <1>5, <2>1, <2>2
  <2>4. ASSUME NEW m \in e + 1 .. Len(down) PROVE TO_UPPER(down[m]) # USER[1]
    <3>1. m \in downSent + 1 .. Len(down)
      BY <1>4, <2>3
    <3> QED
      BY <2>1, <3>1
  <2> QED
    BY <2>2, <2>3, <2>4
<1>8. DownOK'
  BY <1>1, <1>3, <1>7 DEF DownOK
<1>9. LinesOK' /\ AcceptedOK'
  BY <1>1 DEF TrafficInv, LinesOK, AcceptedOK
<1> QED
  BY <1>1, <1>2, <1>6, <1>8, <1>9 DEF TrafficInv

LEMMA TrafficToggle ==
  ASSUME TrafficInv, socksv5_toggle_disector
  PROVE  TrafficInv'
<1>1. UNCHANGED <<eager, lines, replied, accepted, up, upSent, down, downSent, gap>>
  BY DEF socksv5_toggle_disector, envVars
<1> QED
  BY <1>1 DEF TrafficInv, LinesOK, TurnOK, AcceptedOK, DownOK

(* What a line changes.                                                    *)
LEMMA ClientAdds ==
  ASSUME TrafficInv, NEW line \in Lines, Pop3Client(line)
  PROVE  /\ LinesOK' /\ OneMore(lines, line, lines') /\ Len(up') >= Len(up) /\ Len(lines) \in Nat
         /\ line.cmd = "PASS" => Len(lines) >= 1 /\ lines[Len(lines)].cmd = "USER"
         /\ accepted = <<>> /\ Len(up) \in Nat /\ Len(up') \in Nat /\ lines' = Append(lines, line)
<1>1. /\ lines' = Append(lines, line) /\ up' = up \o LineBytes(line) /\ MayFollow(line)
      /\ lines \in Seq(Lines) /\ PassAfterUser(lines) /\ Laid(lines, up)
  BY DEF Pop3Client, TrafficInv, LinesOK
<1>2. OneMore(lines, line, lines')
  BY <1>1, LineMore
<1>3. Laid(lines', up') /\ Len(up') = Len(up) + Len(LineBytes(line)) /\ Len(LineBytes(line)) \in Nat
  BY <1>1, LaidMore
<1>4. Len(up) \in Nat /\ Len(lines) \in Nat
  BY <1>1 DEF Laid
<1>5. accepted = <<>> /\ (line.cmd = "PASS" => lines # <<>> /\ Last(lines).cmd = "USER")
  BY <1>1 DEF MayFollow
<1>6. line.cmd = "PASS" => Len(lines) >= 1 /\ lines[Len(lines)].cmd = "USER"
  BY <1>1, <1>4, <1>5 DEF Last
<1>7. PassAfterUser(lines')
  <2> DEFINE L == Len(lines)
             l2 == lines'
  <2>1. /\ Len(l2) = L + 1 /\ l2[L + 1] = line /\ L \in Nat
        /\ \A k \in 1 .. L : l2[k] = lines[k]
    BY <1>2, <1>4 DEF OneMore
  <2> HIDE DEF l2
  <2>2. ASSUME NEW k \in 1 .. L + 1, l2[k].cmd = "PASS" PROVE k > 1 /\ l2[k - 1].cmd = "USER"
    <3>1. CASE k = L + 1
      <4>1. line.cmd = "PASS" /\ k - 1 = L /\ L >= 1 /\ lines[L].cmd = "USER" /\ L \in 1 .. L
        BY <1>6, <2>1, <2>2, <3>1
      <4> QED
        BY <2>1, <3>1, <4>1
    <3>2. CASE k # L + 1
      <4>1. k \in 1 .. L /\ lines[k].cmd = "PASS"
        BY <2>1, <2>2, <3>2
      <4>2. k > 1 /\ lines[k - 1].cmd = "USER" /\ k - 1 \in 1 .. L
        BY <1>1, <4>1 DEF PassAfterUser
      <4> QED
        BY <2>1, <4>2
    <3> QED
      BY <3>1, <3>2
  <2>3. PassAfterUser(l2)
    BY <2>1, <2>2 DEF PassAfterUser
  <2> QED
    BY <2>3 DEF l2
<1>8. LinesOK'
  BY <1>2, <1>3, <1>7 DEF LinesOK, OneMore
<1> QED
  BY <1>1, <1>2, <1>3, <1>4, <1>5, <1>6, <1>8

LEMMA TrafficClient ==
  ASSUME TrafficInv, NEW line \in Lines, Pop3Client(line)
  PROVE  TrafficInv'
<1> DEFINE L == Len(lines)
<1>1. /\ AllReplied \/ (eager /\ line.cmd = "PASS")
      /\ UNCHANGED <<eager, replied, accepted, upSent, down, downSent, gap>>
  BY DEF Pop3Client
<1>2. /\ LinesOK' /\ OneMore(lines, line, lines') /\ Len(up') >= Len(up) /\ L \in Nat
      /\ line.cmd = "PASS" => L >= 1 /\ lines[L].cmd = "USER"
      /\ accepted = <<>> /\ Len(up) \in Nat /\ Len(up') \in Nat
  BY ClientAdds
<1>3. /\ TurnOK /\ DownOK
  BY DEF TrafficInv
<1>4. /\ Len(lines') = L + 1 /\ lines'[L + 1] = line
      /\ \A k \in 0 .. L : Ends(lines', k) = Ends(lines, k)
  BY <1>2 DEF OneMore
<1>5. /\ replied \in Nat /\ replied <= L /\ replied + 2 >= L /\ replied \in 0 .. L
      /\ replied + 2 = L => lines[L].cmd = "PASS"
      /\ upSent \in Nat /\ upSent <= Len(up) /\ upSent >= Ends(lines, replied)
      /\ downSent \in Nat /\ downSent <= Len(down) /\ (replied # L /\ ~eager => downSent = Len(down))
  BY <1>2, <1>3 DEF TurnOK
<1>6. AllReplied => replied = L /\ downSent = Len(down)
  BY DEF AllReplied
<1>7. replied + 2 # L \/ AllReplied
  BY <1>1, <1>2, <1>5
<1>8. replied + 2 >= L + 1
  BY <1>2, <1>5, <1>6, <1>7
<1>9. replied + 2 = L + 1 => eager /\ line.cmd = "PASS"
  BY <1>1, <1>2, <1>5, <1>6
<1>10. upSent <= Len(up') /\ upSent >= Ends(lines', replied) /\ replied <= L + 1
  BY <1>2, <1>4, <1>5
<1>11. ~eager => downSent = Len(down)
  BY <1>1, <1>6
<1>12. TurnOK'
  BY <1>1, <1>4, <1>5, <1>8, <1>9, <1>10, <1>11 DEF TurnOK
<1>13. lines' # <<>>
  BY <1>2, <1>4
<1>14. downSent >= 3 /\ \A m \in downSent + 1 .. Len(down) : TO_UPPER(down[m]) # USER[1]
  <2>1. CASE lines = <<>>
    <3>1. L = 0
      BY <2>1
    <3>2. AllReplied
      BY <1>1, <1>2, <3>1
    <3>3. Len(down) \in Nat /\ Len(down) >= 3
      BY <1>3 DEF DownOK
    <3> QED
      BY <1>6, <3>2, <3>3
  <2>2. CASE lines # <<>>
    BY <1>3, <2>2 DEF DownOK
  <2> QED
    BY <2>1, <2>2
<1>15. DownOK'
  BY <1>1, <1>3, <1>13, <1>14 DEF DownOK
<1>16. AcceptedOK'
  BY <1>1, <1>2 DEF AcceptedOK
<1> QED
  BY <1>1, <1>2, <1>12, <1>15, <1>16 DEF TrafficInv

(* What a reply adds.                                                      *)
Reply(positive) == IF ~positive THEN ERR ELSE IF Pop3 THEN OK ELSE FTP

Added(d, R, d2) ==
  /\ R \in {OK, ERR, FTP} /\ Len(R) \in {3, 4}
  /\ d2 \in Seq(Nat) /\ Len(d2) = Len(d) + Len(R) + 2 /\ d2[Len(d2)] = LF
  /\ \A m \in 1 .. Len(d) : d2[m] = d[m]
  /\ \A m \in 1 .. Len(R) : d2[Len(d) + m] = R[m]
  /\ \A m \in Len(d) + 1 .. Len(d2) : TO_UPPER(d2[m]) # USER[1]

LEMMA ReplyAdds ==
  ASSUME NEW d \in Seq(Nat), NEW R \in {OK, ERR, FTP}, NEW d2, d2 = d \o R \o EOL
  PROVE  Added(d, R, d2)
<1> DEFINE D == Len(d)
           r == Len(R)
<1>1. R \in Seq(Nat) /\ r \in {3, 4} /\ \A m \in 1 .. r : TO_UPPER(R[m]) # 85
  <2>1. CASE R = OK
    BY <2>1 DEF OK, TO_UPPER
  <2>2. CASE R = ERR
    BY <2>2 DEF ERR, TO_UPPER
  <2>3. CASE R = FTP
    BY <2>3 DEF FTP, TO_UPPER
  <2> QED
    BY <2>1, <2>2, <2>3
<1>2. Parts(d2, d, R)
  BY <1>1, PartsJoined
<1>3. /\ d2 \in Seq(Nat) /\ Len(d2) = D + r + 2 /\ D \in Nat
      /\ \A m \in 1 .. D : d2[m] = d[m]
      /\ \A m \in 1 .. r : d2[D + m] = R[m]
      /\ d2[D + r + 1] = 13 /\ d2[D + r + 2] = 10
  BY <1>2 DEF Parts, CR, LF
<1>4. ASSUME NEW m \in D + 1 .. Len(d2) PROVE TO_UPPER(d2[m]) # 85
  <2> HIDE DEF D, r
  <2>1. CASE m = D + r + 1 \/ m = D + r + 2
    <3>1. d2[m] \in {13, 10}
      BY <1>3, <2>1
    <3> QED
      BY ONLY <3>1 DEF TO_UPPER
  <2>2. CASE m # D + r + 1 /\ m # D + r + 2
    <3>1. m - D \in 1 .. r /\ D + (m - D) = m
      BY <1>1, <1>3, <2>2
    <3>2. d2[m] = R[m - D]
      BY <1>3, <3>1
    <3> QED
      BY <1>1, <3>1, <3>2
  <2> QED
    BY <2>1, <2>2
<1>5. USER[1] = 85
  BY DEF USER
<1> QED
  BY <1>1, <1>3, <1>4, <1>5 DEF Added, LF

(* A greeting of POP3.                                                     *)
LEMMA Pop3Is ==
  ASSUME NEW d \in Seq(Nat), Len(d) >= 3
  PROVE  IsPrefix(OK, d) <=> d[1] = OK[1] /\ d[2] = OK[2] /\ d[3] = OK[3]
<1> DEFINE t == SubSeq(d, 1, 3)
<1>1. t \in Seq(Nat) /\ Len(t) = 3 /\ t[1] = d[1] /\ t[2] = d[2] /\ t[3] = d[3]
  OBVIOUS
<1>2. OK \in Seq(Nat) /\ Len(OK) = 3 /\ SubSeq(OK, 1, 3) = OK
  <2>1. OK \in Seq(Nat) /\ Len(OK) = 3
    BY DEF OK
  <2>2. PICK o \in Seq(Nat) : o = OK /\ Len(o) = 3
    BY <2>1
  <2>d. o \in Seq(Nat) /\ Len(o) >= 3
    BY <2>2
  <2>a. SubSeq(o, 1, 3) \in Seq(Nat) /\ Len(SubSeq(o, 1, 3)) = 3
    BY ONLY <2>d
  <2>b. SubSeq(o, 1, 3)[1] = o[1] /\ SubSeq(o, 1, 3)[2] = o[2] /\ SubSeq(o, 1, 3)[3] = o[3]
    BY <2>2
  <2>c. \A m \in 1 .. 3 : m \in {1, 2, 3}
    OBVIOUS
  <2>3. SubSeq(o, 1, 3) \in Seq(Nat) /\ Len(SubSeq(o, 1, 3)) = 3 /\ \A m \in 1 .. 3 : SubSeq(o, 1, 3)[m] = o[m]
    BY <2>a, <2>b, <2>c, Zenon
  <2>4. SubSeq(o, 1, 3) = o
    BY <2>2, <2>3, SeqEqual
  <2> QED
    BY <2>1, <2>2, <2>4
<1> HIDE DEF t
<1>3. OK = t <=> t[1] = OK[1] /\ t[2] = OK[2] /\ t[3] = OK[3]
  <2>1. ASSUME t[1] = OK[1], t[2] = OK[2], t[3] = OK[3] PROVE OK = t
    <3>1. ASSUME NEW m \in 1 .. 3 PROVE OK[m] = t[m]
      <4>1. m \in {1, 2, 3}
        OBVIOUS
      <4> QED
        BY <2>1, <4>1
    <3> QED
      BY <1>1, <1>2, <3>1, SeqEqual
  <2> QED
    BY <2>1
<1>4. IsPrefix(OK, d) <=> OK = t
  BY <1>2 DEF IsPrefix, t
<1> QED
  BY <1>1, <1>3, <1>4

(* What a reply changes.                                                   *)
LEMMA ServerAdds ==
  ASSUME TrafficInv, NEW positive \in BOOLEAN, Pop3Server(positive)
  PROVE  /\ Added(down, Reply(positive), down') /\ Pop3' = Pop3 /\ (PlainGreeting' => PlainGreeting)
         /\ accepted = <<>> /\ lines # <<>> /\ Len(lines) \in Nat /\ replied < Len(lines)
         /\ replied \in Nat /\ replied' = replied + 1 /\ upSent >= Ends(lines, replied + 1)
<1>1. /\ replied + 1 <= Len(lines) /\ replied' = replied + 1 /\ upSent >= EndOf(replied + 1)
      /\ down' = down \o Reply(positive) \o EOL
  BY DEF Pop3Server, Reply
<1>2. down \in Seq(Nat) /\ Len(down) >= 3 /\ Len(down) \in Nat
  BY DEF TrafficInv, DownOK
<1>3. Added(down, Reply(positive), down')
  <2>1. Reply(positive) \in {OK, ERR, FTP}
    BY DEF Reply
  <2> HIDE DEF Reply
  <2> QED
    BY <1>1, <1>2, <2>1, ReplyAdds
<1> DEFINE d2 == down'
           R == Reply(positive)
<1>4. /\ d2 \in Seq(Nat) /\ Len(d2) = Len(down) + Len(R) + 2 /\ Len(R) \in {3, 4}
      /\ \A m \in 1 .. Len(down) : d2[m] = down[m]
  BY <1>3 DEF Added
<1> HIDE DEF R, d2
<1>5. Len(d2) >= 3 /\ d2[1] = down[1] /\ d2[2] = down[2] /\ d2[3] = down[3]
  BY <1>2, <1>4
<1>6. IsPrefix(OK, d2) <=> IsPrefix(OK, down)
  BY <1>2, <1>4, <1>5, Pop3Is
<1>7. Pop3' = Pop3
  <2>1. Pop3' = IsPrefix(OK, d2)
    BY DEF Pop3, d2
  <2>2. Pop3' \in BOOLEAN /\ Pop3 \in BOOLEAN
    BY DEF Pop3, IsPrefix
  <2> QED
    BY <1>6, <2>1, <2>2 DEF Pop3
<1>8. PlainGreeting' => PlainGreeting
  <2>1. ASSUME \A i \in DOMAIN d2 : TO_UPPER(d2[i]) # USER[1], NEW i \in DOMAIN down
        PROVE  TO_UPPER(down[i]) # USER[1]
    <3>1. i \in 1 .. Len(down)
      BY <1>2
    <3>2. i \in DOMAIN d2 /\ d2[i] = down[i]
      BY <1>2, <1>4, <3>1
    <3> QED
      BY <2>1, <3>2
  <2> QED
    BY <2>1 DEF PlainGreeting, d2
<1>9. Len(lines) \in Nat /\ replied \in Nat /\ replied < Len(lines) /\ lines # <<>>
  <2>1. Len(lines) \in Nat /\ replied \in Nat
    BY DEF TrafficInv, LinesOK, TurnOK
  <2>2. replied < Len(lines)
    BY <1>1, <2>1
  <2>3. lines # <<>>
    BY <2>1, <2>2
  <2> QED
    BY <2>1, <2>2, <2>3
<1>10. accepted = <<>>
  BY <1>9 DEF TrafficInv, AcceptedOK
<1>11. upSent >= Ends(lines, replied + 1)
  BY <1>1, EndOfIs
<1> QED
  BY <1>1, <1>3, <1>7, <1>8, <1>9, <1>10, <1>11 DEF d2, R

(* Credentials are accepted with the reply to the last line.               *)
LEMMA ServerAccepts ==
  ASSUME TrafficInv, NEW positive \in BOOLEAN, Pop3Server(positive)
  PROVE  \/ accepted' = <<>> /\ ~(positive /\ lines[replied + 1].cmd = "PASS")
         \/ /\ positive /\ lines[replied + 1].cmd = "PASS" /\ replied + 1 = Len(lines) /\ Len(lines) > 1
            /\ accepted' = <<<<lines[Len(lines) - 1].arg, lines[Len(lines)].arg>>>>
<1> DEFINE k == replied + 1
           L == Len(lines)
<1>1. /\ accepted' = IF positive /\ lines[k].cmd = "PASS"
                     THEN Append(accepted, <<lines[k - 1].arg, lines[k].arg>>) ELSE accepted
  BY DEF Pop3Server
<1>2. accepted = <<>> /\ L \in Nat /\ replied < L /\ replied \in Nat
  BY ServerAdds
<1>3. ASSUME positive, lines[k].cmd = "PASS" PROVE k = L /\ L > 1 /\ k - 1 = L - 1
  <2>1. PassAfterUser(lines) /\ TurnOK
    BY DEF TrafficInv, LinesOK
  <2>2. k \in 1 .. L
    BY <1>2
  <2>3. k > 1
    BY <1>3, <2>1, <2>2 DEF PassAfterUser
  <2>4. replied + 2 # L
    <3>1. ASSUME replied + 2 = L PROVE FALSE
      <4>1. lines[L].cmd = "PASS" /\ L \in 1 .. L /\ L - 1 = k
        BY <1>2, <2>1, <3>1 DEF TurnOK
      <4> QED
        BY <1>3, <2>1, <4>1 DEF PassAfterUser
    <3> QED
      BY <3>1
  <2>5. replied + 2 >= L
    BY <2>1 DEF TurnOK
  <2> QED
    BY <1>2, <2>2, <2>3, <2>4, <2>5
<1>4. CASE positive /\ lines[k].cmd = "PASS"
  <2>1. accepted' = <<<<lines[k - 1].arg, lines[k].arg>>>>
    BY <1>1, <1>2, <1>4
  <2> QED
    BY <1>3, <1>4, <2>1
<1>5. CASE ~(positive /\ lines[k].cmd = "PASS")
  BY <1>1, <1>2, <1>5
<1> QED
  BY <1>4, <1>5

LEMMA TrafficServer ==
  ASSUME TrafficInv, NEW positive \in BOOLEAN, Pop3Server(positive)
  PROVE  TrafficInv'
<1> DEFINE L == Len(lines)
<1>1. UNCHANGED <<eager, lines, up, upSent, downSent, gap>>
  BY DEF Pop3Server
<1>2. /\ Added(down, Reply(positive), down')
      /\ accepted = <<>> /\ lines # <<>> /\ L \in Nat /\ replied < L
      /\ replied \in Nat /\ replied' = replied + 1 /\ upSent >= Ends(lines, replied + 1)
  BY ServerAdds
<1>3. TurnOK /\ DownOK
  BY DEF TrafficInv
<1> DEFINE D == Len(down)
           E == Len(down')
           r == Len(Reply(positive))
<1>4. /\ down' \in Seq(Nat) /\ E = D + r + 2 /\ r \in {3, 4} /\ down'[E] = LF
      /\ \A m \in 1 .. D : down'[m] = down[m]
      /\ \A m \in D + 1 .. E : TO_UPPER(down'[m]) # USER[1]
  BY <1>2 DEF Added
<1>5. D \in Nat /\ D >= 3 /\ downSent \in Nat /\ downSent <= D /\ downSent >= 3
      /\ \A m \in downSent + 1 .. D : TO_UPPER(down[m]) # USER[1]
  BY <1>2, <1>3 DEF DownOK, TurnOK
<1> HIDE DEF r
<1>6. E \in Nat /\ E >= 3 /\ downSent <= E
  BY <1>4, <1>5
<1>7. ASSUME NEW m \in downSent + 1 .. E PROVE TO_UPPER(down'[m]) # USER[1]
  <2>1. CASE m <= D
    <3>1. m \in 1 .. D /\ m \in downSent + 1 .. D
      BY <1>5, <1>6, <2>1
    <3> QED
      BY <1>4, <1>5, <3>1
  <2>2. CASE ~(m <= D)
    <3>1. m \in D + 1 .. E
      BY <1>5, <1>6, <2>2
    <3> QED
      BY <1>4, <3>1
  <2> QED
    BY <2>1, <2>2
<1>8. DownOK'
  BY <1>1, <1>2, <1>4, <1>5, <1>6, <1>7 DEF DownOK
<1>9. /\ replied + 2 >= L /\ (replied + 2 = L => eager /\ lines[L].cmd = "PASS")
      /\ upSent \in Nat /\ upSent <= Len(up)
  BY <1>3 DEF TurnOK
<1>10. /\ replied + 1 <= L /\ (replied + 1) + 2 >= L /\ (replied + 1) + 2 # L /\ replied + 1 \in Nat
       /\ (replied + 1 # L => eager)
  BY <1>2, <1>9
<1>11. TurnOK'
  BY <1>1, <1>2, <1>5, <1>6, <1>9, <1>10 DEF TurnOK
<1>12. AcceptedOK'
  BY <1>1, <1>2, ServerAccepts DEF AcceptedOK
<1>13. LinesOK'
  BY <1>1 DEF TrafficInv, LinesOK
<1> QED
  BY <1>1, <1>8, <1>11, <1>12, <1>13 DEF TrafficInv

-----------------------------------------------------------------------------
(* What the dissector has seen.                                            *)

LEMMA PlaceEnd ==
  ASSUME NEW ls \in Seq(Lines), NEW pos \in Nat, NEW k, NEW j, Place(ls, pos, k, j)
  PROVE  /\ pos >= Ends(ls, Len(ls)) => k = Len(ls) + 1 /\ j = 0
         /\ k = Len(ls) + 1 => pos = Ends(ls, Len(ls)) /\ j = 0
<1>0. Len(ls) \in Nat /\ Len(ls) \in 0 .. Len(ls)
  OBVIOUS
<1>1. /\ k \in 1 .. Len(ls) + 1 /\ j \in Nat /\ pos = Ends(ls, k - 1) + j
      /\ k <= Len(ls) => j < Len(LineBytes(ls[k]))
      /\ k = Len(ls) + 1 => j = 0
  BY DEF Place
<1>2. Ends(ls, Len(ls)) \in Nat
  BY <1>0, EndsNat
<1>3. k = Len(ls) + 1 => pos = Ends(ls, Len(ls)) /\ j = 0
  <2>1. k = Len(ls) + 1 => k - 1 = Len(ls)
    BY <1>0
  <2> QED
    BY <1>1, <1>2, <2>1
<1>4. ASSUME pos >= Ends(ls, Len(ls)), k # Len(ls) + 1 PROVE FALSE
  <2>1. k \in 1 .. Len(ls) /\ k \in 0 .. Len(ls) /\ k <= Len(ls) /\ k - 1 \in 0 .. Len(ls)
    BY <1>0, <1>1, <1>4
  <2>2. Ends(ls, k) = Ends(ls, k - 1) + Len(LineBytes(ls[k])) /\ Len(LineBytes(ls[k])) \in Nat
    BY <2>1, EndsNext
  <2>3. Ends(ls, k) \in Nat /\ Ends(ls, k - 1) \in Nat /\ Ends(ls, k) <= Ends(ls, Len(ls))
    BY <1>0, <2>1, EndsNat, EndsMono
  <2> DEFINE e == Ends(ls, k - 1)
             n == Len(LineBytes(ls[k]))
             M == Ends(ls, Len(ls))
  <2>4. pos = e + j /\ j \in Nat /\ e \in Nat /\ n \in Nat /\ j < n /\ e + n <= M /\ M \in Nat /\ pos >= M
    BY <1>1, <1>2, <1>4, <2>1, <2>2, <2>3
  <2> HIDE DEF e, n, M
  <2> QED
    BY ONLY <2>4
<1> QED
  BY <1>1, <1>3, <1>4

LEMMA ServedNat ==
  ASSUME TrafficInv
  PROVE  Served \in Nat /\ Served <= Len(lines) /\ Len(lines) \in Nat /\ Exact \in BOOLEAN
<1>1. Len(lines) \in Nat /\ replied \in Nat /\ replied <= Len(lines)
  BY DEF TrafficInv, LinesOK, TurnOK
<1> QED
  BY <1>1 DEF Served, Exact

LEMMA SeenInit ==
  ASSUME Init
  PROVE  SeenInv
<1>1. /\ up = <<>> /\ upSent = 0 /\ downSent = 0 /\ lines = <<>> /\ dp = disector_parser_init
      /\ logged = <<>> /\ accepted = <<>>
  BY DEF Init
<1>2. Ends(lines, 0) = 0 /\ Len(lines) = 0
  BY <1>1, EndsStep
<1>3. dp \in AllParsers /\ dp.state = "wait_pop" /\ dp.i = 0
  BY <1>1 DEF disector_parser_init, AllParsers, States
<1>4. ParserOK
  <2>1. Place(lines, upSent, 1, 0)
    <3>1. 1 \in 1 .. 0 + 1 /\ 0 \in Nat /\ 1 - 1 = 0 /\ 0 + 0 = 0 /\ ~(1 <= 0)
      OBVIOUS
    <3> QED
      BY <1>1, <1>2, <3>1 DEF Place
  <2>2. ParserAt(lines, dp, 1, 0, Exact, Served)
    BY <1>3 DEF ParserAt
  <2>3. 1 \in 1 .. Len(lines) + 1 /\ 0 \in Nat
    BY <1>2
  <2> QED
    BY <2>1, <2>2, <2>3 DEF ParserOK
<1>5. GreetingOK /\ ResponseOK
  BY <1>1, <1>3 DEF GreetingOK, ResponseOK
<1>6. LogOK
  <2>1. logged \in Seq(Given)
    BY <1>1
  <2> QED
    BY <1>1, <2>1 DEF LogOK
<1> QED
  BY <1>4, <1>5, <1>6 DEF SeenInv

LEMMA SeenToggle ==
  ASSUME SeenInv, socksv5_toggle_disector
  PROVE  SeenInv'
<1>1. UNCHANGED <<eager, lines, replied, accepted, up, upSent, down, downSent, dp, logged, gap>>
  BY DEF socksv5_toggle_disector, envVars
<1>2. Exact' = Exact /\ Served' = Served /\ Pop3' = Pop3 /\ Given' = Given
  BY <1>1 DEF Exact, PlainGreeting, Served, Pop3, Given
<1>3. ParserOK'
  BY <1>1, <1>2 DEF SeenInv, ParserOK
<1>4. GreetingOK' /\ LogOK'
  BY <1>1, <1>2 DEF SeenInv, GreetingOK, LogOK
<1>5. ResponseOK'
  BY <1>1, <1>2 DEF SeenInv, ResponseOK, Awaited
<1> QED
  BY <1>3, <1>4, <1>5 DEF SeenInv

(* A parser that waits for a reply waits for the one to the last line.     *)
LEMMA ResponseLast ==
  ASSUME TrafficInv, ParserOK, dp.state = "response"
  PROVE  /\ Len(lines) > 1 /\ Len(lines) \in Nat /\ lines[Len(lines)].cmd = "PASS" /\ dp.i \in {0, 1}
         /\ dp.user = Arg(lines[Len(lines) - 1]) /\ dp.pass = Arg(lines[Len(lines)])
         /\ lines[Len(lines) - 1].cmd = "USER" /\ upSent = Len(up) /\ dp \in AllParsers
<1>1. PICK k \in 1 .. Len(lines) + 1, j \in Nat : Place(lines, upSent, k, j) /\ ParserAt(lines, dp, k, j, Exact, Served)
  BY DEF ParserOK
<1>2. lines \in Seq(Lines) /\ upSent \in Nat /\ Len(lines) \in Nat /\ PassAfterUser(lines) /\ Len(up) = Ends(lines, Len(lines))
  BY DEF TrafficInv, LinesOK, TurnOK, Laid
<1>3. /\ k = Len(lines) + 1 /\ k > 2 /\ lines[k - 1].cmd = "PASS" /\ dp.i \in {0, 1}
      /\ dp.user = Arg(lines[k - 2]) /\ dp.pass = Arg(lines[k - 1]) /\ dp \in AllParsers
  BY <1>1 DEF ParserAt, AtResponse
<1>4. k - 1 = Len(lines) /\ k - 2 = Len(lines) - 1 /\ Len(lines) > 1 /\ Len(lines) \in 1 .. Len(lines)
  BY <1>2, <1>3
<1>5. lines[Len(lines) - 1].cmd = "USER"
  BY <1>2, <1>3, <1>4 DEF PassAfterUser
<1>6. upSent = Len(up)
  BY <1>1, <1>2, <1>3, PlaceEnd
<1> QED
  BY <1>2, <1>3, <1>4, <1>5, <1>6

LEMMA SeenClient ==
  ASSUME TrafficInv, SeenInv, NEW line \in Lines, Pop3Client(line)
  PROVE  SeenInv'
<1> DEFINE L == Len(lines)
<1>1. /\ AllReplied \/ (eager /\ line.cmd = "PASS")
      /\ UNCHANGED <<eager, replied, accepted, upSent, down, downSent, dp, logged, gap>>
  BY DEF Pop3Client
<1>2. /\ LinesOK' /\ OneMore(lines, line, lines') /\ L \in Nat
      /\ line.cmd = "PASS" => L >= 1 /\ lines[L].cmd = "USER"
      /\ accepted = <<>> /\ lines' = Append(lines, line)
  BY ClientAdds
<1>3. ParserOK /\ GreetingOK /\ ResponseOK /\ LogOK
  BY DEF SeenInv
<1>4. dp.state # "response"
  <2>1. ASSUME dp.state = "response" PROVE FALSE
    <3>1. lines[L].cmd = "PASS"
      BY <1>3, <2>1, ResponseLast
    <3>2. replied = L /\ downSent = Len(down)
      BY <1>1, <1>2, <3>1 DEF AllReplied
    <3> QED
      BY <1>2, <1>3, <2>1, <3>2 DEF ResponseOK
  <2> QED
    BY <2>1
<1>5. Exact' = Exact /\ Pop3' = Pop3
  BY <1>1 DEF Exact, PlainGreeting, Pop3
<1>6. ParserOK'
  <2>1. PICK k \in 1 .. L + 1, j \in Nat : Place(lines, upSent, k, j) /\ ParserAt(lines, dp, k, j, Exact, Served)
    BY <1>3 DEF ParserOK
  <2>2. lines \in Seq(Lines)
    BY DEF TrafficInv, LinesOK
  <2>3. PICK l2 : l2 = lines'
    OBVIOUS
  <2>4. PassAfterUser(l2) /\ l2 = Append(lines, line) /\ Len(l2) = L + 1
    BY <1>2, <2>3 DEF LinesOK, OneMore
  <2>5. k \in 1 .. Len(l2) + 1 /\ Place(l2, upSent, k, j)
    BY <2>1, <2>2, <2>4, PlaceMore
  <2>6. Exact \in BOOLEAN /\ Served \in Nat /\ Served <= L
    BY ServedNat
  <2>7. ParserAt(l2, dp, k, j, Exact, Served)
    <3>1. k = L + 1 => j = 0
      BY <2>1 DEF Place
    <3> QED
      BY <1>4, <2>1, <2>2, <2>4, <2>6, <3>1, ParserMore
  <2>8. Served' \in Nat /\ Served <= Served'
    <3>1. Served' = IF eager THEN L + 1 ELSE replied
      BY <1>1, <2>3, <2>4 DEF Served
    <3>2. replied \in Nat
      BY DEF TrafficInv, TurnOK
    <3> QED
      BY <1>2, <2>6, <3>1, <3>2 DEF Served
  <2>9. PICK s2 \in Nat : s2 = Served' /\ Served <= s2
    BY <2>8
  <2>10. ParserAt(l2, dp, k, j, Exact, s2)
    <3>1. k \in Nat
      BY <1>2, <2>1
    <3> QED
      BY <2>6, <2>7, <2>9, <3>1, Weaken
  <2> QED
    BY <1>1, <1>5, <2>1, <2>3, <2>5, <2>9, <2>10 DEF ParserOK
<1>7. GreetingOK'
  BY <1>1, <1>3, <1>5 DEF GreetingOK
<1>8. ResponseOK'
  BY <1>1, <1>4 DEF ResponseOK
<1>9. Given \subseteq Given'
  <2>1. PICK l2 : l2 = lines'
    OBVIOUS
  <2>2. Len(l2) = L + 1 /\ \A k \in 1 .. L : l2[k] = lines[k]
    BY <1>2, <2>1 DEF OneMore
  <2>3. ASSUME NEW k \in 1 .. L - 1, lines[k].cmd = "USER", lines[k + 1].cmd = "PASS"
        PROVE  /\ k \in 1 .. Len(l2) - 1 /\ l2[k].cmd = "USER" /\ l2[k + 1].cmd = "PASS"
               /\ l2[k].arg = lines[k].arg /\ l2[k + 1].arg = lines[k + 1].arg
    <3>1. k \in 1 .. L /\ k + 1 \in 1 .. L /\ k \in 1 .. Len(l2) - 1
      BY <1>2, <2>2
    <3> QED
      BY <2>2, <2>3, <3>1
  <2>4. ASSUME NEW g \in Given PROVE g \in Given'
    <3>1. PICK k \in 1 .. L - 1 : /\ lines[k].cmd = "USER" /\ lines[k + 1].cmd = "PASS"
                                  /\ g = AsLogged(<<lines[k].arg, lines[k + 1].arg>>)
      BY DEF Given
    <3>2. /\ k \in 1 .. Len(l2) - 1 /\ l2[k].cmd = "USER" /\ l2[k + 1].cmd = "PASS"
          /\ g = AsLogged(<<l2[k].arg, l2[k + 1].arg>>)
      BY <2>3, <3>1
    <3> QED
      BY <2>1, <3>2 DEF Given
  <2> QED
    BY <2>4
<1>10. LogOK'
  <2>1. logged \in Seq(Given) => logged \in Seq(Given')
    <3>1. PICK G2 : G2 = Given' /\ Given \subseteq G2
      BY <1>9
    <3> HIDE DEF Given
    <3>2. logged \in Seq(Given) => logged \in Seq(G2)
      BY ONLY <3>1
    <3> QED
      BY <3>1, <3>2
  <2> QED
    BY <1>1, <1>2, <1>3, <1>5, <2>1 DEF LogOK
<1> QED
  BY <1>6, <1>7, <1>8, <1>10 DEF SeenInv

(* When the whole of a PASS was seen, the parser waits for the reply.      *)
LEMMA WaitsForReply ==
  ASSUME TrafficInv, ParserOK, GreetingOK, Exact, ~eager, Pop3, replied < Len(lines),
         lines[Len(lines)].cmd = "PASS", upSent >= Ends(lines, Len(lines))
  PROVE  dp.state = "response"
<1> DEFINE L == Len(lines)
<1>1. PICK k \in 1 .. L + 1, j \in Nat : Place(lines, upSent, k, j) /\ ParserAt(lines, dp, k, j, Exact, Served)
  BY DEF ParserOK
<1>2. lines \in Seq(Lines) /\ upSent \in Nat /\ L \in Nat /\ replied \in Nat
  BY DEF TrafficInv, LinesOK, TurnOK
<1>3. k = L + 1 /\ j = 0 /\ k - 1 = L /\ ~(k <= L) /\ k > 1
  <2>1. k = L + 1 /\ j = 0
    BY <1>1, <1>2, PlaceEnd
  <2> QED
    BY <1>2, <2>1
<1>4. Served = replied /\ ~(replied >= L)
  BY <1>2 DEF Served
<1>5. dp \in AllParsers /\ dp.state # "done"
  BY <1>1 DEF ParserAt
<1>6. dp.state # "user"
  BY <1>1, <1>3, <1>4 DEF ParserAt, AtUser
<1>7. dp.state # "user_copy" /\ dp.state # "password_copy"
  BY <1>1, <1>3 DEF ParserAt, AtUserCopy, AtPasswordCopy
<1>8. dp.state # "password"
  BY <1>1, <1>3 DEF ParserAt, AtPassword
<1>9. dp.state # "incompatible"
  BY DEF GreetingOK
<1>10. dp.state # "wait_pop"
  <2>1. downSent >= 3 /\ downSent \in Nat
    <3>1. lines # <<>>
      BY <1>2
    <3> QED
      BY <3>1 DEF TrafficInv, DownOK, TurnOK
  <2> QED
    BY <2>1 DEF GreetingOK
<1>11. dp.state \in States
  BY <1>5, ParserFields
<1> QED
  BY <1>5, <1>6, <1>7, <1>8, <1>9, <1>10, <1>11 DEF States

LEMMA SeenServer ==
  ASSUME TrafficInv, SeenInv, NEW positive \in BOOLEAN, Pop3Server(positive)
  PROVE  SeenInv'
<1> DEFINE L == Len(lines)
           R == Reply(positive)
<1>1. UNCHANGED <<eager, lines, up, upSent, downSent, dp, logged, gap>>
  BY DEF Pop3Server
<1>2. /\ Added(down, R, down') /\ Pop3' = Pop3 /\ (PlainGreeting' => PlainGreeting)
      /\ accepted = <<>> /\ lines # <<>> /\ L \in Nat /\ replied < L
      /\ replied \in Nat /\ replied' = replied + 1 /\ upSent >= Ends(lines, replied + 1)
  BY ServerAdds
<1>3. ParserOK /\ GreetingOK /\ ResponseOK /\ LogOK /\ TurnOK /\ DownOK
  BY DEF SeenInv, TrafficInv
<1>4. Exact' => Exact
  BY <1>1, <1>2 DEF Exact
<1>5. ParserOK'
  <2>1. PICK k \in 1 .. L + 1, j \in Nat : Place(lines, upSent, k, j) /\ ParserAt(lines, dp, k, j, Exact, Served)
    BY <1>3 DEF ParserOK
  <2>2. Exact \in BOOLEAN /\ Exact' \in BOOLEAN /\ Served \in Nat
    BY ServedNat DEF Exact
  <2>3. Served' \in Nat /\ Served <= Served'
    BY <1>1, <1>2 DEF Served
  <2>4. PICK x2 \in BOOLEAN, s2 \in Nat : x2 = Exact' /\ s2 = Served' /\ Served <= s2 /\ (x2 => Exact)
    BY <1>4, <2>2, <2>3
  <2>5. ParserAt(lines, dp, k, j, x2, s2)
    <3>1. k \in Nat
      BY <1>2, <2>1
    <3> QED
      BY <2>1, <2>2, <2>4, <3>1, Weaken
  <2> QED
    BY <1>1, <2>1, <2>4, <2>5 DEF ParserOK
<1>6. GreetingOK'
  <2>1. downSent >= 3 /\ downSent \in Nat
    BY <1>2, <1>3 DEF DownOK, TurnOK
  <2>2. ~(dp.state = "wait_pop" /\ Exact)
    BY <1>3, <2>1 DEF GreetingOK
  <2> QED
    BY <1>1, <1>2, <1>3, <1>4, <2>2 DEF GreetingOK
<1>7. ResponseOK'
  <2>1. SUFFICES ASSUME dp.state = "response" PROVE ResponseOK'
    BY <1>1 DEF ResponseOK
  <2>2. L > 1 /\ lines[L].cmd = "PASS"
    BY <1>3, <2>1, ResponseLast
  <2>3. PICK d2 : d2 = down'
    OBVIOUS
  <2>4. /\ R \in {OK, ERR, FTP} /\ Len(R) \in {3, 4}
        /\ Len(d2) = Len(down) + Len(R) + 2
        /\ \A m \in 1 .. Len(R) : d2[Len(down) + m] = R[m]
    BY <1>2, <2>3 DEF Added
  <2>5. Len(down) \in Nat /\ downSent \in Nat /\ downSent <= Len(down)
    BY <1>3 DEF DownOK, TurnOK
  <2>6. downSent # Len(d2)
    BY <2>4, <2>5
  <2>7. ASSUME ~eager PROVE logged = <<>> /\ replied + 1 = L /\ Awaited(R)'
    <3>1. logged = <<>> /\ dp.i = 0 /\ downSent = Len(down)
      BY <1>2, <1>3, <2>1, <2>7 DEF ResponseOK, TurnOK
    <3>2. replied + 1 = L
      BY <1>2, <1>3, <2>7 DEF TurnOK
    <3>3. accepted' # <<>> <=> positive
      BY <2>2, <3>2, ServerAccepts
    <3>4. R = OK <=> accepted' # <<>> /\ Pop3
      BY <3>3 DEF Reply, OK, ERR, FTP
    <3>5. downSent - dp.i = Len(down)
      BY <2>5, <3>1
    <3> HIDE DEF R
    <3>6. /\ Len(d2) = (downSent - dp.i) + Len(R) + 2
          /\ \A m \in 1 .. Len(R) : d2[(downSent - dp.i) + m] = R[m]
          /\ dp.i # 1
      BY <2>4, <3>1, <3>5
    <3>7. R' = R
      BY <1>2 DEF R, Reply
    <3>8. Awaited(R)'
      BY <1>1, <1>2, <2>3, <3>4, <3>6, <3>7 DEF Awaited
    <3> QED
      BY <3>1, <3>2, <3>8
  <2>8. R' = R
    BY <1>2 DEF Reply
  <2> HIDE DEF R
  <2> QED
    BY <1>1, <1>2, <2>3, <2>4, <2>6, <2>7, <2>8 DEF ResponseOK
<1>8. LogOK'
  <2>1. Given' = Given
    BY <1>1 DEF Given
  <2>2. ASSUME Exact', ~eager, accepted' # <<>>, Pop3' PROVE dp.state = "response"
    <3>1. lines[L].cmd = "PASS" /\ replied + 1 = L
      BY <2>2, ServerAccepts
    <3> QED
      BY <1>2, <1>3, <1>4, <2>2, <3>1, WaitsForReply
  <2> QED
    BY <1>1, <1>2, <1>3, <2>1, <2>2 DEF LogOK
<1> QED
  BY <1>5, <1>6, <1>7, <1>8 DEF SeenInv

(* Bytes are sent to the origin.                                           *)
LEMMA UpLeft ==
  ASSUME TrafficInv, NEW n, n \in 1 .. Len(up) - upSent
  PROVE  /\ upSent + n \in Nat /\ upSent + n <= Len(up) /\ upSent # Len(up)
         /\ replied < Len(lines) /\ accepted = <<>> /\ PassesSent(lines, upSent)
<1> DEFINE L == Len(lines)
<1>1. /\ lines \in Seq(Lines) /\ L \in Nat /\ PassAfterUser(lines) /\ Laid(lines, up) /\ TurnOK
      /\ Len(up) \in Nat /\ Len(up) = Ends(lines, L)
  BY DEF TrafficInv, LinesOK, Laid
<1>2. /\ upSent \in Nat /\ upSent <= Len(up) /\ upSent >= Ends(lines, replied)
      /\ replied \in Nat /\ replied <= L /\ replied \in 0 .. L /\ replied + 2 >= L
      /\ replied + 2 = L => lines[L].cmd = "PASS"
  BY <1>1 DEF TurnOK
<1>3. upSent + n \in Nat /\ upSent + n <= Len(up) /\ upSent < Len(up)
  BY <1>1, <1>2
<1>4. replied # L
  <2>1. ASSUME replied = L PROVE FALSE
    BY <1>1, <1>2, <1>3, <2>1
  <2> QED
    BY <2>1
<1>5. replied < L
  BY <1>1, <1>2, <1>4
<1>6. accepted = <<>>
  BY <1>4 DEF TrafficInv, AcceptedOK
<1>7. ASSUME NEW k \in 1 .. L - 1, lines[k].cmd = "PASS" PROVE upSent >= Ends(lines, k)
  <2>1. k <= replied
    <3>1. ASSUME k > replied PROVE FALSE
      <4>1. replied + 2 = L /\ k = L - 1 /\ L \in 1 .. L
        BY <1>1, <1>2, <3>1
      <4>2. lines[L - 1].cmd = "USER"
        BY <1>1, <1>2, <4>1 DEF PassAfterUser
      <4> QED
        BY <1>7, <4>1, <4>2
    <3> QED
      BY <1>1, <1>2, <3>1
  <2>2. k \in 0 .. L
    BY <1>1
  <2>3. Ends(lines, k) <= Ends(lines, replied) /\ Ends(lines, k) \in Nat /\ Ends(lines, replied) \in Nat
    BY <1>1, <1>2, <2>1, <2>2, EndsMono, EndsNat
  <2> QED
    BY <1>2, <2>3
<1>8. PassesSent(lines, upSent)
  BY <1>7 DEF PassesSent
<1> QED
  BY <1>3, <1>5, <1>6, <1>8

LEMMA SeenUpWatched ==
  ASSUME TrafficInv, SeenInv, Exact \/ PlainNames(lines), NEW n, copy_w_origin(n), Watches(TRUE)
  PROVE  SeenInv'
<1> DEFINE L == Len(lines)
           bytes == SubSeq(up, upSent + 1, upSent + n)
           p == disector_consume(dp, bytes)
<1>1. /\ n \in 1 .. Len(up) - upSent /\ upSent' = upSent + n /\ Dissect(bytes, TRUE)
      /\ UNCHANGED <<eager, lines, replied, accepted, up, down, downSent>>
  BY DEF copy_w_origin, envVars
<1>2. /\ upSent + n \in Nat /\ upSent + n <= Len(up) /\ upSent # Len(up)
      /\ replied < L /\ accepted = <<>> /\ PassesSent(lines, upSent)
  BY <1>1, UpLeft
<1>3. ParserOK /\ GreetingOK /\ ResponseOK /\ LogOK /\ TurnOK
  BY DEF SeenInv, TrafficInv
<1>4. dp.state \in Commands
  BY DEF Watches, Commands
<1>5. lines \in Seq(Lines) /\ PassAfterUser(lines) /\ Laid(lines, up) /\ upSent \in Nat /\ n \in Nat /\ L \in Nat
  <2>1. Len(up) \in Nat
    BY DEF TrafficInv, LinesOK, Laid
  <2> QED
    BY <1>1, <2>1 DEF TrafficInv, LinesOK, TurnOK
<1>6. Exact \in BOOLEAN
  BY DEF Exact
<1>7. p \in Known(lines, upSent + n, Exact, Served)
  <2>1. dp \in Known(lines, upSent, Exact, Served)
    <3>1. PICK k \in 1 .. L + 1, j \in Nat : Place(lines, upSent, k, j) /\ ParserAt(lines, dp, k, j, Exact, Served)
      BY <1>3 DEF ParserOK
    <3>2. dp \in AllParsers
      BY <3>1 DEF ParserAt
    <3>3. dp.state # "response"
      BY <1>4 DEF Commands
    <3> QED
      BY <1>4, <3>1, <3>2, <3>3 DEF Known
  <2> QED
    BY <1>2, <1>5, <1>6, <2>1, UpConsumed
<1> HIDE DEF p
<1>8. /\ p \in AllParsers /\ p.state \in Commands \cup {"response"} /\ (p.state = "response" => p.i = 0)
      /\ \E k \in 1 .. L + 1, j \in Nat : Place(lines, upSent + n, k, j) /\ ParserAt(lines, p, k, j, Exact, Served)
  BY <1>7 DEF Known
<1>9. dp' = p /\ logged' = logged /\ gap' = gap
  <2>1. p.state # "done"
    BY <1>8 DEF Commands
  <2> QED
    BY <1>1, <2>1 DEF Dissect, p
<1>10. Exact' = Exact /\ Served' = Served /\ Given' = Given /\ Pop3' = Pop3
  BY <1>1, <1>9 DEF Exact, PlainGreeting, Served, Given, Pop3
<1>11. ParserOK'
  BY <1>1, <1>8, <1>9, <1>10 DEF ParserOK
<1>12. GreetingOK'
  BY <1>8, <1>9 DEF GreetingOK, Commands
<1>13. ResponseOK'
  <2>1. ~eager => logged = <<>>
    BY <1>2, <1>3 DEF LogOK
  <2>2. replied # L
    BY <1>2, <1>5
  <2> QED
    BY <1>1, <1>2, <1>8, <1>9, <2>1, <2>2 DEF ResponseOK
<1>14. LogOK'
  BY <1>1, <1>2, <1>3, <1>9, <1>10 DEF LogOK
<1> QED
  BY <1>11, <1>12, <1>13, <1>14 DEF SeenInv

(* A gap that is not `mid'.                                                *)
LEMMA IdleGap ==
  ASSUME gap \in {"none", "idle", "mid"}, gap # "mid", ~is_disector_on, Gap # "mid"
  PROVE  /\ dp.state \in {"wait_pop", "incompatible"} \/ (dp.state = "user" /\ dp.i = 0)
         /\ Gap = "idle"
BY DEF Gap

LEMMA SeenUpUnwatched ==
  ASSUME TrafficInv, SeenInv, gap # "mid", NEW n, copy_w_origin(n), ~Watches(TRUE), gap' # "mid"
  PROVE  SeenInv'
<1> DEFINE L == Len(lines)
           bytes == SubSeq(up, upSent + 1, upSent + n)
<1>1. /\ n \in 1 .. Len(up) - upSent /\ upSent' = upSent + n /\ Dissect(bytes, TRUE)
      /\ UNCHANGED <<eager, lines, replied, accepted, up, down, downSent>>
  BY DEF copy_w_origin, envVars
<1>2. upSent + n \in Nat /\ upSent + n <= Len(up) /\ upSent # Len(up)
  BY <1>1, UpLeft
<1>3. ParserOK /\ GreetingOK /\ ResponseOK /\ LogOK /\ gap \in {"none", "idle", "mid"}
  BY DEF SeenInv, TrafficInv
<1>4. dp' = dp /\ logged' = logged /\ gap' = Gap
  BY <1>1 DEF Dissect
<1>5. PICK k0 \in 1 .. L + 1, j0 \in Nat : Place(lines, upSent, k0, j0) /\ ParserAt(lines, dp, k0, j0, Exact, Served)
  BY <1>3 DEF ParserOK
<1>6. dp \in AllParsers /\ dp.state # "done" /\ dp.state \in States
  <2>1. dp \in AllParsers /\ dp.state # "done"
    BY <1>5 DEF ParserAt
  <2> QED
    BY <2>1, ParserFields
<1>7. Given' = Given /\ Pop3' = Pop3 /\ PlainGreeting' = PlainGreeting
  BY <1>1 DEF Given, Pop3, PlainGreeting
<1>8. \/ dp.state \in {"wait_pop", "incompatible"} /\ Exact' = Exact
      \/ dp.state \in {"wait_pop", "incompatible"} /\ Exact' = FALSE
      \/ dp.state = "user" /\ dp.i = 0 /\ Exact' = FALSE
  <2>1. CASE is_disector_on
    <3>1. dp.state \notin Commands
      BY <2>1 DEF Watches, Commands
    <3>2. dp.state # "response"
      BY <1>2, <1>3, ResponseLast
    <3>3. dp.state \in {"wait_pop", "incompatible"}
      BY <1>6, <3>1, <3>2 DEF States, Commands
    <3>4. Exact' = Exact
      BY <1>4, <1>7, <2>1 DEF Exact, Gap
    <3> QED
      BY <3>3, <3>4
  <2>2. CASE ~is_disector_on
    <3>1. /\ dp.state \in {"wait_pop", "incompatible"} \/ (dp.state = "user" /\ dp.i = 0)
          /\ gap' = "idle"
      BY <1>3, <1>4, <2>2, IdleGap
    <3>2. Exact' = FALSE
      BY <3>1 DEF Exact
    <3> QED
      BY <3>1, <3>2
  <2> QED
    BY <2>1, <2>2
<1>9. ParserOK'
  <2>1. lines \in Seq(Lines) /\ Len(up) = Ends(lines, L)
    BY DEF TrafficInv, LinesOK, Laid
  <2>2. PICK k \in 1 .. L + 1, j \in Nat : Place(lines, upSent + n, k, j)
    BY <1>2, <2>1, PlaceExists
  <2>3. PICK x2, s2 : x2 = Exact' /\ s2 = Served'
    OBVIOUS
  <2>4. ParserAt(lines, dp, k, j, x2, s2)
    <3>1. CASE dp.state \in {"wait_pop", "incompatible"}
      BY <1>6, <3>1 DEF ParserAt
    <3>2. CASE dp.state = "user" /\ dp.i = 0 /\ x2 = FALSE
      <4>1. dp.i \in 0 .. 3 /\ dp.i <= j /\ \A m \in 1 .. dp.i : FALSE
        BY <3>2
      <4>2. AtUser(lines, dp, k, j, x2, s2)
        BY <3>2, <4>1 DEF AtUser
      <4> QED
        BY <1>6, <3>2, <4>2 DEF ParserAt
    <3> QED
      BY <1>8, <2>3, <3>1, <3>2
  <2> QED
    BY <1>1, <1>4, <2>2, <2>3, <2>4 DEF ParserOK
<1>10. GreetingOK'
  BY <1>1, <1>3, <1>4, <1>7, <1>8 DEF GreetingOK
<1>11. ResponseOK'
  BY <1>4, <1>8 DEF ResponseOK
<1>12. LogOK'
  BY <1>1, <1>3, <1>4, <1>7, <1>8 DEF LogOK
<1> QED
  BY <1>9, <1>10, <1>11, <1>12 DEF SeenInv

(* Bytes are sent to the client.                                           *)
LEMMA DownLeft ==
  ASSUME TrafficInv, NEW n, n \in 1 .. Len(down) - downSent
  PROVE  /\ down \in Seq(Nat) /\ Len(down) \in Nat /\ Len(down) >= 3 /\ downSent \in Nat /\ n \in Nat /\ n # 0
         /\ downSent + n \in Nat /\ downSent + n <= Len(down) /\ downSent # Len(down)
         /\ ~eager => replied = Len(lines)
<1>1. down \in Seq(Nat) /\ Len(down) \in Nat /\ Len(down) >= 3 /\ downSent \in Nat /\ downSent <= Len(down)
  BY DEF TrafficInv, DownOK, TurnOK
<1>2. n \in Nat /\ n # 0 /\ downSent + n \in Nat /\ downSent + n <= Len(down) /\ downSent # Len(down)
  BY <1>1
<1> QED
  BY <1>1, <1>2 DEF TrafficInv, TurnOK

LEMMA SeenGreeting ==
  ASSUME TrafficInv, SeenInv, Exact \/ Plain(down), NEW n, copy_w_client(n), Watches(FALSE), dp.state = "wait_pop"
  PROVE  SeenInv'
<1> DEFINE L == Len(lines)
           bytes == SubSeq(down, downSent + 1, downSent + n)
           p == disector_consume(dp, bytes)
           b == Exact \/ lines # <<>>
<1>1. /\ n \in 1 .. Len(down) - downSent /\ downSent' = downSent + n /\ Dissect(bytes, FALSE)
      /\ UNCHANGED <<eager, lines, replied, accepted, up, upSent, down>>
  BY DEF copy_w_client, envVars
<1>2. /\ down \in Seq(Nat) /\ Len(down) \in Nat /\ Len(down) >= 3 /\ downSent \in Nat /\ n \in Nat
      /\ downSent + n \in Nat /\ downSent + n <= Len(down)
  BY <1>1, DownLeft
<1>3. ParserOK /\ GreetingOK /\ ResponseOK /\ LogOK /\ DownOK /\ L \in Nat /\ lines \in Seq(Lines)
  BY DEF SeenInv, TrafficInv, LinesOK
<1>4. PICK k \in 1 .. L + 1, j \in Nat : Place(lines, upSent, k, j) /\ ParserAt(lines, dp, k, j, Exact, Served)
  BY <1>3 DEF ParserOK
<1>5. dp \in AllParsers
  BY <1>4 DEF ParserAt
<1>6. dp.i \in {0, 1} /\ (Exact => dp.i = downSent /\ (dp.i = 1 => down[1] = OK[1])) /\ logged = <<>>
  BY <1>3 DEF GreetingOK
<1>7. lines # <<>> => ~Exact /\ \A m \in downSent + 1 .. Len(down) : TO_UPPER(down[m]) # USER[1]
  BY <1>2, <1>3, <1>6 DEF DownOK
<1>8. Exact \in BOOLEAN /\ b \in BOOLEAN
  BY DEF Exact
<1>9. p \in GreetingAt(down, downSent + n, Exact, b)
  <2>1. dp \in GreetingAt(down, downSent, Exact, b)
    BY <1>5, <1>6 DEF GreetingAt
  <2>2. b => \A m \in downSent + 1 .. Len(down) : TO_UPPER(down[m]) # USER[1]
    <3>1. Exact => \A m \in downSent + 1 .. Len(down) : TO_UPPER(down[m]) # USER[1]
      <4>1. \A m \in downSent + 1 .. Len(down) : m \in DOMAIN down
        BY <1>2
      <4> QED
        BY <4>1 DEF Exact, PlainGreeting
    <3> QED
      BY <1>7, <3>1
  <2>3. ~b => \A i \in 0 .. Len(down) - 4 : ~Spells(down, i)
    BY DEF Plain
  <2> HIDE DEF b
  <2> QED
    BY <1>2, <1>8, <2>1, <2>2, <2>3, GreetingConsumed
<1> HIDE DEF p
<1>10. /\ p \in AllParsers /\ p.state \in {"wait_pop", "incompatible", "user"}
       /\ p.state = "wait_pop" => p.i \in {0, 1} /\ (Exact => p.i = downSent + n /\ (p.i = 1 => down[1] = OK[1]))
       /\ p.state = "incompatible" /\ Exact => ~(down[1] = OK[1] /\ down[2] = OK[2])
       /\ p.state = "user" => p.i \in 0 .. 3 /\ (b => p.i = 0)
  BY <1>9 DEF GreetingAt
<1>11. dp' = p /\ logged' = logged /\ gap' = gap
  <2>1. p.state # "done"
    BY <1>10
  <2> QED
    BY <1>1, <2>1 DEF Dissect, p
<1>12. Exact' = Exact /\ Served' = Served /\ Given' = Given /\ Pop3' = Pop3
  BY <1>1, <1>11 DEF Exact, PlainGreeting, Served, Given, Pop3
<1>13. ParserAt(lines, p, k, j, Exact, Served)
  <2>1. p.state = "user" => AtUser(lines, p, k, j, Exact, Served)
    <3>1. SUFFICES ASSUME p.state = "user" PROVE AtUser(lines, p, k, j, Exact, Served)
      OBVIOUS
    <3>2. CASE lines = <<>>
      <4>1. L = 0 /\ k = 1 /\ j = 0 /\ ~(k <= L) /\ ~(k > 1)
        <5>1. L = 0 /\ k = 1
          BY <1>3, <3>2
        <5>2. j = 0
          BY <1>4, <5>1 DEF Place
        <5> QED
          BY <5>1, <5>2
      <4> QED
        BY <1>10, <3>1, <4>1 DEF AtUser
    <3>3. CASE lines # <<>>
      <4>1. p.i = 0 /\ ~Exact /\ p.i <= j /\ \A m \in 1 .. p.i : FALSE
        BY <1>7, <1>10, <3>1, <3>3
      <4> QED
        BY <1>10, <3>1, <4>1 DEF AtUser
    <3> QED
      BY <3>2, <3>3
  <2> QED
    BY <1>10, <2>1 DEF ParserAt
<1>14. ParserOK'
  BY <1>1, <1>4, <1>11, <1>12, <1>13 DEF ParserOK
<1>15. GreetingOK'
  <2>1. p.state = "incompatible" /\ Exact => ~Pop3
    BY <1>2, <1>10, Pop3Is DEF Pop3
  <2> QED
    BY <1>1, <1>6, <1>10, <1>11, <1>12, <2>1 DEF GreetingOK
<1>16. ResponseOK'
  BY <1>10, <1>11 DEF ResponseOK
<1>17. LogOK'
  BY <1>1, <1>3, <1>6, <1>11, <1>12 DEF LogOK
<1> QED
  BY <1>14, <1>15, <1>16, <1>17 DEF SeenInv

(* The reply tells whether the credentials were accepted.                  *)
LEMMA PositiveIsOK ==
  ASSUME NEW R \in {OK, ERR, FTP}, Awaited(R), dp.i \in {0, 1}, downSent \in Nat
  PROVE  /\ Positive(down, downSent, dp.i) <=> accepted # <<>> /\ Pop3
         /\ dp.i = 0 /\ down[downSent + 1] = OK[1] => R = OK
<1>1. /\ \A m \in 1 .. Len(R) : down[(downSent - dp.i) + m] = R[m]
      /\ R = OK <=> accepted # <<>> /\ Pop3
      /\ dp.i = 1 => R = OK
  BY DEF Awaited
<1>2. 1 \in 1 .. Len(R) /\ 2 \in 1 .. Len(R) /\ (R # OK => R[1] # OK[1])
  <2>1. Len(OK) = 3 /\ Len(ERR) = 4 /\ Len(FTP) = 3 /\ OK[1] = 43 /\ ERR[1] = 45 /\ FTP[1] = 50
    BY ONLY DEF OK, ERR, FTP
  <2>2. Len(R) \in {3, 4} /\ (R # OK => R[1] # OK[1])
    <3>1. CASE R = OK
      BY <2>1, <3>1
    <3>2. CASE R = ERR
      BY <2>1, <3>2
    <3>3. CASE R = FTP
      BY <2>1, <3>3
    <3> QED
      BY <3>1, <3>2, <3>3
  <2>3. ASSUME NEW l \in {3, 4} PROVE 1 \in 1 .. l /\ 2 \in 1 .. l
    BY ONLY <2>3
  <2> QED
    BY <2>2, <2>3
<1>3. down[(downSent - dp.i) + 1] = R[1] /\ down[(downSent - dp.i) + 2] = R[2]
  BY <1>1, <1>2
<1>4. dp.i = 0 => (downSent - dp.i) + 1 = downSent + 1
  OBVIOUS
<1> QED
  BY <1>1, <1>2, <1>3, <1>4 DEF Positive

LEMMA SeenReply ==
  ASSUME TrafficInv, SeenInv, NEW n, copy_w_client(n), Watches(FALSE), dp.state = "response"
  PROVE  SeenInv'
<1> DEFINE L == Len(lines)
           bytes == SubSeq(down, downSent + 1, downSent + n)
           p == disector_consume(dp, bytes)
<1>1. /\ n \in 1 .. Len(down) - downSent /\ downSent' = downSent + n /\ Dissect(bytes, FALSE)
      /\ UNCHANGED <<eager, lines, replied, accepted, up, upSent, down>>
  BY DEF copy_w_client, envVars
<1>2. /\ down \in Seq(Nat) /\ Len(down) \in Nat /\ downSent \in Nat /\ n \in Nat /\ n # 0
      /\ downSent + n \in Nat /\ downSent + n <= Len(down) /\ downSent # Len(down)
      /\ ~eager => replied = L
  BY <1>1, DownLeft
<1>3. ParserOK /\ GreetingOK /\ ResponseOK /\ LogOK /\ DownOK /\ AcceptedOK
  BY DEF SeenInv, TrafficInv
<1>4. /\ L > 1 /\ L \in Nat /\ lines[L].cmd = "PASS" /\ dp.i \in {0, 1} /\ lines[L - 1].cmd = "USER"
      /\ dp.user = Arg(lines[L - 1]) /\ dp.pass = Arg(lines[L]) /\ dp \in AllParsers
  BY <1>3, ResponseLast
<1>5. lines # <<>> /\ downSent >= 3 /\ \A m \in downSent + 1 .. Len(down) : TO_UPPER(down[m]) # USER[1]
  <2>1. lines # <<>>
    BY <1>4
  <2> QED
    BY <1>3, <2>1 DEF DownOK
<1>6. p \in ReplyAt(down, downSent, dp, n)
  <2>1. dp.i <= downSent
    BY <1>2, <1>4, <1>5
  <2> QED
    BY <1>2, <1>4, <1>5, <2>1, ReplyConsumed
<1> HIDE DEF p
<1>7. /\ p \in AllParsers /\ p.user = dp.user /\ p.pass = dp.pass
      /\ \/ p.state = "response" /\ p.i = dp.i + n /\ p.i \in {0, 1} /\ (n # 0 => down[downSent + n] = OK[1])
         \/ p.state = "user" /\ p.i = 0 /\ ~Positive(down, downSent, dp.i)
         \/ p.state = "done" /\ Positive(down, downSent, dp.i)
  BY <1>6 DEF ReplyAt
<1>8. /\ dp' = IF p.state = "done" THEN disector_parser_reset(p) ELSE p
      /\ logged' = IF p.state = "done" THEN Append(logged, <<p.user, p.pass>>) ELSE logged
      /\ gap' = gap
  BY <1>1 DEF Dissect, p
<1>9. Exact' = Exact /\ Served' = Served /\ Given' = Given /\ Pop3' = Pop3
  BY <1>1, <1>8 DEF Exact, PlainGreeting, Served, Given, Pop3
<1>10. ~eager => logged = <<>> /\ \E R \in {OK, ERR, FTP} : Awaited(R)
  BY <1>2, <1>3 DEF ResponseOK
<1>11. PICK k \in 1 .. L + 1, j \in Nat : Place(lines, upSent, k, j) /\ ParserAt(lines, dp, k, j, Exact, Served)
  BY <1>3 DEF ParserOK
<1>12. /\ k = L + 1 /\ j = 0 /\ k - 1 = L /\ k > 1 /\ ~(k <= L) /\ AtResponse(lines, dp, k)
  <2>1. k = L + 1 /\ AtResponse(lines, dp, k)
    BY <1>11 DEF ParserAt, AtResponse
  <2>2. j = 0
    BY <1>11, <2>1 DEF Place
  <2> QED
    BY <1>4, <2>1, <2>2
<1>13. CASE p.state = "response"
  <2>1. p.i = 1 /\ dp.i = 0 /\ n = 1 /\ down[downSent + 1] = OK[1] /\ p.i = dp.i + n
    <3>1. p.i = dp.i + n /\ p.i \in {0, 1} /\ down[downSent + n] = OK[1]
      BY <1>2, <1>7, <1>13
    <3>2. ASSUME NEW x \in {0, 1}, NEW y \in {0, 1}, NEW m \in Nat, m # 0, x = y + m
          PROVE  x = 1 /\ y = 0 /\ m = 1
      BY ONLY <3>2
    <3>3. p.i = 1 /\ dp.i = 0 /\ n = 1
      BY <1>2, <1>4, <3>1, <3>2
    <3> QED
      BY <3>1, <3>3
  <2>2. dp' = p /\ logged' = logged
    BY <1>8, <1>13
  <2>3. ParserAt(lines, p, k, j, Exact, Served)
    BY <1>7, <1>12, <1>13, <2>1 DEF ParserAt, AtResponse
  <2>4. ParserOK'
    BY <1>1, <1>9, <1>11, <2>2, <2>3 DEF ParserOK
  <2>5. GreetingOK'
    BY <1>13, <2>2 DEF GreetingOK
  <2>6. downSent + n # Len(down)
    <3>1. down[Len(down)] = 10 /\ OK[1] = 43
      BY <1>3 DEF DownOK, LF, OK
    <3> QED
      BY <2>1, <3>1
  <2>7. ASSUME NEW R \in {OK, ERR, FTP}, Awaited(R), ~eager PROVE Awaited(R)'
    <3>1. R = OK
      BY <1>2, <1>4, <2>1, <2>7, PositiveIsOK
    <3>2. (downSent + n) - p.i = downSent - dp.i
      BY <1>2, <2>1
    <3> QED
      BY <1>1, <1>9, <2>2, <2>7, <3>1, <3>2 DEF Awaited
  <2>8. ResponseOK'
    <3>1. ~eager => \E R \in {OK, ERR, FTP} : Awaited(R)'
      BY <1>10, <2>7
    <3> QED
      BY <1>1, <1>2, <1>10, <2>2, <2>6, <3>1 DEF ResponseOK
  <2>9. LogOK'
    BY <1>1, <1>3, <1>9, <1>13, <2>2 DEF LogOK
  <2> QED
    BY <2>4, <2>5, <2>8, <2>9 DEF SeenInv
<1>14. CASE p.state # "response"
  <2>1. PICK q : q = dp'
    OBVIOUS
  <2>2. q \in AllParsers /\ q.state = "user" /\ q.i = 0
    <3>1. CASE p.state = "done"
      <4>1. p \in RawParsers /\ p.user_carry = FALSE
        BY <1>7, ParserFields
      <4>2. q = disector_parser_reset(p)
        BY <1>8, <2>1, <3>1
      <4> QED
        BY <4>1, <4>2, ResetOf
    <3>2. CASE p.state # "done"
      BY <1>7, <1>8, <1>14, <2>1, <3>2
    <3> QED
      BY <3>1, <3>2
  <2>3. ParserOK'
    <3>1. Served >= L
      BY <1>2, <1>4 DEF Served
    <3>2. AtUser(lines, q, k, j, Exact, Served)
      <4>1. 0 \in 0 .. 3
        OBVIOUS
      <4> QED
        BY <1>4, <1>12, <2>2, <3>1, <4>1 DEF AtUser
    <3>3. ParserAt(lines, q, k, j, Exact, Served)
      BY <2>2, <3>2 DEF ParserAt
    <3> QED
      BY <1>1, <1>9, <1>11, <2>1, <3>3 DEF ParserOK
  <2>4. GreetingOK' /\ ResponseOK'
    BY <2>1, <2>2 DEF GreetingOK, ResponseOK
  <2>5. ~eager => (Positive(down, downSent, dp.i) <=> accepted # <<>> /\ Pop3)
    BY <1>2, <1>4, <1>10, PositiveIsOK
  <2>6. CASE p.state = "done"
    <3> DEFINE e == AsLogged(<<lines[L - 1].arg, lines[L].arg>>)
    <3>1. <<p.user, p.pass>> = e
      BY <1>4, <1>7 DEF Arg, AsLogged
    <3>2. e \in Given
      <4>1. L - 1 \in 1 .. L - 1 /\ (L - 1) + 1 = L
        BY <1>4
      <4> QED
        BY <1>4, <4>1 DEF Given
    <3>3. logged' = Append(logged, e)
      BY <1>8, <2>6, <3>1
    <3>4. eager => logged' \in Seq(Given')
      <4>1. eager => logged \in Seq(Given)
        BY <1>3 DEF LogOK
      <4> HIDE DEF e
      <4> QED
        BY <1>9, <3>2, <3>3, <4>1
    <3>5. ~eager => Pop3 /\ accepted # <<>> /\ logged' = <<AsLogged(accepted[1])>>
      <4>1. SUFFICES ASSUME ~eager PROVE Pop3 /\ accepted # <<>> /\ logged' = <<AsLogged(accepted[1])>>
        OBVIOUS
      <4>2. accepted # <<>> /\ Pop3 /\ logged = <<>>
        BY <1>7, <1>10, <2>5, <2>6, <4>1
      <4>3. accepted[1] = <<lines[L - 1].arg, lines[L].arg>>
        BY <1>3, <4>2 DEF AcceptedOK
      <4>4. logged' = <<e>>
        <5> HIDE DEF e
        <5> QED
          BY <3>3, <4>2
      <4> QED
        BY <4>2, <4>3, <4>4
    <3>6. logged' # <<>>
      <4>1. logged \in Seq(Given) \/ logged = <<>>
        BY <1>3, <1>10 DEF LogOK
      <4> HIDE DEF e
      <4> QED
        BY <3>2, <3>3, <4>1
    <3>7. LogOK'
      BY <1>1, <1>9, <3>4, <3>5, <3>6 DEF LogOK
    <3> QED
      BY <2>3, <2>4, <3>7 DEF SeenInv
  <2>7. CASE p.state # "done"
    <3>1. logged' = logged /\ ~Positive(down, downSent, dp.i)
      BY <1>7, <1>8, <1>14, <2>7
    <3>2. LogOK'
      BY <1>1, <1>3, <1>9, <2>5, <3>1 DEF LogOK
    <3> QED
      BY <2>3, <2>4, <3>2 DEF SeenInv
  <2> QED
    BY <2>6, <2>7
<1> QED
  BY <1>13, <1>14

LEMMA SeenDownUnwatched ==
  ASSUME TrafficInv, SeenInv, gap # "mid", NEW n, copy_w_client(n), ~Watches(FALSE), gap' # "mid"
  PROVE  SeenInv'
<1> DEFINE bytes == SubSeq(down, downSent + 1, downSent + n)
<1>1. /\ downSent' = downSent + n /\ Dissect(bytes, FALSE)
      /\ UNCHANGED <<eager, lines, replied, accepted, up, upSent, down>>
  BY DEF copy_w_client, envVars
<1>3. ParserOK /\ GreetingOK /\ ResponseOK /\ LogOK /\ gap \in {"none", "idle", "mid"}
  BY DEF SeenInv, TrafficInv
<1>4. dp' = dp /\ logged' = logged /\ gap' = Gap
  BY <1>1 DEF Dissect
<1>5. Given' = Given /\ Pop3' = Pop3 /\ PlainGreeting' = PlainGreeting /\ Served' = Served
  BY <1>1 DEF Given, Pop3, PlainGreeting, Served
<1>6. \/ dp.state \notin {"wait_pop", "response"} /\ Exact' = Exact
      \/ dp.state # "response" /\ Exact' = FALSE
  <2>1. CASE is_disector_on
    BY <1>4, <1>5, <2>1 DEF Watches, Exact, Gap
  <2>2. CASE ~is_disector_on
    <3>1. dp.state # "response" /\ gap' = "idle"
      BY <1>3, <1>4, <2>2, IdleGap
    <3> QED
      BY <3>1 DEF Exact
  <2> QED
    BY <2>1, <2>2
<1>7. ParserOK'
  <2>1. PICK k \in 1 .. Len(lines) + 1, j \in Nat :
          Place(lines, upSent, k, j) /\ ParserAt(lines, dp, k, j, Exact, Served)
    BY <1>3 DEF ParserOK
  <2>2. Exact \in BOOLEAN /\ Served \in Nat /\ Len(lines) \in Nat
    BY ServedNat
  <2>3. PICK x2 \in BOOLEAN : x2 = Exact' /\ (x2 => Exact)
    BY <1>6, <2>2
  <2>4. ParserAt(lines, dp, k, j, x2, Served)
    <3>1. k \in Nat /\ Served <= Served
      BY <2>1, <2>2
    <3> QED
      BY <2>1, <2>2, <2>3, <3>1, Weaken
  <2> QED
    BY <1>1, <1>4, <1>5, <2>1, <2>3, <2>4 DEF ParserOK
<1>8. GreetingOK'
  BY <1>1, <1>3, <1>4, <1>5, <1>6 DEF GreetingOK
<1>9. ResponseOK'
  BY <1>4, <1>6 DEF ResponseOK
<1>10. LogOK'
  BY <1>1, <1>3, <1>4, <1>5, <1>6 DEF LogOK
<1> QED
  BY <1>7, <1>8, <1>9, <1>10 DEF SeenInv

-----------------------------------------------------------------------------
(* The invariant holds.                                                    *)

LEMMA DissectorInvInit ==
  ASSUME Init
  PROVE  DissectorInv
BY TrafficInit, SeenInit DEF DissectorInv

(* A parser that can follow could follow before.                           *)
LEMMA FollowedBefore ==
  ASSUME Followed', gap' # "mid" => gap # "mid", gap' = "none" => gap = "none",
         PlainGreeting' => PlainGreeting, Plain(down)' => Plain(down), PlainNames(lines)' => PlainNames(lines)
  PROVE  gap' # "mid" /\ Followed /\ (Exact \/ PlainNames(lines)) /\ (Exact \/ Plain(down))
<1>1. Followed <=> gap # "mid" /\ (Exact \/ (Plain(down) /\ PlainNames(lines)))
  BY DEF Followed, Exact, PlainNames, PlainName
<1>2. Followed' <=> gap' # "mid" /\ (Exact' \/ (Plain(down)' /\ PlainNames(lines)'))
  BY DEF Followed, Exact, PlainNames, PlainName
<1>3. Exact' => Exact
  BY DEF Exact
<1> QED
  BY <1>1, <1>2, <1>3

(* A line does not make up for an earlier one.                             *)
LEMMA NamesBefore ==
  ASSUME TrafficInv, NEW line \in Lines, Pop3Client(line), PlainNames(lines)'
  PROVE  PlainNames(lines)
<1>1. lines \in Seq(Lines) /\ lines' = Append(lines, line)
  BY DEF TrafficInv, LinesOK, Pop3Client
<1>2. OneMore(lines, line, lines') /\ Len(lines) \in Nat
  <2>1. OneMore(lines, line, lines')
    BY <1>1, LineMore
  <2> QED
    BY <1>1, <2>1
<1>3. ASSUME NEW k \in 1 .. Len(lines) PROVE PlainName(lines[k])
  <2>1. k \in 1 .. Len(lines') /\ lines'[k] = lines[k]
    BY <1>2 DEF OneMore
  <2>2. PlainName(lines'[k])
    BY <2>1 DEF PlainNames, PlainName
  <2> QED
    BY <2>1, <2>2
<1> QED
  BY <1>3 DEF PlainNames

(* Nor does a reply.                                                       *)
LEMMA DownBefore ==
  ASSUME NEW d \in Seq(Nat), NEW R, NEW e, Added(d, R, e), Plain(e)
  PROVE  Plain(d)
<1>1. /\ Len(d) \in Nat /\ Len(R) \in {3, 4} /\ Len(e) = Len(d) + Len(R) + 2
      /\ \A m \in 1 .. Len(d) : e[m] = d[m]
  BY DEF Added
<1>2. ASSUME NEW i \in 0 .. Len(d) - 4, Spells(d, i) PROVE FALSE
  <2>1. i \in 0 .. Len(e) - 4
    BY <1>1
  <2>2. ASSUME NEW m \in 1 .. 4 PROVE TO_UPPER(e[i + m]) = USER[m]
    <3>1. i + m \in 1 .. Len(d)
      BY <1>1
    <3> QED
      BY <1>1, <1>2, <3>1 DEF Spells
  <2> QED
    BY <2>1, <2>2 DEF Plain, Spells
<1> QED
  BY <1>2 DEF Plain

LEMMA DissectorInvNext ==
  ASSUME DissectorInv, [Next]_vars
  PROVE  DissectorInv'
<1>1. TrafficInv /\ (Followed => SeenInv) /\ gap \in {"none", "idle", "mid"}
  BY DEF DissectorInv, TrafficInv
<1>2. ASSUME NEW n, copy_w_origin(n) PROVE DissectorInv'
  <2>1. TrafficInv'
    BY <1>1, <1>2, TrafficUp
  <2>2. ASSUME Followed' PROVE SeenInv'
    <3>1. UNCHANGED <<lines, down>>
      BY <1>2 DEF copy_w_origin, envVars
    <3>2. (gap' # "mid" => gap # "mid") /\ (gap' = "none" => gap = "none")
      BY <1>1, <1>2, DissectTypes DEF copy_w_origin
    <3>3. gap' # "mid" /\ gap # "mid" /\ SeenInv /\ (Exact \/ PlainNames(lines))
      <4>1. PlainGreeting' = PlainGreeting /\ Plain(down)' = Plain(down) /\ PlainNames(lines)' = PlainNames(lines)
        BY <3>1 DEF PlainGreeting, Plain, PlainNames
      <4> QED
        BY <1>1, <2>2, <3>2, <4>1, FollowedBefore
    <3>4. CASE Watches(TRUE)
      BY <1>1, <1>2, <3>3, <3>4, SeenUpWatched
    <3>5. CASE ~Watches(TRUE)
      BY <1>1, <1>2, <3>3, <3>5, SeenUpUnwatched
    <3> QED
      BY <3>4, <3>5
  <2> QED
    BY <2>1, <2>2 DEF DissectorInv
<1>3. ASSUME NEW n, copy_w_client(n) PROVE DissectorInv'
  <2>1. TrafficInv'
    BY <1>1, <1>3, TrafficDown
  <2>2. ASSUME Followed' PROVE SeenInv'
    <3>1. UNCHANGED <<lines, down>>
      BY <1>3 DEF copy_w_client, envVars
    <3>2. (gap' # "mid" => gap # "mid") /\ (gap' = "none" => gap = "none")
      BY <1>1, <1>3, DissectTypes DEF copy_w_client
    <3>3. gap' # "mid" /\ gap # "mid" /\ SeenInv /\ (Exact \/ Plain(down))
      <4>1. PlainGreeting' = PlainGreeting /\ Plain(down)' = Plain(down) /\ PlainNames(lines)' = PlainNames(lines)
        BY <3>1 DEF PlainGreeting, Plain, PlainNames
      <4> QED
        BY <1>1, <2>2, <3>2, <4>1, FollowedBefore
    <3>4. CASE Watches(FALSE)
      <4>1. dp.state = "wait_pop" \/ dp.state = "response"
        BY <3>4 DEF Watches
      <4>2. CASE dp.state = "wait_pop"
        BY <1>1, <1>3, <3>3, <3>4, <4>2, SeenGreeting
      <4>3. CASE dp.state = "response"
        BY <1>1, <1>3, <3>3, <3>4, <4>3, SeenReply
      <4> QED
        BY <4>1, <4>2, <4>3
    <3>5. CASE ~Watches(FALSE)
      BY <1>1, <1>3, <3>3, <3>5, SeenDownUnwatched
    <3> QED
      BY <3>4, <3>5
  <2> QED
    BY <2>1, <2>2 DEF DissectorInv
<1>4. ASSUME socksv5_toggle_disector PROVE DissectorInv'
  <2>1. UNCHANGED <<gap, lines, down>>
    BY <1>4 DEF socksv5_toggle_disector, envVars
  <2>2. Followed' = Followed
    BY <2>1 DEF Followed, PlainGreeting, Plain
  <2> QED
    BY <1>1, <1>4, <2>2, TrafficToggle, SeenToggle DEF DissectorInv
<1>5. ASSUME NEW line \in Lines, Pop3Client(line) PROVE DissectorInv'
  <2>1. UNCHANGED <<gap, down>>
    BY <1>5 DEF Pop3Client
  <2>2. ASSUME Followed' PROVE Followed
    <3>1. PlainNames(lines)' => PlainNames(lines)
      BY <1>1, <1>5, NamesBefore
    <3>2. PlainGreeting' = PlainGreeting /\ Plain(down)' = Plain(down)
      BY <2>1 DEF PlainGreeting, Plain
    <3> QED
      BY <2>1, <2>2, <3>1, <3>2, FollowedBefore
  <2> QED
    BY <1>1, <1>5, <2>2, TrafficClient, SeenClient DEF DissectorInv
<1>6. ASSUME NEW positive \in BOOLEAN, Pop3Server(positive) PROVE DissectorInv'
  <2>1. UNCHANGED <<gap, lines>>
    BY <1>6 DEF Pop3Server
  <2>2. ASSUME Followed' PROVE Followed
    <3>1. Added(down, Reply(positive), down') /\ (PlainGreeting' => PlainGreeting)
      BY <1>1, <1>6, ServerAdds
    <3>2. Plain(down') => Plain(down)
      <4>1. down \in Seq(Nat)
        BY <1>1 DEF TrafficInv, DownOK
      <4> QED
        BY <3>1, <4>1, DownBefore
    <3>3. PlainNames(lines)' = PlainNames(lines)
      BY <2>1 DEF PlainNames
    <3>4. Plain(down)' => Plain(down)
      BY <3>2 DEF Plain
    <3> QED
      BY <2>1, <2>2, <3>1, <3>3, <3>4, FollowedBefore
  <2> QED
    BY <1>1, <1>6, <2>2, TrafficServer, SeenServer DEF DissectorInv
<1>7. ASSUME UNCHANGED vars PROVE DissectorInv'
  <2>1. UNCHANGED <<eager, lines, replied, accepted, up, upSent, down, downSent, dp, logged, gap>>
    BY <1>7 DEF vars, envVars
  <2>2. TrafficInv' = TrafficInv
    BY <2>1 DEF TrafficInv, LinesOK, TurnOK, AcceptedOK, DownOK
  <2>3. Exact' = Exact /\ Served' = Served /\ Given' = Given /\ Pop3' = Pop3
    BY <2>1 DEF Exact, PlainGreeting, Served, Given, Pop3
  <2>4. SeenInv => SeenInv'
    BY <2>1, <2>3 DEF SeenInv, ParserOK, GreetingOK, ResponseOK, Awaited, LogOK
  <2>5. Followed' = Followed
    BY <2>1 DEF Followed, PlainGreeting, Plain
  <2> QED
    BY <1>1, <2>2, <2>4, <2>5 DEF DissectorInv
<1> QED
  BY <1>2, <1>3, <1>4, <1>5, <1>6, <1>7 DEF Next

(* The traffic is laid out as the lines say, and as long as the parser can *)
(* follow it is where those bytes put it.                                  *)
THEOREM DissectorInvariant == Spec => []DissectorInv
<1>1. Init => DissectorInv
  BY DissectorInvInit
<1>2. DissectorInv /\ [Next]_vars => DissectorInv'
  BY DissectorInvNext
<1> QED
  BY <1>1, <1>2, PTL DEF Spec

-----------------------------------------------------------------------------
(* What follows.                                                           *)

(* What should be in the log: at most one pair is ever accepted.           *)
LEMMA ExpectedIs ==
  ASSUME TrafficInv
  PROVE  /\ accepted = <<>> \/ ~Pop3 => Expected = <<>>
         /\ accepted # <<>> /\ Pop3 => Expected = <<AsLogged(accepted[1])>>
<1>1. CASE ~Pop3
  BY <1>1 DEF Expected
<1>2. CASE Pop3 /\ accepted = <<>>
  <2>1. Expected = [k \in DOMAIN accepted |-> AsLogged(accepted[k])]
    BY <1>2 DEF Expected
  <2>2. DOMAIN accepted = 1 .. 0
    BY <1>2
  <2>3. Expected \in Seq({AsLogged(accepted[k]) : k \in DOMAIN accepted}) /\ Len(Expected) = 0
    BY <2>1, <2>2
  <2> QED
    BY <1>2, <2>3
<1>3. CASE Pop3 /\ accepted # <<>>
  <2> DEFINE e == AsLogged(accepted[1])
  <2>1. DOMAIN accepted = 1 .. 1
    BY <1>3 DEF TrafficInv, AcceptedOK
  <2>2. Expected = [k \in 1 .. 1 |-> AsLogged(accepted[k])]
    BY <1>3, <2>1 DEF Expected
  <2>3. Expected = [k \in 1 .. 1 |-> e]
    BY <2>2
  <2> HIDE DEF e
  <2>4. Expected = <<e>>
    BY <2>3
  <2> QED
    BY <1>3, <2>4 DEF e
<1> QED
  BY <1>1, <1>2, <1>3

LEMMA InvLogged ==
  ASSUME DissectorInv
  PROVE  LoggedWereAccepted
<1>1. SUFFICES ASSUME Followed
               PROVE  /\ Range(logged) \subseteq (IF eager THEN Given ELSE Range(Expected))
                      /\ ~eager => Len(logged) <= Len(Expected)
  BY DEF LoggedWereAccepted
<1>2. TrafficInv /\ LogOK
  BY <1>1 DEF DissectorInv, SeenInv
<1>3. CASE eager
  <2>1. logged \in Seq(Given)
    BY <1>2, <1>3 DEF LogOK
  <2>2. ASSUME NEW x \in Range(logged) PROVE x \in Given
    <3>1. PICK i \in DOMAIN logged : x = logged[i]
      BY DEF Range
    <3> QED
      BY <2>1, <3>1
  <2> QED
    BY <1>3, <2>2
<1>4. CASE ~eager
  <2>1. \/ logged = <<>>
        \/ logged = Expected /\ logged = <<AsLogged(accepted[1])>>
    BY <1>2, <1>4, ExpectedIs DEF LogOK
  <2>2. CASE logged = <<>>
    <3>1. Range(logged) = {} /\ Len(logged) = 0
      BY <2>2 DEF Range
    <3>2. Expected = <<>> \/ Expected = <<AsLogged(accepted[1])>>
      BY <1>2, ExpectedIs
    <3>3. Len(Expected) >= 0
      BY <3>2
    <3> QED
      BY <1>4, <3>1, <3>3
  <2>3. CASE logged = Expected /\ logged = <<AsLogged(accepted[1])>>
    <3>1. Len(logged) = 1 /\ Len(Expected) = 1
      BY <2>3
    <3> QED
      BY <1>4, <2>3, <3>1
  <2> QED
    BY <2>1, <2>2, <2>3
<1> QED
  BY <1>3, <1>4

LEMMA InvAccepted ==
  ASSUME DissectorInv
  PROVE  AcceptedAreLogged
<1>1. SUFFICES ASSUME ~eager, gap = "none", PlainGreeting, downSent = Len(down)
               PROVE  logged = Expected
  BY DEF AcceptedAreLogged
<1>2. TrafficInv /\ SeenInv /\ LogOK /\ ResponseOK /\ AcceptedOK /\ Exact
  <2>1. Followed
    BY <1>1 DEF Followed
  <2> QED
    BY <1>1, <2>1 DEF DissectorInv, SeenInv, TrafficInv, Exact
<1>3. CASE accepted # <<>> /\ Pop3
  <2>1. logged # <<>>
    <3>1. SUFFICES ASSUME logged = <<>> PROVE FALSE
      OBVIOUS
    <3>2. dp.state = "response"
      BY <1>1, <1>2, <1>3, <3>1 DEF LogOK
    <3>3. replied < Len(lines) /\ replied = Len(lines)
      BY <1>1, <1>2, <1>3, <3>2 DEF ResponseOK, AcceptedOK
    <3>4. replied \in Nat
      BY <1>2 DEF TrafficInv, TurnOK
    <3> QED
      BY <3>3, <3>4
  <2>2. logged = <<AsLogged(accepted[1])>>
    BY <1>1, <1>2, <2>1 DEF LogOK
  <2>3. Expected = <<AsLogged(accepted[1])>>
    BY <1>2, <1>3, ExpectedIs
  <2> QED
    BY <2>2, <2>3
<1>4. CASE ~(accepted # <<>> /\ Pop3)
  <2>1. logged = <<>>
    BY <1>1, <1>2, <1>4 DEF LogOK
  <2>2. Expected = <<>>
    BY <1>2, <1>4, ExpectedIs
  <2> QED
    BY <2>1, <2>2
<1> QED
  BY <1>3, <1>4

(* Whatever way copy_w cuts the two streams, and whenever the monitor      *)
(* turns the switch, as long as it can follow the dissector logs only what *)
(* the client gave, and if the client waits for replies only what the      *)
(* origin accepted, once.                                                  *)
THEOREM LogsOnlyAccepted == Spec => []LoggedWereAccepted
<1>1. DissectorInv => LoggedWereAccepted
  BY InvLogged
<1> QED
  BY <1>1, DissectorInvariant, PTL

(* With the switch on all along the dissector misses none of a client that *)
(* waits for replies: once all is sent, the log has what was accepted.     *)
THEOREM LogsAllAccepted == Spec => []AcceptedAreLogged
<1>1. DissectorInv => AcceptedAreLogged
  BY InvAccepted
<1> QED
  BY <1>1, DissectorInvariant, PTL
=============================================================================
