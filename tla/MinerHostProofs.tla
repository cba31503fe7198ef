--------------------------- MODULE MinerHostProofs ---------------------------
(***************************************************************************)
(* Proofs about MinerHost for any window and any limits of the watchdog.   *)
(***************************************************************************)
EXTENDS MinerHost, WellFoundedInduction, TLAPS

\* STATE_FILE is appended to, so its oldest entries come first.
OldestFirst(ages) == \A i, j \in DOMAIN ages : i <= j => ages[i] >= ages[j]

OrderInv == OldestFirst(log) /\ OldestFirst(asked)

\* Of the entries of the file at most the last MaxReboots are recent.
FullInv == \A i \in DOMAIN log : i <= Len(log) - MaxReboots => log[i] >= Window

\* The last entry but for that of a reboot still to be asked for.
Done == IF watchdog = "asking" THEN Len(log) - 1 ELSE Len(log)

\* Every reboot asked for has an entry of its own that is no older: the last one
\* the last entry of a reboot done, and so on backwards.
RecordedInv ==
    /\ \A j \in 0..(Len(asked) - 1) :
         j < Done /\ log[Done - j] <= asked[Len(asked) - j]
    /\ \A i \in DOMAIN asked : asked[i] < Window

\* A watchdog about to reboot has just written its entry, and has not slept since.
AskingInv ==
    watchdog = "asking" =>
        /\ host = "up" /\ wait = 0
        /\ Len(log) > 0 /\ log[Len(log)] = 0

CounterInv ==
    /\ watchdog = "down" => failures = 0
    /\ host = "up" /\ watchdog = "up" => failures < FailuresBeforeReboot

IInv == TypeOK /\ OrderInv /\ FullInv /\ RecordedInv /\ AskingInv /\ CounterInv

----------------------------------------------------------------------------
(* Pruning                                                                 *)

\* A set of numbers has a least one.
LEMMA Least ==
    ASSUME NEW T, T \subseteq Nat, T # {}
    PROVE  \E x \in T : \A n \in T : x <= n
<1> DEFINE R == {ss \in Nat \X Nat : ss[1] < ss[2]}
<1>1. IsWellFoundedOn(R, Nat)
  BY NatLessThanWellFounded, Zenon DEF OpToRel
<1>2. PICK x \in T : \A y \in T : <<y, x>> \notin R
  <2> HIDE DEF R
  <2>1. QED
    BY <1>1, WFMin, Zenon
<1>3. \A y \in T : ~(y < x)
  BY <1>2
<1>4. QED
  BY <1>3

\* What awk has printed of s when it has read n lines, given f for fewer.
Printed(s, f, n) ==
    IF n = 0 THEN <<>>
    ELSE IF s[n] < Window THEN Append(f[n - 1], s[n]) ELSE f[n - 1]

\* f says so for up to m lines.
Prints(s, f, m) == f = [n \in 0..m |-> Printed(s, f, n)]

LEMMA PrintsLines ==
    ASSUME NEW s, NEW f, NEW m \in Nat
    PROVE  /\ Prints(s, f, m) => \A n \in 0..m : f[n] = Printed(s, f, n)
           /\ DOMAIN f = 0..m /\ f = [n \in 0..m |-> f[n]]
                /\ (\A n \in 0..m : f[n] = Printed(s, f, n)) => Prints(s, f, m)
<1>1. ASSUME Prints(s, f, m), NEW n \in 0..m PROVE f[n] = Printed(s, f, n)
  <2> DEFINE g == [i \in 0..m |-> Printed(s, f, i)]
  <2>1. f = g
    BY <1>1 DEF Prints
  <2>2. g[n] = Printed(s, f, n)
    OBVIOUS
  <2> HIDE DEF g
  <2>3. QED
    BY <2>1, <2>2
<1>2. ASSUME f = [n \in 0..m |-> f[n]], \A n \in 0..m : f[n] = Printed(s, f, n)
      PROVE  Prints(s, f, m)
  <2>1. [n \in 0..m |-> f[n]] = [n \in 0..m |-> Printed(s, f, n)]
    BY <1>2
  <2>2. QED
    BY <1>2, <2>1, Zenon DEF Prints
<1>3. QED
  BY <1>1, <1>2

\* The recursion is well founded: there is such a function for every file.
LEMMA PrintsExists ==
    ASSUME NEW s \in Seq(Nat), NEW k \in Nat
    PROVE  \E f : Prints(s, f, k)
<1> DEFINE Undefined == {m \in Nat : \A f : ~Prints(s, f, m)}
<1> SUFFICES ASSUME Undefined # {} PROVE FALSE
  OBVIOUS
<1>1. PICK x \in Undefined : \A m \in Undefined : x <= m
  <2>1. Undefined \subseteq Nat
    OBVIOUS
  <2> HIDE DEF Undefined
  <2>2. QED
    BY <2>1, Least
<1>2. x # 0
  <2> DEFINE f == [n \in 0..0 |-> <<>>]
  <2>1. DOMAIN f = 0..0 /\ f = [n \in 0..0 |-> f[n]]
    OBVIOUS
  <2>2. \A n \in 0..0 : f[n] = Printed(s, f, n)
    BY DEF Printed
  <2> HIDE DEF f
  <2>3. Prints(s, f, 0)
    BY <2>1, <2>2, PrintsLines
  <2>4. QED
    BY <1>1, <2>3
<1>3. x \in Nat /\ x - 1 \in Nat
  BY <1>1, <1>2
<1>4. PICK f : Prints(s, f, x - 1)
  <2>1. ~(x <= x - 1)
    BY <1>3
  <2>2. x - 1 \notin Undefined
    BY <1>1, <2>1
  <2>3. QED
    BY <1>3, <2>2
<1> DEFINE g == [n \in 0..x |-> IF n < x THEN f[n] ELSE Printed(s, f, x)]
<1>5. /\ \A n \in 0..(x - 1) : g[n] = f[n]
      /\ g[x] = Printed(s, f, x)
      /\ g = [n \in 0..x |-> g[n]]
      /\ DOMAIN g = 0..x
  BY <1>3
<1> HIDE DEF g
<1>6. \A n \in 0..(x - 1) : f[n] = Printed(s, f, n)
  BY <1>3, <1>4, PrintsLines
<1>7. \A n \in 0..x : Printed(s, g, n) = Printed(s, f, n)
  <2>1. \A n \in 0..x : n # 0 => n - 1 \in 0..(x - 1)
    BY <1>3
  <2>2. QED
    BY <1>5, <2>1 DEF Printed
<1>8. \A n \in 0..x : g[n] = Printed(s, g, n)
  <2>1. \A n \in 0..x : n \in 0..(x - 1) \/ n = x
    BY <1>3
  <2>2. QED
    BY <1>5, <1>6, <1>7, <2>1
<1>9. Prints(s, g, x)
  BY <1>3, <1>5, <1>8, PrintsLines
<1>10. QED
  BY <1>1, <1>9

LEMMA YoungerDef ==
    ASSUME NEW s \in Seq(Nat)
    PROVE  \E f :
             /\ f[0] = <<>>
             /\ \A n \in 1..Len(s) :
                  f[n] = IF s[n] < Window THEN Append(f[n - 1], s[n]) ELSE f[n - 1]
             /\ Younger(s) = f[Len(s)]
<1> DEFINE f == CHOOSE h : Prints(s, h, Len(s))
<1>1. Len(s) \in Nat
  OBVIOUS
<1>2. Prints(s, f, Len(s))
  <2>1. \E h : Prints(s, h, Len(s))
    BY <1>1, PrintsExists
  <2>2. QED
    BY <2>1, Zenon
<1>3. Younger(s) = f[Len(s)]
  BY Zenon DEF Younger, Prints, Printed
<1> HIDE DEF f
<1>4. \A n \in 0..Len(s) : f[n] = Printed(s, f, n)
  BY <1>1, <1>2, PrintsLines
<1>5. f[0] = <<>>
  BY <1>1, <1>4 DEF Printed
<1>6. \A n \in 1..Len(s) :
        f[n] = IF s[n] < Window THEN Append(f[n - 1], s[n]) ELSE f[n - 1]
  BY <1>1, <1>4 DEF Printed
<1>7. QED
  BY <1>3, <1>5, <1>6

\* What Append does to a sequence of numbers.
LEMMA Appended ==
    ASSUME NEW q \in Seq(Nat), NEW x \in Nat
    PROVE  /\ Append(q, x) \in Seq(Nat) /\ Len(Append(q, x)) = Len(q) + 1
           /\ \A i \in 1..Len(q) : Append(q, x)[i] = q[i]
           /\ Append(q, x)[Len(q) + 1] = x
<1>1. Append(q, x) \in Seq(Nat) /\ Len(Append(q, x)) = Len(q) + 1
  OBVIOUS
<1>2. \A i \in 1..Len(q) : Append(q, x)[i] = q[i]
  OBVIOUS
<1>3. Append(q, x)[Len(q) + 1] = x
  OBVIOUS
<1>4. QED
  BY <1>1, <1>2, <1>3

\* Of a file with the oldest entries first pruning removes a prefix.
LEMMA YoungerSuffix ==
    ASSUME NEW s \in Seq(Nat), OldestFirst(s)
    PROVE  \E m \in 0..Len(s) :
             /\ \A i \in 1..Len(s) : i <= m <=> s[i] >= Window
             /\ Younger(s) \in Seq(Nat)
             /\ Len(Younger(s)) = Len(s) - m
             /\ \A i \in 1..(Len(s) - m) : Younger(s)[i] = s[m + i]
<1> USE WatchdogAssumption
<1>0. Len(s) \in Nat /\ \A n \in 1..Len(s) : s[n] \in Nat
  OBVIOUS
<1>1. PICK m \in 0..Len(s) : \A i \in 1..Len(s) : i <= m <=> s[i] >= Window
  <2> DEFINE Young == {i \in 1..Len(s) : s[i] < Window}
  <2>1. CASE Young = {}
    <3>1. \A i \in 1..Len(s) : s[i] >= Window
      BY <2>1
    <3>2. QED
      BY <3>1
  <2>2. CASE Young # {}
    <3>1. PICK x \in Young : \A i \in Young : x <= i
      <4>1. Young \subseteq Nat
        OBVIOUS
      <4> HIDE DEF Young
      <4>2. QED
        BY <2>2, <4>1, Least
    <3>2. x - 1 \in 0..Len(s)
      BY <3>1
    <3>3. \A i \in 1..Len(s) : i <= x - 1 <=> s[i] >= Window
      BY <3>1 DEF OldestFirst
    <3>4. QED
      BY <3>2, <3>3
  <2>3. QED
    BY <2>1, <2>2
<1>3. PICK kept :
        /\ kept[0] = <<>>
        /\ \A n \in 1..Len(s) :
             kept[n] = IF s[n] < Window THEN Append(kept[n - 1], s[n]) ELSE kept[n - 1]
        /\ Younger(s) = kept[Len(s)]
  BY YoungerDef
<1> DEFINE Suffix(n) == /\ kept[n] \in Seq(Nat)
                        /\ Len(kept[n]) = IF n <= m THEN 0 ELSE n - m
                        /\ \A i \in 1..(n - m) : kept[n][i] = s[m + i]
           Wrong == {n \in 0..Len(s) : ~Suffix(n)}
<1>4. Wrong = {}
  <2> SUFFICES ASSUME Wrong # {} PROVE FALSE
    OBVIOUS
  <2>1. PICK x \in Wrong : \A n \in Wrong : x <= n
    <3>1. Wrong \subseteq Nat
      OBVIOUS
    <3> HIDE DEF Wrong
    <3>2. QED
      BY <3>1, Least
  <2>2. x # 0
    <3>1. Suffix(0)
      BY <1>3
    <3>2. QED
      BY <2>1, <3>1
  <2>3. x \in 1..Len(s) /\ x - 1 \in 0..Len(s) /\ Suffix(x - 1)
    BY <2>1, <2>2
  <2>4. s[x] \in Nat
    BY <1>0, <2>3
  <2>5. CASE s[x] < Window
    <3>1. ~(x <= m)
      BY <1>1, <2>3, <2>4, <2>5
    <3>2. kept[x] = Append(kept[x - 1], s[x])
      BY <1>3, <2>3, <2>5
    <3>3. kept[x - 1] \in Seq(Nat) /\ Len(kept[x - 1]) = (x - 1) - m
      BY <2>3, <3>1
    <3>4. /\ kept[x] \in Seq(Nat)
          /\ Len(kept[x]) = x - m
          /\ \A i \in 1..(x - 1 - m) : kept[x][i] = kept[x - 1][i]
          /\ kept[x][x - m] = s[x]
      <4> DEFINE old == kept[x - 1]
                 next == s[x]
      <4>0. old \in Seq(Nat) /\ next \in Nat
        BY <2>4, <3>3
      <4>1. /\ Append(old, next) \in Seq(Nat) /\ Len(Append(old, next)) = Len(old) + 1
            /\ \A i \in 1..Len(old) : Append(old, next)[i] = old[i]
            /\ Append(old, next)[Len(old) + 1] = next
        <5> HIDE DEF old, next
        <5>1. QED
          BY <4>0, Appended
      <4>2. Len(old) = x - 1 - m /\ Len(old) + 1 = x - m
        BY <2>3, <3>3
      <4>3. kept[x] = Append(old, next) /\ old = kept[x - 1] /\ next = s[x]
        BY <3>2
      <4> HIDE DEF old, next
      <4>4. QED
        BY <4>1, <4>2, <4>3
    <3>5. \A i \in 1..(x - 1 - m) : kept[x - 1][i] = s[m + i]
      BY <2>3
    <3>6. \A i \in 1..(x - m) : i \in 1..(x - 1 - m) \/ (i = x - m /\ m + i = x)
      BY <2>3, <3>1
    <3>7. \A i \in 1..(x - m) : kept[x][i] = s[m + i]
      BY <3>4, <3>5, <3>6
    <3>8. Suffix(x)
      BY <3>1, <3>4, <3>7
    <3>9. QED
      BY <2>1, <3>8
  <2>6. CASE ~(s[x] < Window)
    <3>1. x <= m
      BY <1>1, <2>3, <2>4, <2>6
    <3>2. kept[x] = kept[x - 1]
      BY <1>3, <2>3, <2>6
    <3>3. Suffix(x)
      BY <2>3, <3>1, <3>2
    <3>4. QED
      BY <2>1, <3>3
  <2>7. QED
    BY <2>5, <2>6
<1>5. Suffix(Len(s))
  <2>1. Len(s) \in 0..Len(s)
    BY <1>0
  <2> HIDE DEF Suffix
  <2>2. QED
    BY <1>4, <2>1
<1>6. QED
  BY <1>1, <1>3, <1>5

\* A pruned log holds no more than MaxReboots entries, all of them recent, and
\* among them those of the reboots asked for.
LEMMA PrunedLog ==
    ASSUME TypeOK, OrderInv, FullInv, RecordedInv, watchdog # "asking"
    PROVE  /\ Younger(log) \in Seq(0..Window)
           /\ OldestFirst(Younger(log))
           /\ Len(Younger(log)) <= MaxReboots
           /\ \A j \in 0..(Len(asked) - 1) :
                /\ j < Len(Younger(log))
                /\ Younger(log)[Len(Younger(log)) - j] <= asked[Len(asked) - j]
<1> USE WatchdogAssumption
<1>0. /\ log \in Seq(Nat) /\ Len(log) \in Nat /\ \A i \in 1..Len(log) : log[i] \in 0..Window
      /\ Len(asked) \in Nat /\ \A i \in 1..Len(asked) : asked[i] \in 0..Window
  BY DEF TypeOK
<1>1. PICK m \in 0..Len(log) :
        /\ \A i \in 1..Len(log) : i <= m <=> log[i] >= Window
        /\ Younger(log) \in Seq(Nat)
        /\ Len(Younger(log)) = Len(log) - m
        /\ \A i \in 1..(Len(log) - m) : Younger(log)[i] = log[m + i]
  BY <1>0, YoungerSuffix DEF OrderInv
<1> DEFINE Y == Younger(log)
<1>2. /\ Y \in Seq(Nat) /\ Len(Y) = Len(log) - m
      /\ \A i \in 1..Len(Y) : Y[i] = log[m + i] /\ m + i \in 1..Len(log)
  BY <1>0, <1>1
<1> HIDE DEF Y
<1>3. Y \in Seq(0..Window)
  <2>1. \A i \in 1..Len(Y) : Y[i] \in 0..Window
    BY <1>0, <1>2
  <2>2. QED
    BY <1>2, <2>1
<1>4. OldestFirst(Y)
  <2>1. \A i, j \in 1..Len(log) : i <= j => log[i] >= log[j]
    BY <1>0 DEF OrderInv, OldestFirst
  <2>2. DOMAIN Y = 1..Len(Y)
    BY <1>2
  <2>3. \A i, j \in 1..Len(Y) : i <= j => m + i <= m + j
    OBVIOUS
  <2>4. QED
    BY <1>2, <2>1, <2>2, <2>3 DEF OldestFirst
<1>5. Len(Y) <= MaxReboots
  <2> SUFFICES ASSUME Len(Y) > MaxReboots PROVE FALSE
    BY <1>0, <1>2
  <2>1. Len(log) - MaxReboots \in 1..Len(log) /\ ~(Len(log) - MaxReboots <= m)
    BY <1>0, <1>2
  <2>2. log[Len(log) - MaxReboots] >= Window
    BY <1>0, <2>1 DEF FullInv
  <2>3. QED
    BY <1>1, <2>1, <2>2
<1>6. ASSUME NEW j \in 0..(Len(asked) - 1)
      PROVE  j < Len(Y) /\ Y[Len(Y) - j] <= asked[Len(asked) - j]
  <2>1. j < Len(log) /\ log[Len(log) - j] <= asked[Len(asked) - j]
    BY DEF RecordedInv, Done
  <2>2. Len(asked) - j \in 1..Len(asked) /\ Len(log) - j \in 1..Len(log)
    BY <1>0, <2>1
  <2> DEFINE p == Len(log) - j
             q == Len(asked) - j
  <2>3. p \in 1..Len(log) /\ q \in 1..Len(asked) /\ log[p] <= asked[q]
    BY <2>1, <2>2
  <2>4. p = Len(log) - j
    OBVIOUS
  <2> HIDE DEF p
  <2>5. log[p] < Window
    <3> HIDE DEF q
    <3>1. asked[q] < Window
      BY <1>0, <2>3 DEF RecordedInv
    <3>2. QED
      BY <1>0, <2>3, <3>1
  <2>6. ~(p <= m)
    BY <1>0, <1>1, <2>3, <2>5
  <2>7. Len(Y) - j \in 1..Len(Y) /\ m + (Len(Y) - j) = p
    BY <1>0, <1>2, <2>3, <2>4, <2>6
  <2>8. Y[Len(Y) - j] = log[p] /\ j < Len(Y)
    <3>1. Len(Y) \in Nat
      BY <1>2
    <3>2. j < Len(Y)
      BY <2>7, <3>1
    <3>3. Y[Len(Y) - j] = log[m + (Len(Y) - j)]
      BY <1>2, <2>7
    <3>4. QED
      BY <2>7, <3>2, <3>3
  <2>9. QED
    BY <2>3, <2>8
<1>7. QED
  BY <1>3, <1>4, <1>5, <1>6 DEF Y

\* Time keeps the order of the entries and what they are compared with.
LEMMA Aged ==
    ASSUME NEW s \in Seq(0..Window), OldestFirst(s)
    PROVE  /\ Older(s) \in Seq(0..Window)
           /\ Len(Older(s)) = Len(s)
           /\ OldestFirst(Older(s))
           /\ \A i \in 1..Len(s) :
                Older(s)[i] = IF s[i] < Window THEN s[i] + 1 ELSE Window
<1> USE WatchdogAssumption
<1>1. /\ DOMAIN s = 1..Len(s) /\ Len(s) \in Nat
      /\ \A i \in 1..Len(s) : s[i] \in 0..Window
  OBVIOUS
<1>2. /\ Older(s) \in Seq(0..Window) /\ Len(Older(s)) = Len(s)
      /\ \A i \in 1..Len(s) :
           Older(s)[i] = IF s[i] < Window THEN s[i] + 1 ELSE Window
  BY <1>1 DEF Older
<1>3. \A i, j \in 1..Len(s) : i <= j => s[i] >= s[j]
  BY <1>1 DEF OldestFirst
<1>4. ASSUME NEW i \in 1..Len(s), NEW j \in 1..Len(s), i <= j
      PROVE  Older(s)[i] >= Older(s)[j]
  <2> DEFINE a == s[i]
             b == s[j]
  <2>1. a \in 0..Window /\ b \in 0..Window /\ a >= b
    BY <1>1, <1>3, <1>4
  <2>2. /\ Older(s)[i] = IF a < Window THEN a + 1 ELSE Window
        /\ Older(s)[j] = IF b < Window THEN b + 1 ELSE Window
    BY <1>2
  <2> HIDE DEF a, b
  <2>3. QED
    BY <2>1, <2>2
<1>5. OldestFirst(Older(s))
  <2>1. DOMAIN Older(s) = 1..Len(s)
    <3> DEFINE o == Older(s)
    <3>1. o \in Seq(0..Window) /\ Len(o) = Len(s)
      BY <1>2
    <3> HIDE DEF o
    <3>2. DOMAIN o = 1..Len(s)
      BY <3>1
    <3>3. QED
      BY <3>2 DEF o
  <2>2. QED
    BY <1>4, <2>1 DEF OldestFirst
<1>6. QED
  BY <1>2, <1>5

----------------------------------------------------------------------------
(* The steps                                                               *)

LogInv == OrderInv /\ FullInv /\ RecordedInv

LEMMA TickKeeps == ASSUME IInv, Tick PROVE IInv'
<1> USE WatchdogAssumption
<1>1. /\ watchdog # "asking" /\ watchdog' = watchdog /\ failures' = failures
      /\ host' = host /\ chip' = chip /\ miner' = miner /\ latched' = latched
      /\ wait' \in 0..Window
      /\ log' = Older(log) /\ asked' = Younger(Older(asked))
  BY DEF Tick, IInv, TypeOK, AskingInv, minerVars
<1>2. /\ log \in Seq(0..Window) /\ asked \in Seq(0..Window)
      /\ OldestFirst(log) /\ OldestFirst(asked)
      /\ Len(log) \in Nat /\ Len(asked) \in Nat
      /\ \A i \in 1..Len(log) : log[i] \in 0..Window
      /\ \A i \in 1..Len(asked) : asked[i] \in 0..Window
  BY DEF IInv, TypeOK, OrderInv
<1>3. /\ log' \in Seq(0..Window) /\ Len(log') = Len(log) /\ OldestFirst(log')
      /\ \A i \in 1..Len(log) : log'[i] = IF log[i] < Window THEN log[i] + 1 ELSE Window
  BY <1>1, <1>2, Aged
<1> DEFINE O == Older(asked)
<1>4. /\ O \in Seq(0..Window) /\ Len(O) = Len(asked) /\ OldestFirst(O)
      /\ \A i \in 1..Len(asked) :
           O[i] = IF asked[i] < Window THEN asked[i] + 1 ELSE Window
  BY <1>2, Aged
<1>5. asked' = Younger(O)
  BY <1>1
<1> HIDE DEF O
<1>6. PICK m \in 0..Len(O) :
        /\ \A i \in 1..Len(O) : i <= m <=> O[i] >= Window
        /\ Younger(O) \in Seq(Nat)
        /\ Len(Younger(O)) = Len(O) - m
        /\ \A i \in 1..(Len(O) - m) : Younger(O)[i] = O[m + i]
  <2>1. O \in Seq(Nat)
    BY <1>4
  <2>2. QED
    BY <1>4, <2>1, YoungerSuffix
<1>7. /\ asked' \in Seq(Nat) /\ Len(asked') = Len(asked) - m
      /\ DOMAIN asked' = 1..Len(asked')
      /\ \A i \in 1..Len(asked') :
           /\ m + i \in 1..Len(asked)
           /\ asked'[i] = O[m + i] /\ O[m + i] \in 0..Window /\ O[m + i] < Window
  <2>1. /\ asked' \in Seq(Nat) /\ Len(asked') = Len(asked) - m
        /\ DOMAIN asked' = 1..Len(asked')
    <3>1. asked' \in Seq(Nat)
      BY <1>5, <1>6
    <3>2. Len(asked') = Len(asked) - m
      BY <1>4, <1>5, <1>6
    <3>3. DOMAIN asked' = 1..Len(asked')
      BY <3>1
    <3>4. QED
      BY <3>1, <3>2, <3>3
  <2>2. ASSUME NEW i \in 1..Len(asked')
        PROVE  /\ m + i \in 1..Len(asked)
               /\ asked'[i] = O[m + i] /\ O[m + i] \in 0..Window /\ O[m + i] < Window
    <3>1. m + i \in 1..Len(asked) /\ i \in 1..(Len(O) - m) /\ ~(m + i <= m)
      BY <1>2, <1>4, <1>6, <2>1
    <3>2. asked'[i] = O[m + i]
      BY <1>5, <1>6, <3>1
    <3>3. O[m + i] \in 0..Window /\ ~(O[m + i] >= Window)
      <4> DEFINE k == m + i
      <4>1. k \in 1..Len(O) /\ ~(k <= m)
        BY <1>4, <3>1
      <4> HIDE DEF k
      <4>2. O[k] \in 0..Window
        BY <1>4, <4>1
      <4>3. ~(O[k] >= Window)
        BY <1>6, <4>1
      <4>4. QED
        BY <4>2, <4>3 DEF k
    <3>4. QED
      BY <3>1, <3>2, <3>3
  <2>3. QED
    BY <2>1, <2>2
<1>8. asked' \in Seq(0..Window)
  <2>1. \A i \in 1..Len(asked') : asked'[i] \in 0..Window
    BY <1>7
  <2>2. QED
    BY <1>7, <2>1
<1>9. OrderInv'
  <2>1. OldestFirst(asked')
    <3>1. \A i, j \in 1..Len(asked) : i <= j => O[i] >= O[j]
      BY <1>4 DEF OldestFirst
    <3>2. \A i, j \in 1..Len(asked') : i <= j => m + i <= m + j
      OBVIOUS
    <3>3. QED
      BY <1>7, <3>1, <3>2 DEF OldestFirst
  <2>2. QED
    BY <1>3, <2>1 DEF OrderInv
<1>10. FullInv'
  <2>1. \A i \in 1..Len(log) : i <= Len(log) - MaxReboots => log[i] >= Window
    BY <1>2 DEF IInv, FullInv
  <2>2. DOMAIN log' = 1..Len(log)
    BY <1>3
  <2>3. \A i \in 1..Len(log) : log[i] >= Window => log'[i] >= Window
    BY <1>2, <1>3
  <2>4. QED
    BY <1>3, <2>1, <2>2, <2>3 DEF FullInv
<1>11. RecordedInv'
  <2>1. ASSUME NEW j \in 0..(Len(asked') - 1)
        PROVE  j < Len(log') /\ log'[Len(log') - j] <= asked'[Len(asked') - j]
    <3>1. j \in 0..(Len(asked) - 1)
      BY <1>2, <1>7
    <3>2. j < Len(log) /\ log[Len(log) - j] <= asked[Len(asked) - j]
      BY <1>1, <3>1 DEF IInv, RecordedInv, Done
    <3>3. Len(log) - j \in 1..Len(log) /\ Len(asked) - j \in 1..Len(asked)
      <4> DEFINE n == Len(log)
                 k == Len(asked)
      <4>1. n \in Nat /\ k \in Nat
        BY <1>2
      <4>2. j < n /\ j \in 0..(k - 1)
        BY <3>1, <3>2
      <4> HIDE DEF n, k
      <4>3. n - j \in 1..n /\ k - j \in 1..k
        BY <4>1, <4>2
      <4>4. QED
        BY <4>3 DEF n, k
    <3>4. log'[Len(log) - j] <= O[Len(asked) - j]
      <4> DEFINE p == Len(log) - j
                 q == Len(asked) - j
      <4>1. p \in 1..Len(log) /\ q \in 1..Len(asked) /\ log[p] <= asked[q]
        BY <3>2, <3>3
      <4> SUFFICES log'[p] <= O[q]
        OBVIOUS
      <4> HIDE DEF p, q
      <4>2. log[p] \in 0..Window /\ asked[q] \in 0..Window
        BY <1>2, <4>1
      <4>3. /\ log'[p] = IF log[p] < Window THEN log[p] + 1 ELSE Window
            /\ O[q] = IF asked[q] < Window THEN asked[q] + 1 ELSE Window
        BY <1>3, <1>4, <4>1
      <4>4. QED
        BY <4>1, <4>2, <4>3
    <3>5. /\ Len(asked') - j \in 1..Len(asked')
          /\ m + (Len(asked') - j) = Len(asked) - j
      BY <1>2, <1>7, <3>1
    <3>6. asked'[Len(asked') - j] = O[Len(asked) - j]
      BY <1>7, <3>5
    <3>7. QED
      BY <1>3, <3>2, <3>4, <3>6
  <2>2. \A i \in DOMAIN asked' : asked'[i] < Window
    BY <1>7
  <2>3. Done' = Len(log')
    BY <1>1 DEF Done
  <2>4. QED
    BY <2>1, <2>2, <2>3 DEF RecordedInv
<1>12. AskingInv' /\ CounterInv'
  BY <1>1 DEF IInv, AskingInv, CounterInv
<1>13. TypeOK'
  BY <1>1, <1>3, <1>8 DEF IInv, TypeOK
<1>14. QED
  BY <1>9, <1>10, <1>11, <1>12, <1>13 DEF IInv

LEMMA TripKeeps == ASSUME IInv, NEW code, Turn(code), TripBreaker(code) PROVE LogInv' /\ TypeOK'
<1> USE WatchdogAssumption
<1> DEFINE Y == Younger(log)
<1>1. /\ watchdog = "up" /\ watchdog' = "up" /\ log' = Y /\ asked' = asked
      /\ host' = host /\ chip' = chip /\ miner' = miner /\ latched' = latched
      /\ failures' = 0 /\ wait' = Window
  BY DEF Turn, TripBreaker, RecordReboot, Sleep, Recent, minerVars
<1>2. /\ Y \in Seq(0..Window) /\ OldestFirst(Y) /\ Len(Y) <= MaxReboots
      /\ \A j \in 0..(Len(asked) - 1) : j < Len(Y) /\ Y[Len(Y) - j] <= asked[Len(asked) - j]
  BY <1>1, PrunedLog DEF IInv
<1> HIDE DEF Y
<1>3. OrderInv'
  BY <1>1, <1>2 DEF IInv, OrderInv
<1>4. FullInv'
  BY <1>1, <1>2 DEF FullInv
<1>5. RecordedInv'
  <2>1. Done' = Len(Y)
    BY <1>1 DEF Done
  <2>2. QED
    BY <1>1, <1>2, <2>1 DEF IInv, RecordedInv
<1>6. TypeOK'
  BY <1>1, <1>2 DEF IInv, TypeOK
<1>7. QED
  BY <1>3, <1>4, <1>5, <1>6 DEF LogInv

LEMMA RecordKeeps ==
    ASSUME IInv, NEW code, Turn(code), RecordReboot(code)
    PROVE  IInv'
<1> USE WatchdogAssumption
<1> DEFINE Y == Younger(log)
<1>1. /\ watchdog = "up" /\ watchdog' = "asking" /\ log' = Append(Y, 0) /\ asked' = asked
      /\ host = "up" /\ wait = 0 /\ wait' = wait
      /\ host' = host /\ chip' = chip /\ miner' = miner /\ latched' = latched
      /\ failures' = failures + 1 /\ Len(Y) < MaxReboots
  BY DEF Turn, RecordReboot, Recent, NewLog, minerVars
<1>2. /\ Y \in Seq(0..Window) /\ OldestFirst(Y)
      /\ \A j \in 0..(Len(asked) - 1) : j < Len(Y) /\ Y[Len(Y) - j] <= asked[Len(asked) - j]
  BY <1>1, PrunedLog DEF IInv
<1> HIDE DEF Y
<1>3. /\ Len(Y) \in Nat /\ \A i \in 1..Len(Y) : Y[i] \in 0..Window
      /\ \A i, j \in 1..Len(Y) : i <= j => Y[i] >= Y[j]
  BY <1>2 DEF OldestFirst
<1>4. /\ log' \in Seq(0..Window) /\ Len(log') = Len(Y) + 1
      /\ DOMAIN log' = 1..(Len(Y) + 1)
      /\ \A i \in 1..Len(Y) : log'[i] = Y[i]
      /\ log'[Len(Y) + 1] = 0
  BY <1>1, <1>2
<1>5. OrderInv'
  <2>1. \A i, j \in 1..(Len(Y) + 1) : i <= j => log'[i] >= log'[j]
    BY <1>3, <1>4
  <2>2. QED
    BY <1>1, <1>4, <2>1 DEF IInv, OrderInv, OldestFirst
<1>6. FullInv'
  BY <1>1, <1>3, <1>4 DEF FullInv
<1>7. RecordedInv'
  <2>1. Done' = Len(Y)
    BY <1>1, <1>3, <1>4 DEF Done
  <2>2. ASSUME NEW j \in 0..(Len(asked) - 1)
        PROVE  j < Len(Y) /\ log'[Len(Y) - j] <= asked[Len(asked) - j]
    <3>1. j < Len(Y) /\ Y[Len(Y) - j] <= asked[Len(asked) - j]
      BY <1>2
    <3>2. Len(Y) - j \in 1..Len(Y)
      BY <1>3, <3>1
    <3>3. log'[Len(Y) - j] = Y[Len(Y) - j]
      BY <1>4, <3>2
    <3>4. QED
      BY <3>1, <3>3
  <2>3. QED
    BY <1>1, <2>1, <2>2 DEF IInv, RecordedInv
<1>8. AskingInv'
  BY <1>1, <1>3, <1>4 DEF AskingInv
<1>9. TypeOK' /\ CounterInv'
  BY <1>1, <1>4 DEF IInv, TypeOK, CounterInv
<1>10. QED
  BY <1>5, <1>6, <1>7, <1>8, <1>9 DEF IInv

LEMMA RebootKeeps == ASSUME IInv, Reboot PROVE IInv'
<1> USE WatchdogAssumption
<1>1. /\ watchdog = "asking" /\ watchdog' = "up" /\ log' = log /\ asked' = Append(asked, 0)
      /\ host' = "rebooting" /\ chip' = chip /\ miner' = miner /\ latched' = latched
      /\ failures' = failures /\ wait' = 1
      /\ Len(log) > 0 /\ log[Len(log)] = 0
  BY DEF Reboot, Sleep, minerVars, IInv, AskingInv
<1>2. /\ Len(log) \in Nat /\ Len(asked) \in Nat
      /\ \A i \in 1..Len(log) : log[i] \in 0..Window
      /\ \A i \in 1..Len(asked) : asked[i] \in 0..Window /\ asked[i] < Window
      /\ \A i, j \in 1..Len(asked) : i <= j => asked[i] >= asked[j]
  BY DEF IInv, TypeOK, RecordedInv, OrderInv, OldestFirst
<1>3. /\ asked' \in Seq(0..Window) /\ Len(asked') = Len(asked) + 1
      /\ DOMAIN asked' = 1..(Len(asked) + 1)
      /\ \A i \in 1..Len(asked) : asked'[i] = asked[i]
      /\ asked'[Len(asked) + 1] = 0
  BY <1>1 DEF IInv, TypeOK
<1>4. OrderInv'
  <2>1. ASSUME NEW i \in 1..(Len(asked) + 1), NEW j \in 1..(Len(asked) + 1), i <= j
        PROVE  asked'[i] >= asked'[j]
    <3>1. CASE j = Len(asked) + 1
      <4>1. i \in 1..Len(asked) \/ i = j
        BY <1>2, <2>1, <3>1
      <4>2. asked'[i] \in 0..Window /\ asked'[j] = 0
        BY <1>2, <1>3, <3>1, <4>1
      <4>3. QED
        BY <4>2
    <3>2. CASE j # Len(asked) + 1
      <4>1. i \in 1..Len(asked) /\ j \in 1..Len(asked)
        BY <1>2, <2>1, <3>2
      <4>2. QED
        BY <1>2, <1>3, <2>1, <4>1
    <3>3. QED
      BY <3>1, <3>2
  <2>2. QED
    BY <1>1, <1>3, <2>1 DEF IInv, OrderInv, OldestFirst
<1>5. FullInv'
  BY <1>1 DEF IInv, FullInv
<1>6. RecordedInv'
  <2>1. Done = Len(log) - 1 /\ Done' = Len(log')
    BY <1>1 DEF Done
  <2>2. ASSUME NEW j \in 0..Len(asked)
        PROVE  j < Len(log) /\ log[Len(log) - j] <= asked'[Len(asked) + 1 - j]
    <3>1. CASE j = 0
      BY <1>1, <1>2, <1>3, <3>1
    <3>2. CASE j # 0
      <4>1. j - 1 \in 0..(Len(asked) - 1)
        BY <1>2, <3>2
      <4>2. /\ j - 1 < Len(log) - 1
            /\ log[Len(log) - 1 - (j - 1)] <= asked[Len(asked) - (j - 1)]
        BY <2>1, <4>1 DEF IInv, RecordedInv
      <4>3. /\ Len(log) - 1 - (j - 1) = Len(log) - j
            /\ Len(asked) - (j - 1) = Len(asked) + 1 - j
            /\ Len(asked) + 1 - j \in 1..Len(asked)
            /\ j - 1 < Len(log) - 1 => j < Len(log)
        BY <1>2, <3>2
      <4>4. QED
        BY <1>3, <4>2, <4>3
    <3>3. QED
      BY <3>1, <3>2
  <2>3. \A j \in 0..(Len(asked') - 1) :
          j < Done' /\ log'[Done' - j] <= asked'[Len(asked') - j]
    <3>1. Len(asked') = Len(asked) + 1 /\ 0..(Len(asked) + 1 - 1) = 0..Len(asked)
      BY <1>2, <1>3
    <3>2. Done' = Len(log) /\ log' = log
      BY <1>1, <2>1
    <3>3. \A j \in 0..Len(asked) : j < Len(log) /\ log[Len(log) - j] <= asked'[Len(asked) + 1 - j]
      BY <2>2
    <3>4. QED
      BY <3>1, <3>2, <3>3
  <2>4. \A i \in DOMAIN asked' : asked'[i] < Window
    BY <1>2, <1>3
  <2>5. QED
    BY <2>3, <2>4 DEF RecordedInv
<1>7. AskingInv' /\ TypeOK' /\ CounterInv'
  BY <1>1, <1>3 DEF IInv, AskingInv, TypeOK, CounterInv
<1>8. QED
  BY <1>4, <1>5, <1>6, <1>7 DEF IInv

\* A watchdog that dies may leave an entry for a reboot it never asked for.
LEMMA DiesKeeps == ASSUME IInv, WatchdogDies PROVE IInv'
<1> USE WatchdogAssumption
<1>1. /\ watchdog' = "down" /\ log' = log /\ asked' = asked
      /\ host' = host /\ chip' = chip /\ miner' = miner /\ latched' = latched
      /\ failures' = 0 /\ wait' = 0
  BY DEF WatchdogDies, minerVars
<1>2. /\ Len(log) \in Nat /\ Len(asked) \in Nat /\ DOMAIN log = 1..Len(log)
      /\ \A i \in 1..Len(log) : log[i] \in 0..Window
      /\ \A i \in 1..Len(asked) : asked[i] \in 0..Window
  BY DEF IInv, TypeOK
<1>3. RecordedInv'
  <2>1. Done \in {Len(log) - 1, Len(log)} /\ Done' = Len(log)
    BY <1>1 DEF Done
  <2>2. ASSUME NEW j \in 0..(Len(asked) - 1)
        PROVE  j < Len(log) /\ log[Len(log) - j] <= asked[Len(asked) - j]
    <3>1. j < Done /\ log[Done - j] <= asked[Len(asked) - j]
      BY DEF IInv, RecordedInv
    <3> DEFINE p == Len(log) - j
               q == Done - j
               r == Len(asked) - j
    <3>2. /\ p \in 1..Len(log) /\ q \in 1..Len(log) /\ q <= p /\ r \in 1..Len(asked)
          /\ log[q] <= asked[r] /\ j < Len(log)
      <4>1. Len(log) \in Nat /\ Len(asked) \in Nat
        BY <1>2
      <4>2. CASE Done = Len(log)
        BY <3>1, <4>1, <4>2
      <4>3. CASE Done = Len(log) - 1
        BY <3>1, <4>1, <4>3
      <4>4. QED
        BY <2>1, <4>2, <4>3
    <3> SUFFICES log[p] <= asked[r]
      BY <3>2
    <3> HIDE DEF p, q, r
    <3>3. log[q] >= log[p]
      BY <1>2, <3>2 DEF IInv, OrderInv, OldestFirst
    <3>4. QED
      BY <1>2, <3>2, <3>3
  <2>3. QED
    BY <1>1, <2>1, <2>2 DEF IInv, RecordedInv
<1>4. QED
  BY <1>1, <1>3 DEF IInv, TypeOK, OrderInv, FullInv, AskingInv, CounterInv

LEMMA InvInit == Init => IInv
<1> SUFFICES ASSUME Init PROVE IInv
  OBVIOUS
<1>1. log \in Seq(0..Window) /\ asked = log /\ Len(log) = 0 /\ DOMAIN log = {}
  BY DEF Init
<1>2. 0..(0 - 1) = {}
  OBVIOUS
<1>3. OrderInv /\ FullInv /\ RecordedInv
  BY <1>1, <1>2 DEF OrderInv, OldestFirst, FullInv, RecordedInv
<1>4. TypeOK
  <2>1. latched \in BOOLEAN
    BY Zenon DEF Init
  <2>2. 0 \in 0..FailuresBeforeReboot /\ 0 \in 0..Window
    BY WatchdogAssumption
  <2>3. QED
    BY <1>1, <2>1, <2>2 DEF Init, TypeOK
<1>5. AskingInv /\ CounterInv
  BY DEF Init, AskingInv, CounterInv
<1>6. QED
  BY <1>3, <1>4, <1>5 DEF IInv

LEMMA TurnKeeps == ASSUME IInv, NEW code, Turn(code) PROVE IInv'
<1> USE WatchdogAssumption
<1>1. /\ host = "up" /\ watchdog = "up" /\ failures < FailuresBeforeReboot
      /\ host' = host /\ chip' = chip /\ miner' = miner /\ latched' = latched
  BY DEF Turn, IInv, CounterInv, SeeHealthy, SeeFailure, LeaveToSystemd, TripBreaker,
         RecordReboot, minerVars
<1>2. CASE RecordReboot(code)
  BY <1>2, RecordKeeps
<1>3. CASE TripBreaker(code) /\ ~RecordReboot(code)
  <2>1. LogInv' /\ TypeOK'
    BY <1>3, TripKeeps
  <2>2. watchdog' = "up" /\ failures' = 0
    BY <1>1, <1>3 DEF Turn, TripBreaker
  <2>3. QED
    BY <2>1, <2>2 DEF IInv, LogInv, AskingInv, CounterInv
<1>4. CASE (SeeHealthy(code) \/ SeeFailure(code) \/ LeaveToSystemd(code)) /\ ~RecordReboot(code)
  <2>1. /\ watchdog' = watchdog /\ log' = log /\ asked' = asked /\ wait' = 1
        /\ failures' = 0 \/ (failures' = failures + 1 /\ failures' < FailuresBeforeReboot)
    BY <1>4 DEF Turn, SeeHealthy, SeeFailure, LeaveToSystemd, TripBreaker, Sleep
  <2>2. QED
    BY <1>1, <2>1 DEF IInv, TypeOK, OrderInv, FullInv, RecordedInv, Done, AskingInv, CounterInv
<1>5. QED
  BY <1>2, <1>3, <1>4 DEF Turn

LEMMA InvStep == IInv /\ [Next]_vars => IInv'
<1> SUFFICES ASSUME IInv, [Next]_vars PROVE IInv'
  OBVIOUS
<1> USE WatchdogAssumption
<1>1. ASSUME UNCHANGED <<host, watchdogVars>>,
             chip' \in {"ok", "dead"}, miner' \in {"up", "down"}, latched' \in BOOLEAN
      PROVE  IInv'
  BY <1>1 DEF watchdogVars, IInv, TypeOK, OrderInv, FullInv, RecordedInv, Done, AskingInv, CounterInv
<1>2. CASE Start \/ Exit \/ ChipDies \/ UNCHANGED vars
  BY <1>1, <1>2 DEF Start, Exit, ChipDies, vars, minerVars, IInv, TypeOK
<1>3. CASE Serve
  BY <1>1, <1>3 DEF Serve, Latch, IInv, TypeOK
<1>4. CASE Check \/ CheckTimesOut
  BY <1>4, TurnKeeps DEF Check, CheckTimesOut
<1>5. CASE Reboot
  BY <1>5, RebootKeeps
<1>6. CASE WatchdogDies
  BY <1>6, DiesKeeps
<1>7. CASE WatchdogStarts
  BY <1>7 DEF WatchdogStarts, minerVars, IInv, TypeOK, OrderInv, FullInv, RecordedInv, Done,
              AskingInv, CounterInv
<1>8. CASE BootAgain
  <2>1. /\ host' = "up" /\ chip' = "ok" /\ miner' = "down" /\ latched' = FALSE
        /\ watchdog' = "down" /\ failures' = 0 /\ wait' = 0 /\ log' = log /\ asked' = asked
        /\ watchdog # "asking"
    BY <1>8 DEF BootAgain, IInv, AskingInv
  <2>2. OrderInv' /\ FullInv' /\ RecordedInv'
    BY <2>1 DEF IInv, OrderInv, FullInv, RecordedInv, Done
  <2>3. TypeOK'
    <3>1. latched' \in BOOLEAN
      BY <2>1, Zenon
    <3>2. 0 \in 0..FailuresBeforeReboot /\ 0 \in 0..Window
      OBVIOUS
    <3>3. QED
      BY <2>1, <3>1, <3>2 DEF IInv, TypeOK
  <2>4. AskingInv' /\ CounterInv'
    BY <2>1 DEF AskingInv, CounterInv
  <2>5. QED
    BY <2>2, <2>3, <2>4 DEF IInv
<1>9. CASE Tick
  BY <1>9, TickKeeps
<1>10. QED
  BY <1>2, <1>3, <1>4, <1>5, <1>6, <1>7, <1>8, <1>9 DEF Next

LEMMA Inductive == Spec => []IInv
  BY InvInit, InvStep, PTL DEF Spec

\* Every variable of the host keeps its type: the counter of failures does not
\* pass its threshold, whatever the miner answers and whoever restarts.
THEOREM TypeCorrect == Spec => []TypeOK
<1>1. IInv => TypeOK
  BY DEF IInv
<1>2. QED
  BY Inductive, <1>1, PTL

\* The circuit breaker of sentinel-watchdog.sh holds for any limits: with each
\* reboot on record before it is asked for, no more than MaxReboots are asked
\* for within a Window, also when the watchdog dies between the two.
THEOREM BreakerHoldsAlways == Spec => []BreakerHolds
<1> USE WatchdogAssumption
<1>1. ASSUME IInv PROVE BreakerHolds
  <2> SUFFICES ASSUME ~(Len(asked) <= MaxReboots) PROVE FALSE
    BY DEF BreakerHolds
  <2>1. /\ Len(log) \in Nat /\ Len(asked) \in Nat /\ Done \in {Len(log) - 1, Len(log)}
        /\ DOMAIN log = 1..Len(log) /\ DOMAIN asked = 1..Len(asked)
        /\ \A i \in 1..Len(log) : log[i] \in 0..Window
        /\ \A i \in 1..Len(asked) : asked[i] \in 0..Window
    BY <1>1 DEF IInv, TypeOK, Done
  <2>2. MaxReboots \in 0..(Len(asked) - 1) /\ Len(asked) - MaxReboots \in 1..Len(asked)
    <3>1. Len(asked) \in Nat /\ MaxReboots \in Nat \ {0}
      BY <2>1
    <3>2. QED
      BY <3>1
  <2>3. MaxReboots < Done /\ log[Done - MaxReboots] <= asked[Len(asked) - MaxReboots]
    BY <1>1, <2>2 DEF IInv, RecordedInv
  <2> DEFINE p == Done - MaxReboots
             q == Len(asked) - MaxReboots
  <2>4. /\ p \in 1..Len(log) /\ p <= Len(log) - MaxReboots
        /\ q \in 1..Len(asked) /\ log[p] <= asked[q]
    <3>1. /\ Len(log) \in Nat /\ Done \in Int /\ Done <= Len(log)
          /\ MaxReboots \in Nat /\ MaxReboots < Done
      <4>1. Len(log) \in Nat
        BY <2>1
      <4>2. Done = Len(log) - 1 \/ Done = Len(log)
        BY <2>1
      <4>3. QED
        BY <2>3, <4>1, <4>2
    <3>2. p \in 1..Len(log) /\ p <= Len(log) - MaxReboots
      BY <3>1
    <3>3. QED
      BY <2>2, <2>3, <3>2
  <2> HIDE DEF p, q
  <2>5. log[p] >= Window
    BY <1>1, <2>1, <2>4 DEF IInv, FullInv
  <2>6. asked[q] < Window
    BY <1>1, <2>1, <2>4 DEF IInv, RecordedInv
  <2>7. log[p] \in Nat /\ asked[q] \in Nat /\ Window \in Nat
    <3>1. log[p] \in 0..Window /\ asked[q] \in 0..Window
      BY <2>1, <2>4
    <3>2. QED
      BY <3>1
  <2>8. QED
    BY <2>4, <2>5, <2>6, <2>7
<1>2. QED
  BY Inductive, <1>1, PTL

\* The miner's /health fails closed (serving/handler.py): what a GuestError
\* latched is not cleared by a later answer of the chip, only with the process.
THEOREM FailsClosed == Spec => HealthFailsClosed
<1> DEFINE Closed == miner = "up" /\ Health = "503" /\ miner' = "up" => Health' = "503"
<1>1. TypeOK /\ [Next]_vars => Closed
  <2> SUFFICES ASSUME TypeOK, [Next]_vars, miner = "up", latched, miner' = "up" PROVE latched'
    BY DEF Health, TypeOK
  <2>1. CASE Serve
    BY <2>1 DEF Serve, Latch
  <2>2. CASE UNCHANGED minerVars
    BY <2>2 DEF minerVars
  <2>3. QED
    BY <2>1, <2>2 DEF Next, vars, minerVars, Start, Exit, ChipDies, Check, CheckTimesOut, Turn,
                      Reboot, WatchdogDies, WatchdogStarts, BootAgain, Tick
<1>2. QED
  BY TypeCorrect, <1>1, PTL DEF Spec, HealthFailsClosed
=============================================================================
