---------------------------- MODULE InputsProofs ----------------------------
(***************************************************************************)
(* Theorems about Inputs: what parseGoodsId makes of a text of any length, *)
(* loadServerConfiguration of any environment, and discoverMigrations and  *)
(* readMigrationBootstrapSql of any directory.                             *)
(***************************************************************************)
EXTENDS Inputs, FiniteSetTheorems, TLAPS

(* Induction over the natural numbers, for sets: a set of numbers stands   *)
(* where a formula with a parameter would.                                 *)

\* Every set of numbers that is not empty has a least one.
LEMMA LeastNumber ==
    ASSUME NEW S, S \subseteq Nat, S # {}
    PROVE  \E m \in S : \A k \in S : m <= k
<1> DEFINE R == {p \in Nat \X Nat : p[1] < p[2]}
<1>1. IsWellFoundedOn(R, Nat)
  BY NatLessThanWellFounded DEF OpToRel
<1>2. \A a, b \in Nat : <<a, b>> \in R <=> a < b
  OBVIOUS
<1> HIDE DEF R
<1>3. PICK m \in S : \A k \in S : ~ (<<k, m>> \in R)
  BY <1>1, WFMin
<1>4. ASSUME NEW k \in S
      PROVE  m <= k
  <2>1. k \in Nat /\ m \in Nat
    OBVIOUS
  <2>2. ~ (<<k, m>> \in R)
    BY <1>3
  <2>3. ~ (k < m)
    BY <1>2, <2>1, <2>2
  <2>4. QED BY <2>1, <2>3
<1>5. QED BY <1>4

\* A set that has 0 and the successor of each of its numbers has all of them.
LEMMA Induction ==
    ASSUME NEW S, 0 \in S, \A n \in Nat : n \in S => n + 1 \in S
    PROVE  Nat \subseteq S
<1> SUFFICES ASSUME Nat \ S # {}
             PROVE  FALSE
  OBVIOUS
<1>1. PICK m \in Nat \ S : \A k \in Nat \ S : m <= k
  BY LeastNumber
<1>2. m # 0 /\ m - 1 \in Nat
  OBVIOUS
<1>3. m - 1 \in S
  BY <1>1, <1>2
<1>4. QED BY <1>2, <1>3

\* f is v at first and then what the steps make of it.
IsIteration(f, V, v, last, step) ==
    /\ f \in [0..last -> V]
    /\ f[0] = v
    /\ \A n \in 1..last : f[n] = step[n][f[n - 1]]

\* A step from one value to the next defines a function on an interval.
LEMMA Iteration ==
    ASSUME NEW V, NEW v \in V, NEW last \in Nat, NEW step \in [1..last -> [V -> V]]
    PROVE  \E f : IsIteration(f, V, v, last, step)
<1> DEFINE Upto(m) == \E f \in [0..m -> V] : f[0] = v /\ \A n \in 1..m : f[n] = step[n][f[n - 1]]
           S == {m \in Nat : m <= last => Upto(m)}
<1>1. 0 \in S
  <2> DEFINE f == [n \in 0..0 |-> v]
  <2>1. f \in [0..0 -> V] /\ f[0] = v /\ 1..0 = {}
    OBVIOUS
  <2>2. Upto(0)
    BY <2>1
  <2>3. QED BY <2>2
<1>2. ASSUME NEW m \in Nat, m \in S
      PROVE  m + 1 \in S
  <2> SUFFICES ASSUME m + 1 <= last
               PROVE  Upto(m + 1)
    OBVIOUS
  <2>1. PICK f \in [0..m -> V] : f[0] = v /\ \A n \in 1..m : f[n] = step[n][f[n - 1]]
    BY <1>2
  <2> DEFINE g == [n \in 0..m + 1 |-> IF n = m + 1 THEN step[m + 1][f[m]] ELSE f[n]]
  <2>2. step[m + 1][f[m]] \in V
    <3>1. m + 1 \in 1..last /\ f[m] \in V
      OBVIOUS
    <3>2. QED BY <3>1
  <2>3. g \in [0..m + 1 -> V]
    BY <2>2
  <2>4. g[0] = v
    BY <2>1
  <2>5. ASSUME NEW n \in 1..m + 1
        PROVE  g[n] = step[n][g[n - 1]]
    <3>1. g[n - 1] = f[n - 1]
      OBVIOUS
    <3>2. CASE n = m + 1
      BY <3>1, <3>2
    <3>3. CASE n # m + 1
      BY <2>1, <3>1, <3>3
    <3>4. QED BY <3>2, <3>3
  <2>6. QED BY <2>3, <2>4, <2>5
<1> HIDE DEF Upto
<1>3. last \in S
  <2> HIDE DEF S
  <2>1. QED BY <1>1, <1>2, Induction
<1>4. QED BY <1>3 DEF Upto, IsIteration

\* From a value in V, every step of h stays in V.
StaysIn(h, V, last) ==
    /\ h[0] \in V
    /\ \A n \in 1..last : h[n - 1] \in V => h[n] \in V

\* What begins in V and does not leave it is in V.
LEMMA IterationTyped ==
    ASSUME NEW V, NEW last \in Nat, NEW h, StaysIn(h, V, last)
    PROVE  \A n \in 0..last : h[n] \in V
<1> DEFINE S == {n \in Nat : n <= last => h[n] \in V}
<1>1. 0 \in S
  BY DEF StaysIn
<1>2. ASSUME NEW n \in Nat, n \in S
      PROVE  n + 1 \in S
  <2>1. n + 1 <= last => n + 1 \in 1..last /\ h[n] \in V /\ (n + 1) - 1 = n
    BY <1>2
  <2>2. QED BY <2>1 DEF StaysIn
<1> HIDE DEF S
<1>3. Nat \subseteq S
  BY <1>1, <1>2, Induction
<1>4. QED BY <1>3 DEF S

-----------------------------------------------------------------------------
(* parseGoodsId                                                            *)

\* The test before the multiplication refuses a digit exactly when the new value
\* would not fit: neither a valid id is refused nor one wraps around.
THEOREM OverflowTestIsExact ==
    \A value \in 0..MaxId, digit \in Digits :
        AppendDigit(value, digit) =
            IF 10 * value + digit > MaxId THEN Overflow ELSE 10 * value + digit
<1> SUFFICES ASSUME NEW value \in 0..MaxId, NEW digit \in Digits
             PROVE  AppendDigit(value, digit) =
                      IF 10 * value + digit > MaxId THEN Overflow ELSE 10 * value + digit
  OBVIOUS
<1>1. MaxId - digit \in Nat
  BY MaxIdAssumption DEF Digits
<1>2. value > (MaxId - digit) \div 10 <=> 10 * value + digit > MaxId
  BY <1>1, MaxIdAssumption DEF Digits
<1>3. QED BY <1>2 DEF AppendDigit

Numbers == 0..MaxId \cup {Overflow}
Turn(value, digit) == IF value = Overflow THEN Overflow ELSE AppendDigit(value, digit)

\* The numbers that the beginnings of a text of digits denote, and the values of
\* the loop over it.
IsSum(f, s) ==
    /\ f \in [0..Len(s) -> Nat]
    /\ f[0] = 0
    /\ \A n \in 1..Len(s) : f[n] = 10 * f[n - 1] + s[n]
IsLoop(f, s) ==
    /\ f \in [0..Len(s) -> Numbers]
    /\ f[0] = 0
    /\ \A n \in 1..Len(s) : f[n] = Turn(f[n - 1], s[n])

\* The recursion that defines Denoted has a solution, and Denoted is its last value.
LEMMA SumOf ==
    ASSUME NEW s \in Seq(Digits)
    PROVE  \E f : IsSum(f, s) /\ Denoted(s) = f[Len(s)]
<1> DEFINE Body(f) == [n \in 0..Len(s) |-> IF n = 0 THEN 0 ELSE 10 * f[n - 1] + s[n]]
           sum == CHOOSE f : f = Body(f)
           step == [n \in 1..Len(s) |-> [x \in Nat |-> 10 * x + s[n]]]
<1>1. Len(s) \in Nat /\ \A n \in 1..Len(s) : s[n] \in Nat
  BY DEF Digits
<1>2. step \in [1..Len(s) -> [Nat -> Nat]]
  BY <1>1
<1>3. \A n \in 1..Len(s), x \in Nat : step[n][x] = 10 * x + s[n]
  OBVIOUS
<1> HIDE DEF Body, sum, step
<1>4. PICK f : IsIteration(f, Nat, 0, Len(s), step)
  BY <1>1, <1>2, Iteration
<1>5. f = Body(f)
  <2>1. f \in [0..Len(s) -> Nat] /\ f[0] = 0
    BY <1>4 DEF IsIteration
  <2>2. ASSUME NEW n \in 1..Len(s)
        PROVE  f[n] = 10 * f[n - 1] + s[n]
    <3>1. f[n - 1] \in Nat
      <4>1. n - 1 \in 0..Len(s)
        BY <1>1
      <4>2. QED BY <2>1, <4>1
    <3>2. f[n] = step[n][f[n - 1]]
      BY <1>4 DEF IsIteration
    <3>3. QED BY <1>3, <3>1, <3>2
  <2>3. QED BY <1>1, <2>1, <2>2 DEF Body
<1>6. sum = Body(sum)
  BY <1>5 DEF sum
<1>7. Denoted(s) = sum[Len(s)]
  BY DEF Denoted, sum, Body
<1>8. sum[0] = 0 /\ \A n \in 1..Len(s) : sum[n] = 10 * sum[n - 1] + s[n]
  BY <1>1, <1>6 DEF Body
<1>9. \A n \in 0..Len(s) : sum[n] \in Nat
  <2>1. StaysIn(sum, Nat, Len(s))
    BY <1>1, <1>8 DEF StaysIn
  <2>2. QED BY <1>1, <2>1, IterationTyped
<1>10. sum \in [0..Len(s) -> Nat]
  BY <1>6, <1>9 DEF Body
<1>11. QED BY <1>7, <1>8, <1>10 DEF IsSum


\* A turn of the loop leaves a number that fits, or Overflow.
LEMMA TurnTyped ==
    ASSUME NEW value \in Numbers, NEW digit \in Digits
    PROVE  Turn(value, digit) \in Numbers
<1>1. CASE value = Overflow
  BY <1>1 DEF Turn, Numbers
<1>2. CASE value # Overflow
  <2>1. value \in 0..MaxId
    BY <1>2 DEF Numbers
  <2>2. Turn(value, digit) = IF 10 * value + digit > MaxId THEN Overflow ELSE 10 * value + digit
    BY <1>2, <2>1, OverflowTestIsExact DEF Turn
  <2>3. QED BY <2>1, <2>2, MaxIdAssumption DEF Numbers, Digits
<1>3. QED BY <1>1, <1>2

\* Likewise for Accumulate and the loop of parseGoodsId.
LEMMA LoopOf ==
    ASSUME NEW s \in Seq(Digits)
    PROVE  \E f : IsLoop(f, s) /\ Accumulate(s) = f[Len(s)]
<1> DEFINE Body(f) == [n \in 0..Len(s) |->
                          IF n = 0 THEN 0
                          ELSE IF f[n - 1] = Overflow THEN Overflow
                          ELSE AppendDigit(f[n - 1], s[n])]
           after == CHOOSE f : f = Body(f)
           step == [n \in 1..Len(s) |-> [x \in Numbers |-> Turn(x, s[n])]]
<1>1. Len(s) \in Nat /\ \A n \in 1..Len(s) : s[n] \in Digits
  OBVIOUS
<1>2. step \in [1..Len(s) -> [Numbers -> Numbers]]
  BY <1>1, TurnTyped
<1>3. \A n \in 1..Len(s), x \in Numbers : step[n][x] = Turn(x, s[n])
  OBVIOUS
<1>4. 0 \in Numbers
  BY MaxIdAssumption DEF Numbers
<1> HIDE DEF Body, after, step
<1>5. PICK f : IsIteration(f, Numbers, 0, Len(s), step)
  BY <1>1, <1>2, <1>4, Iteration
<1>6. f = Body(f)
  <2>1. f \in [0..Len(s) -> Numbers] /\ f[0] = 0
    BY <1>5 DEF IsIteration
  <2>2. ASSUME NEW n \in 1..Len(s)
        PROVE  f[n] = Turn(f[n - 1], s[n])
    <3>1. f[n - 1] \in Numbers
      BY <1>1, <2>1
    <3>2. f[n] = step[n][f[n - 1]]
      BY <1>5 DEF IsIteration
    <3>3. QED BY <1>3, <3>1, <3>2
  <2>3. QED BY <1>1, <2>1, <2>2 DEF Body, Turn
<1>7. after = Body(after)
  BY <1>6 DEF after
<1>8. Accumulate(s) = after[Len(s)]
  BY DEF Accumulate, after, Body
<1>9. after[0] = 0 /\ \A n \in 1..Len(s) : after[n] = Turn(after[n - 1], s[n])
  BY <1>1, <1>7 DEF Body, Turn
<1>10. \A n \in 0..Len(s) : after[n] \in Numbers
  <2>1. StaysIn(after, Numbers, Len(s))
    BY <1>1, <1>4, <1>9, TurnTyped DEF StaysIn
  <2>2. QED BY <1>1, <2>1, IterationTyped
<1>11. after \in [0..Len(s) -> Numbers]
  BY <1>7, <1>10 DEF Body
<1>12. QED BY <1>8, <1>9, <1>11 DEF IsLoop

\* The loop holds the number so far as long as it fits, and knows when it does not:
\* a number that once was too large only grows.
LEMMA LoopIsSum ==
    ASSUME NEW s \in Seq(Digits)
    PROVE  Accumulate(s) = IF Denoted(s) > MaxId THEN Overflow ELSE Denoted(s)
<1>1. PICK sum : IsSum(sum, s) /\ Denoted(s) = sum[Len(s)]
  BY SumOf
<1>2. PICK after : IsLoop(after, s) /\ Accumulate(s) = after[Len(s)]
  BY LoopOf
<1> DEFINE Agree(n) == after[n] = IF sum[n] > MaxId THEN Overflow ELSE sum[n]
           S == {n \in Nat : n <= Len(s) => Agree(n)}
<1>3. 0 \in S
  BY <1>1, <1>2, MaxIdAssumption DEF IsSum, IsLoop
<1>4. ASSUME NEW m \in Nat, m \in S
      PROVE  m + 1 \in S
  <2> SUFFICES ASSUME m + 1 <= Len(s)
               PROVE  Agree(m + 1)
    OBVIOUS
  <2>1. m + 1 \in 1..Len(s) /\ m \in 0..Len(s) /\ (m + 1) - 1 = m
    OBVIOUS
  <2>2. sum[m] \in Nat /\ sum[m + 1] = 10 * sum[m] + s[m + 1] /\ s[m + 1] \in Digits
    BY <1>1, <2>1 DEF IsSum
  <2>3. after[m + 1] = Turn(after[m], s[m + 1])
    BY <1>2, <2>1 DEF IsLoop
  <2>4. after[m] = IF sum[m] > MaxId THEN Overflow ELSE sum[m]
    BY <1>4, <2>1
  <2>5. CASE sum[m] > MaxId
    BY <2>2, <2>3, <2>4, <2>5, MaxIdAssumption DEF Turn, Digits
  <2>6. CASE ~ (sum[m] > MaxId)
    <3>1. sum[m] \in 0..MaxId /\ after[m] = sum[m] /\ after[m] # Overflow
      BY <2>2, <2>4, <2>6, MaxIdAssumption DEF Overflow
    <3>2. after[m + 1] = IF 10 * sum[m] + s[m + 1] > MaxId THEN Overflow ELSE 10 * sum[m] + s[m + 1]
      BY <2>2, <2>3, <3>1, OverflowTestIsExact DEF Turn
    <3>3. QED BY <2>2, <3>2
  <2>7. QED BY <2>5, <2>6
<1> HIDE DEF S
<1>5. Len(s) \in S
  BY <1>3, <1>4, Induction
<1>6. QED BY <1>1, <1>2, <1>5 DEF S


\* What a text of digits denotes is a number.
LEMMA DenotedTyped ==
    ASSUME NEW s \in Seq(Digits)
    PROVE  Denoted(s) \in Nat
<1>1. PICK sum : IsSum(sum, s) /\ Denoted(s) = sum[Len(s)]
  BY SumOf
<1>2. QED BY <1>1 DEF IsSum

Unprefixed(text) == IF text # << >> /\ Head(text) = G THEN Tail(text) ELSE text
DigitsOnly(s) == s # << >> /\ (\A i \in DOMAIN s : s[i] \in Digits)

\* Of the texts of any length, parseGoodsId accepts those that denote a number of
\* 1..MaxId, after the letter or without it, and returns that number.
THEOREM EveryTextIsParsed ==
    \A text \in Seq(Chars) :
        LET s == Unprefixed(text)
        IN  ParseGoodsId(text) =
                IF DigitsOnly(s) /\ Denoted(s) \in 1..MaxId THEN Denoted(s) ELSE NoNumber
<1> SUFFICES ASSUME NEW text \in Seq(Chars)
             PROVE  ParseGoodsId(text) =
                      IF DigitsOnly(Unprefixed(text)) /\ Denoted(Unprefixed(text)) \in 1..MaxId
                      THEN Denoted(Unprefixed(text)) ELSE NoNumber
  OBVIOUS
<1> DEFINE s == Unprefixed(text)
<1>1. s \in Seq(Chars)
  BY DEF Unprefixed
<1>2. ParseGoodsId(text) =
        IF s = << >> \/ (\E i \in DOMAIN s : s[i] \notin Digits) \/ Accumulate(s) = Overflow
        THEN NoNumber ELSE Accumulate(s)
  BY DEF ParseGoodsId, Unprefixed
<1> HIDE DEF s
<1>3. CASE DigitsOnly(s)
  <2>1. s \in Seq(Digits)
    BY <1>1, <1>3 DEF DigitsOnly
  <2>2. Denoted(s) \in Nat
    BY <2>1, DenotedTyped
  <2>3. Accumulate(s) = IF Denoted(s) > MaxId THEN Overflow ELSE Denoted(s)
    BY <2>1, LoopIsSum
  <2>4. ParseGoodsId(text) = IF Accumulate(s) = Overflow THEN NoNumber ELSE Accumulate(s)
    BY <1>2, <1>3 DEF DigitsOnly
  <2>5. ParseGoodsId(text) = IF Denoted(s) \in 1..MaxId THEN Denoted(s) ELSE NoNumber
    BY <2>2, <2>3, <2>4, MaxIdAssumption DEF Overflow, NoNumber
  <2>6. QED BY <1>3, <2>5 DEF s
<1>4. CASE ~ DigitsOnly(s)
  <2>1. ParseGoodsId(text) = NoNumber
    BY <1>2, <1>4 DEF DigitsOnly
  <2>2. QED BY <1>4, <2>1 DEF s
<1>5. QED BY <1>3, <1>4

\* The id that a request's text or column stands for is the one it denotes.
THEOREM ParsedIds == Spec => []ParsedIdIsExact
<1>1. Init => ParsedIdIsExact
  BY DEF Init, ParsedIdIsExact, Kind
<1>2. ParsedIdIsExact /\ [Next]_vars => ParsedIdIsExact'
  <2> SUFFICES ASSUME ParsedIdIsExact, [Next]_vars
               PROVE  ParsedIdIsExact'
    OBVIOUS
  <2>1. ASSUME NEW env, Load(env)
        PROVE  ParsedIdIsExact'
    BY <2>1 DEF Load, ParsedIdIsExact, Kind
  <2>2. ASSUME NEW root, Discover(root)
        PROVE  ParsedIdIsExact'
    BY <2>2 DEF Discover, ParsedIdIsExact, Kind
  <2>3. ASSUME NEW files, ReadBootstrap(files)
        PROVE  ParsedIdIsExact'
    BY <2>3 DEF ReadBootstrap, ParsedIdIsExact, Kind
  <2>4. ASSUME NEW text \in IdTexts, Parse(text)
        PROVE  ParsedIdIsExact'
    <3>1. text \in Seq(Chars)
      BY IdTextsAssumption
    <3>2. input' = <<"id", text>> /\ outcome' = {ParseGoodsId(text)}
      BY <2>4 DEF Parse
    <3>3. Given' = text
      BY <3>2 DEF Given
    <3>4. QED BY <3>1, <3>2, <3>3, EveryTextIsParsed
                DEF ParsedIdIsExact, Unprefixed, DigitsOnly
  <2>5. CASE UNCHANGED vars
    BY <2>5 DEF vars, ParsedIdIsExact, Kind, Given
  <2>6. QED BY <2>1, <2>2, <2>3, <2>4, <2>5 DEF Next
<1>3. QED BY <1>1, <1>2, PTL DEF Spec


-----------------------------------------------------------------------------
(* loadServerConfiguration                                                 *)

\* A variable without an issue of its own.
Clean(k, v) ==
    /\ k \in RequiredKeys => Required(v) = "none"
    /\ k = "DB_PORT" => ParsePositive(v, MaxPort) = "none"
    /\ k = "HTTP_BIND_ADDRESS" => v # Empty
    /\ k \in Optional => OptionalPositive(v, Largest(k)) = "none"
    /\ k = "CORS_ALLOWED_ORIGINS" => CorsIssue(v) = "none"
    /\ k = "MIGRATE_PASSWORDS" => MigrateIssue(v) = "none"

IssueKeys(env) == {i.key : i \in Issues(env)}

\* Issues name the variables that are not clean, and the administrator's as a pair.
LEMMA IssuesNamed ==
    ASSUME NEW env
    PROVE  IssueKeys(env) = {k \in Keys : ~ Clean(k, env[k])}
                               \cup (IF AdminIssue(env) = "none" THEN {} ELSE {"ADMIN"})
<1>1. \A k, code : \A i \in Issue(k, code) : i.key = k /\ code # "none"
  BY DEF Issue
<1>2. ASSUME NEW k, NEW code, code # "none"
      PROVE  \E i \in Issue(k, code) : i.key = k
  <2>1. [key |-> k, code |-> code] \in Issue(k, code)
    BY <1>2 DEF Issue
  <2>2. QED BY <2>1
<1> DEFINE From(i, k) ==
        \/ k \in RequiredKeys /\ i \in Issue(k, Required(env[k]))
        \/ /\ k = "DB_PORT" /\ Required(env["DB_PORT"]) = "none"
           /\ i \in Issue("DB_PORT", ParsePositive(env["DB_PORT"], MaxPort))
        \/ /\ k = "HTTP_BIND_ADDRESS"
           /\ i \in Issue(k, IF env["HTTP_BIND_ADDRESS"] = Empty THEN "Empty" ELSE "none")
        \/ k \in Optional /\ i \in Issue(k, OptionalPositive(env[k], Largest(k)))
        \/ /\ k = "CORS_ALLOWED_ORIGINS"
           /\ i \in Issue(k, CorsIssue(env["CORS_ALLOWED_ORIGINS"]))
        \/ k = "ADMIN" /\ i \in Issue(k, AdminIssue(env))
        \/ k = "MIGRATE_PASSWORDS" /\ i \in Issue(k, MigrateIssue(env["MIGRATE_PASSWORDS"]))
      Faulty(k) ==
        \/ k \in RequiredKeys /\ Required(env[k]) # "none"
        \/ k = "DB_PORT" /\ Required(env["DB_PORT"]) = "none" /\ ParsePositive(env["DB_PORT"], MaxPort) # "none"
        \/ k = "HTTP_BIND_ADDRESS" /\ env["HTTP_BIND_ADDRESS"] = Empty
        \/ k \in Optional /\ OptionalPositive(env[k], Largest(k)) # "none"
        \/ k = "CORS_ALLOWED_ORIGINS" /\ CorsIssue(env["CORS_ALLOWED_ORIGINS"]) # "none"
        \/ k = "ADMIN" /\ AdminIssue(env) # "none"
        \/ k = "MIGRATE_PASSWORDS" /\ MigrateIssue(env["MIGRATE_PASSWORDS"]) # "none"
<1>3. ASSUME NEW i
      PROVE  i \in Issues(env) <=> \E k : From(i, k)
  <2>1. i \in Issues(env) <=>
          \/ \E k \in RequiredKeys : i \in Issue(k, Required(env[k]))
          \/ /\ Required(env["DB_PORT"]) = "none"
             /\ i \in Issue("DB_PORT", ParsePositive(env["DB_PORT"], MaxPort))
          \/ i \in Issue("HTTP_BIND_ADDRESS",
                         IF env["HTTP_BIND_ADDRESS"] = Empty THEN "Empty" ELSE "none")
          \/ \E k \in Optional : i \in Issue(k, OptionalPositive(env[k], Largest(k)))
          \/ i \in Issue("CORS_ALLOWED_ORIGINS", CorsIssue(env["CORS_ALLOWED_ORIGINS"]))
          \/ i \in Issue("ADMIN", AdminIssue(env))
          \/ i \in Issue("MIGRATE_PASSWORDS", MigrateIssue(env["MIGRATE_PASSWORDS"]))
    BY DEF Issues
  <2>2. QED BY <2>1
<1>4. ASSUME NEW i, NEW k, From(i, k)
      PROVE  i.key = k /\ Faulty(k)
  BY <1>1, <1>4
<1>5. ASSUME NEW k, Faulty(k)
      PROVE  \E i : From(i, k) /\ i.key = k
  BY <1>2, <1>5
<1>6. ASSUME NEW k
      PROVE  k \in IssueKeys(env) <=> Faulty(k)
  <2> HIDE DEF From, Faulty
  <2>1. k \in IssueKeys(env) <=> \E i \in Issues(env) : i.key = k
    BY DEF IssueKeys
  <2>2. QED BY <1>3, <1>4, <1>5, <2>1
<1>7. ASSUME NEW k
      PROVE  Faulty(k) <=> (k \in Keys /\ ~ Clean(k, env[k])) \/ (k = "ADMIN" /\ AdminIssue(env) # "none")
  BY DEF Clean, Keys, RequiredKeys, Optional, Admin
<1> HIDE DEF Faulty
<1>8. QED BY <1>6, <1>7


NoIssue(env) == (\A k \in Keys : Clean(k, env[k])) /\ AdminIssue(env) = "none"

\* There are no issues exactly when every variable is clean and the pair agrees.
LEMMA NoIssues ==
    ASSUME NEW env
    PROVE  Issues(env) = {} <=> NoIssue(env)
<1>1. Issues(env) = {} <=> IssueKeys(env) = {}
  <2>1. \A i \in Issues(env) : i.key \in IssueKeys(env)
    BY DEF IssueKeys
  <2>2. \A k \in IssueKeys(env) : \E i \in Issues(env) : i.key = k
    BY DEF IssueKeys
  <2>3. QED BY <2>1, <2>2
<1>2. QED BY <1>1, IssuesNamed DEF NoIssue

\* A number that is accepted, or the default in place of one, is in range.
LEMMA NumberAccepted ==
    ASSUME NEW env, IsEnvironment(env), NEW k \in Optional \cup {"DB_PORT"}, Clean(k, env[k])
    PROVE  /\ Value(env, k) \in 1..Largest(k)
           /\ env[k] # Unset => env[k] = Number(Value(env, k))
<1>1. IsWord(env[k]) \/ IsNumber(env[k])
  BY DEF IsEnvironment, Keys, RequiredKeys, Optional, Admin
<1>2. Largest(k) \in Nat /\ Largest(k) >= 8081 /\ Default(k) \in 1..Largest(k)
  BY ConfigurationAssumption DEF Largest, Default
<1>3. ASSUME IsWord(env[k])
      PROVE  env[k].is # "number"
  BY <1>3 DEF IsWord, Unset, Text
<1>4. CASE env[k] = Unset
  <2>1. env[k].is = "unset"
    BY <1>4 DEF Unset
  <2>2. Value(env, k) = Default(k)
    BY <2>1 DEF Value
  <2>3. QED BY <1>2, <1>4, <2>2
<1>5. CASE env[k] # Unset
  <2>1. ParsePositive(env[k], Largest(k)) = "none"
    <3>1. CASE k = "DB_PORT"
      BY <3>1 DEF Clean, Largest
    <3>2. CASE k \in Optional
      BY <1>5, <3>2 DEF Clean, OptionalPositive
    <3>3. QED BY <3>1, <3>2
  <2>2. env[k].is = "number"
    BY <2>1 DEF ParsePositive
  <2>3. env[k].value \in Nat /\ env[k] = Number(env[k].value)
    BY <1>1, <1>3, <2>2 DEF IsNumber
  <2>4. env[k].value # 0 /\ env[k].value <= Largest(k)
    BY <1>2, <2>1, <2>2, <2>3, ConfigurationAssumption DEF ParsePositive
  <2>5. Value(env, k) = env[k].value
    BY <2>2 DEF Value
  <2>6. QED BY <1>2, <2>3, <2>4, <2>5
<1>6. QED BY <1>4, <1>5

Distinct(q) == \A i, j \in DOMAIN q : q[i] = q[j] => i = j

\* One turn of the loop over the list of origins.
Keep(q, x) == IF x \in {Blank, AnyOrigin} \cup Elems(q) THEN q ELSE Append(q, x)
IsKept(f, items) ==
    /\ f[0] = << >>
    /\ \A n \in 1..Len(items) : f[n] = Keep(f[n - 1], items[n])

\* A turn of the loop keeps a list a list ...
LEMMA KeepTyped ==
    ASSUME NEW T, NEW q \in Seq(T), NEW x \in T
    PROVE  Keep(q, x) \in Seq(T)
BY DEF Keep

\* ... adds what is neither blank nor "*", and repeats nothing.
LEMMA KeepOne ==
    ASSUME NEW T, NEW q \in Seq(T), NEW x \in T
    PROVE  /\ Elems(Keep(q, x)) = Elems(q) \cup ({x} \ {Blank, AnyOrigin})
           /\ Distinct(q) => Distinct(Keep(q, x))
<1>1. CASE x \in {Blank, AnyOrigin} \cup Elems(q)
  <2>1. Keep(q, x) = q
    BY <1>1 DEF Keep
  <2>2. {x} \ {Blank, AnyOrigin} \subseteq Elems(q)
    BY <1>1
  <2>3. QED BY <2>1, <2>2
<1>2. CASE x \notin {Blank, AnyOrigin} \cup Elems(q)
  <2>1. Keep(q, x) = Append(q, x)
    BY <1>2 DEF Keep
  <2>2. /\ Append(q, x) \in Seq(T) /\ DOMAIN q = 1..Len(q)
        /\ Len(q) \in Nat /\ DOMAIN Append(q, x) = 1..Len(q) + 1
        /\ Append(q, x)[Len(q) + 1] = x
        /\ \A i \in 1..Len(q) : Append(q, x)[i] = q[i]
    OBVIOUS
  <2>3. Elems(Append(q, x)) = Elems(q) \cup {x}
    BY <2>2 DEF Elems
  <2>4. ASSUME Distinct(q)
        PROVE  Distinct(Append(q, x))
    <3>1. \A i \in 1..Len(q) : q[i] # x
      BY <1>2, <2>2 DEF Elems
    <3>2. QED BY <2>2, <2>4, <3>1 DEF Distinct
  <2>5. {x} \ {Blank, AnyOrigin} = {x}
    BY <1>2
  <2>6. QED BY <2>1, <2>2, <2>3, <2>4, <2>5
<1>3. QED BY <1>1, <1>2

\* The recursion that defines Origins has a solution: the turns of the loop.
LEMMA KeptOf ==
    ASSUME NEW T, NEW items \in Seq(T)
    PROVE  \E f : IsKept(f, items) /\ Origins(items) = f[Len(items)]
<1> DEFINE Body(f) == [n \in 0..Len(items) |->
                          IF n = 0 THEN << >>
                          ELSE IF items[n] \in {Blank, AnyOrigin} \cup {f[n - 1][i] : i \in DOMAIN f[n - 1]}
                          THEN f[n - 1]
                          ELSE Append(f[n - 1], items[n])]
           kept == CHOOSE f : f = Body(f)
           Lists == Seq(T)
           step == [n \in 1..Len(items) |-> [q \in Lists |-> Keep(q, items[n])]]
           none == << >>
<1>1. Len(items) \in Nat /\ none \in Lists /\ \A n \in 1..Len(items) : items[n] \in T
  OBVIOUS
<1>2. step \in [1..Len(items) -> [Lists -> Lists]]
  <2>1. ASSUME NEW n \in 1..Len(items), NEW q \in Seq(T)
        PROVE  Keep(q, items[n]) \in Seq(T)
    <3>1. items[n] \in T
      BY <1>1
    <3>2. QED BY <3>1, KeepTyped
  <2> HIDE DEF Lists
  <2>2. QED BY <2>1 DEF Lists
<1>3. \A n \in 1..Len(items), q \in Lists : step[n][q] = Keep(q, items[n])
  OBVIOUS
<1>4. ASSUME NEW f
      PROVE  Body(f) = [n \in 0..Len(items) |->
                           IF n = 0 THEN none ELSE Keep(f[n - 1], items[n])]
  BY DEF Keep, Elems
<1>5. Origins(items) = kept[Len(items)]
  BY DEF Origins
<1> HIDE DEF Body, step, none, Lists
<1>6. PICK f : IsIteration(f, Lists, none, Len(items), step)
  BY <1>1, <1>2, Iteration, Zenon
<1>7. f = Body(f)
  <2>1. f \in [0..Len(items) -> Lists] /\ f[0] = none
    BY <1>6 DEF IsIteration
  <2>2. ASSUME NEW n \in 1..Len(items)
        PROVE  f[n] = Keep(f[n - 1], items[n])
    <3>1. f[n - 1] \in Lists
      BY <1>1, <2>1
    <3>2. f[n] = step[n][f[n - 1]]
      BY <1>6 DEF IsIteration
    <3>3. QED BY <1>3, <3>1, <3>2
  <2>3. \A n \in 0..Len(items) : f[n] = IF n = 0 THEN none ELSE Keep(f[n - 1], items[n])
    BY <1>1, <2>1, <2>2
  <2>4. f = [n \in 0..Len(items) |-> f[n]]
    BY <2>1
  <2>5. [n \in 0..Len(items) |-> f[n]] = [n \in 0..Len(items) |->
            IF n = 0 THEN none ELSE Keep(f[n - 1], items[n])]
    BY <2>3
  <2>6. QED BY <1>4, <2>4, <2>5, Zenon
<1>8. kept = Body(kept)
  BY <1>7
<1> HIDE DEF kept
<1>9. kept = [n \in 0..Len(items) |-> IF n = 0 THEN none ELSE Keep(kept[n - 1], items[n])]
  BY <1>4, <1>8
<1>10. IsKept(kept, items)
  <2>1. kept[0] = << >>
    BY <1>1, <1>9 DEF none
  <2>2. \A n \in 1..Len(items) : kept[n] = Keep(kept[n - 1], items[n])
    BY <1>1, <1>9
  <2>3. QED BY <2>1, <2>2 DEF IsKept
<1>11. QED BY <1>5, <1>10

\* What the list has after n of the items.
KeptSoFar(q, items, n) == Elems(q) = {items[i] : i \in 1..n} \ {Blank, AnyOrigin} /\ Distinct(q)

\* The list keeps what is listed, and once.
LEMMA OriginsKept ==
    ASSUME NEW T, NEW items \in Seq(T)
    PROVE  /\ Elems(Origins(items)) = Elems(items) \ {Blank, AnyOrigin}
           /\ Distinct(Origins(items))
<1>1. PICK kept : IsKept(kept, items) /\ Origins(items) = kept[Len(items)]
  BY KeptOf
<1> DEFINE Holds(n) == kept[n] \in Seq(T) /\ KeptSoFar(kept[n], items, n)
           S == {n \in Nat : n <= Len(items) => Holds(n)}
<1>2. 0 \in S
  <2>1. kept[0] = << >>
    BY <1>1 DEF IsKept
  <2>2. << >> \in Seq(T) /\ Elems(<< >>) = {} /\ Distinct(<< >>)
    BY DEF Elems, Distinct
  <2>3. {items[i] : i \in 1..0} \ {Blank, AnyOrigin} = {}
    OBVIOUS
  <2>4. KeptSoFar(<< >>, items, 0)
    BY <2>2, <2>3 DEF KeptSoFar
  <2>5. Holds(0)
    BY <2>1, <2>2, <2>4
  <2> HIDE DEF Holds
  <2>6. QED BY <2>5
<1>3. ASSUME NEW m \in Nat, m \in S
      PROVE  m + 1 \in S
  <2> SUFFICES ASSUME m + 1 <= Len(items)
               PROVE  Holds(m + 1)
    OBVIOUS
  <2>1. kept[m] \in Seq(T) /\ KeptSoFar(kept[m], items, m)
    BY <1>3
  <2>2. m + 1 \in 1..Len(items) /\ (m + 1) - 1 = m /\ items[m + 1] \in T
    OBVIOUS
  <2>3. kept[m + 1] = Keep(kept[m], items[m + 1])
    BY <1>1, <2>2 DEF IsKept
  <2>4. {items[i] : i \in 1..m + 1} = {items[i] : i \in 1..m} \cup {items[m + 1]}
    BY <2>2
  <2>5. /\ kept[m + 1] \in Seq(T) /\ Distinct(kept[m + 1])
        /\ Elems(kept[m + 1]) = Elems(kept[m]) \cup ({items[m + 1]} \ {Blank, AnyOrigin})
    <3>1. items[m + 1] \in T /\ Distinct(kept[m])
      BY <2>1, <2>2 DEF KeptSoFar
    <3>2. LET x == items[m + 1]
              q == kept[m]
          IN  /\ Distinct(Keep(q, x))
              /\ Elems(Keep(q, x)) = Elems(q) \cup ({x} \ {Blank, AnyOrigin})
      BY <2>1, <3>1, KeepOne
    <3>3. Keep(kept[m], items[m + 1]) \in Seq(T)
      BY <2>1, <3>1, KeepTyped
    <3>4. QED BY <2>3, <3>2, <3>3
  <2>6. KeptSoFar(kept[m + 1], items, m + 1)
    BY <2>1, <2>4, <2>5 DEF KeptSoFar
  <2>7. QED BY <2>5, <2>6
<1> HIDE DEF S
<1>4. Len(items) \in S
  BY <1>2, <1>3, Induction
<1>5. KeptSoFar(Origins(items), items, Len(items))
  BY <1>1, <1>4 DEF S
<1>6. {items[i] : i \in 1..Len(items)} = Elems(items)
  BY DEF Elems
<1>7. QED BY <1>5, <1>6 DEF KeptSoFar


\* What a configuration says, as ConfigurationIsSound asks for it of a state.
Sound(env, c) ==
    /\ \A k \in DOMAIN c.numbers :
          c.numbers[k] \in 1..Largest(k) /\ (env[k] # Unset => env[k] = Number(c.numbers[k]))
    /\ LET cors == env["CORS_ALLOWED_ORIGINS"]
       IN  /\ Elems(c.origins) = (IF cors = Unset THEN {} ELSE Elems(cors.items)) \ {Blank}
           /\ AnyOrigin \notin Elems(c.origins)
           /\ Distinct(c.origins)
    /\ c.admin <=> env["ADMIN_PASSWORD"] # Unset

\* An environment without an issue means the configuration that is made of it.
LEMMA ConfiguredIsSound ==
    ASSUME NEW env, IsEnvironment(env), NoIssue(env)
    PROVE  Sound(env, Configured(env))
<1> DEFINE c == Configured(env)
           cors == env["CORS_ALLOWED_ORIGINS"]
<1>1. ASSUME NEW k \in DOMAIN c.numbers
      PROVE  c.numbers[k] \in 1..Largest(k) /\ (env[k] # Unset => env[k] = Number(c.numbers[k]))
  <2>1. k \in Optional \cup {"DB_PORT"} /\ c.numbers[k] = Value(env, k)
    BY DEF Configured
  <2>2. Clean(k, env[k])
    BY <2>1 DEF NoIssue, Keys, RequiredKeys
  <2>3. QED BY <2>1, <2>2, NumberAccepted
<1>2. /\ Elems(c.origins) = (IF cors = Unset THEN {} ELSE Elems(cors.items)) \ {Blank}
      /\ AnyOrigin \notin Elems(c.origins)
      /\ Distinct(c.origins)
  <2>1. CASE cors = Unset
    <3>1. c.origins = << >>
      BY <2>1 DEF Configured
    <3>2. QED BY <2>1, <3>1 DEF Elems, Distinct
  <2>2. CASE cors # Unset
    <3>1. cors.is = "list" /\ cors.items \in Seq(STRING)
      BY <2>2 DEF IsEnvironment, IsList
    <3>2. c.origins = Origins(cors.items)
      BY <2>2 DEF Configured
    <3>3. CorsIssue(cors) = "none"
      BY DEF NoIssue, Clean, Keys
    <3>4. AnyOrigin \notin Elems(cors.items)
      BY <3>1, <3>3 DEF CorsIssue, Elems
    <3>5. /\ Elems(Origins(cors.items)) = Elems(cors.items) \ {Blank, AnyOrigin}
          /\ Distinct(Origins(cors.items))
      BY <3>1, OriginsKept
    <3>6. QED BY <2>2, <3>2, <3>4, <3>5
  <2>3. QED BY <2>1, <2>2
<1>3. c.admin <=> env["ADMIN_PASSWORD"] # Unset
  BY DEF Configured, NoIssue, AdminIssue
<1>4. QED BY <1>1, <1>2, <1>3 DEF Sound

\* What is to be repaired, and the environment once it is.
ToRepair(env) == UNION {IF i.key = "ADMIN" THEN Admin ELSE {i.key} : i \in Issues(env)}
Repair(env) == [k \in Keys |-> IF k \in ToRepair(env) THEN ProperEnvironment[k] ELSE env[k]]

\* With the variables that one report names taken from a proper environment, there
\* is nothing left to report.
LEMMA RepairSuffices ==
    ASSUME NEW env
    PROVE  Issues(Repair(env)) = {}
<1> DEFINE new == Repair(env)
<1>1. NoIssue(ProperEnvironment)
  BY ProperEnvironmentAssumption, NoIssues DEF LoadServerConfiguration
<1>2. ASSUME NEW k
      PROVE  k \in ToRepair(env) <=>
                 (k \in IssueKeys(env) /\ k # "ADMIN") \/ (k \in Admin /\ "ADMIN" \in IssueKeys(env))
  BY DEF ToRepair, IssueKeys
<1>3. "ADMIN" \in IssueKeys(env) <=> AdminIssue(env) # "none"
  BY IssuesNamed DEF Keys, RequiredKeys, Optional, Admin
<1>4. ASSUME NEW k \in Keys
      PROVE  k \in IssueKeys(env) /\ k # "ADMIN" <=> ~ Clean(k, env[k])
  BY IssuesNamed DEF Keys, RequiredKeys, Optional, Admin
<1>5. ASSUME NEW k \in Keys
      PROVE  Clean(k, new[k])
  <2>1. CASE k \in ToRepair(env)
    BY <1>1, <2>1 DEF Repair, NoIssue
  <2>2. CASE k \notin ToRepair(env)
    BY <1>2, <1>4, <2>2 DEF Repair
  <2>3. QED BY <2>1, <2>2
<1>6. \A k \in Admin : k \in Keys /\ Clean(k, env[k])
  BY DEF Admin, Keys, Clean, RequiredKeys, Optional
<1>7. AdminIssue(new) = "none"
  <2>1. CASE AdminIssue(env) = "none"
    <3>1. \A k \in Admin : new[k] = env[k]
      BY <1>2, <1>3, <1>4, <1>6, <2>1 DEF Repair
    <3>2. QED BY <2>1, <3>1 DEF AdminIssue, Admin
  <2>2. CASE AdminIssue(env) # "none"
    <3>1. \A k \in Admin : new[k] = ProperEnvironment[k]
      BY <1>2, <1>3, <1>6, <2>2 DEF Repair
    <3>2. QED BY <1>1, <3>1 DEF AdminIssue, Admin, NoIssue
  <2>3. QED BY <2>1, <2>2
<1>8. QED BY <1>5, <1>7, NoIssues DEF NoIssue

\* The server is configured only by an environment that means it, and repairing
\* what one report names is enough.
THEOREM ConfigurationsAreSound == Spec => []ConfigurationIsSound
<1>1. Init => ConfigurationIsSound
  BY DEF Init, ConfigurationIsSound, Kind
<1>2. ConfigurationIsSound /\ [Next]_vars => ConfigurationIsSound'
  <2> SUFFICES ASSUME ConfigurationIsSound, [Next]_vars
               PROVE  ConfigurationIsSound'
    OBVIOUS
  <2>1. ASSUME NEW env \in Environments, Load(env)
        PROVE  ConfigurationIsSound'
    <3>1. input' = <<"environment", env>> /\ outcome' = LoadServerConfiguration(env)
      BY <2>1 DEF Load
    <3>2. Given' = env
      BY <3>1 DEF Given
    <3>3. outcome.issues' = Issues(env)
      BY <3>1 DEF LoadServerConfiguration
    <3>4. outcome.configuration' = IF Issues(env) = {} THEN {Configured(env)} ELSE {}
      BY <3>1 DEF LoadServerConfiguration
    <3>5. ASSUME NEW c \in outcome.configuration'
          PROVE  /\ NumbersInRange(c)' /\ OriginsAsListed(c)'
                 /\ c.admin <=> Given'["ADMIN_PASSWORD"] # Unset
      <4>1. c = Configured(env) /\ Issues(env) = {}
        BY <3>4
      <4>2. Sound(env, c)
        BY <4>1, EnvironmentsAssumption, NoIssues, ConfiguredIsSound
      <4>3. QED BY <3>2, <4>2 DEF Sound, Distinct, NumbersInRange, OriginsAsListed
    <3>6. Repaired' = Repair(env)
      BY <3>2, <3>3 DEF Repaired, Named, Repair, ToRepair
    <3>7. LoadServerConfiguration(Repair(env)).configuration # {}
      BY RepairSuffices DEF LoadServerConfiguration
    <3>8. QED BY <3>3, <3>4, <3>5, <3>6, <3>7 DEF ConfigurationIsSound
  <2>2. ASSUME NEW root, Discover(root)
        PROVE  ConfigurationIsSound'
    BY <2>2 DEF Discover, ConfigurationIsSound, Kind
  <2>3. ASSUME NEW files, ReadBootstrap(files)
        PROVE  ConfigurationIsSound'
    BY <2>3 DEF ReadBootstrap, ConfigurationIsSound, Kind
  <2>4. ASSUME NEW text, Parse(text)
        PROVE  ConfigurationIsSound'
    BY <2>4 DEF Parse, ConfigurationIsSound, Kind
  <2>5. CASE UNCHANGED vars
    BY <2>5 DEF vars, ConfigurationIsSound, Kind, Given, NumbersInRange, OriginsAsListed,
                Repaired, Named
  <2>6. QED BY <2>1, <2>2, <2>3, <2>4, <2>5 DEF Next
<1>3. QED BY <1>1, <1>2, PTL DEF Spec

-----------------------------------------------------------------------------
(* readText and isSingleServerStatement                                    *)

\* One turn of the loop over the characters of a text.
ReadOne(q, c) == IF c = CR THEN q ELSE Append(q, c)

\* A text without its carriage returns is a text.
LEMMA ReadTextTyped ==
    ASSUME NEW T, NEW text \in Seq(T)
    PROVE  ReadText(text) \in Seq(T)
<1> DEFINE Body(f) == [n \in 0..Len(text) |->
                          IF n = 0 THEN << >>
                          ELSE IF text[n] = CR THEN f[n - 1]
                          ELSE Append(f[n - 1], text[n])]
           kept == CHOOSE f : f = Body(f)
           Texts == Seq(T)
           step == [n \in 1..Len(text) |-> [q \in Texts |-> ReadOne(q, text[n])]]
           none == << >>
<1>1. Len(text) \in Nat /\ none \in Texts /\ \A n \in 1..Len(text) : text[n] \in T
  OBVIOUS
<1>2. ASSUME NEW n \in 1..Len(text), NEW q \in Seq(T)
      PROVE  ReadOne(q, text[n]) \in Seq(T)
  <2>1. text[n] \in T
    BY <1>1
  <2>2. QED BY <2>1 DEF ReadOne
<1>3. ASSUME NEW f
      PROVE  Body(f) = [n \in 0..Len(text) |-> IF n = 0 THEN none ELSE ReadOne(f[n - 1], text[n])]
  BY DEF ReadOne
<1>4. ReadText(text) = kept[Len(text)]
  BY DEF ReadText
<1> HIDE DEF Texts
<1>5. step \in [1..Len(text) -> [Texts -> Texts]]
  BY <1>2 DEF Texts
<1>6. \A n \in 1..Len(text), q \in Texts : step[n][q] = ReadOne(q, text[n])
  OBVIOUS
<1> HIDE DEF Body, step, none
<1>7. PICK f : IsIteration(f, Texts, none, Len(text), step)
  BY <1>1, <1>5, Iteration
<1>8. f = Body(f)
  <2>1. f \in [0..Len(text) -> Texts] /\ f[0] = none
    BY <1>7 DEF IsIteration
  <2>2. ASSUME NEW n \in 1..Len(text)
        PROVE  f[n] = ReadOne(f[n - 1], text[n])
    <3>1. f[n - 1] \in Texts
      BY <1>1, <2>1
    <3>2. f[n] = step[n][f[n - 1]]
      BY <1>7 DEF IsIteration
    <3>3. QED BY <1>6, <3>1, <3>2
  <2>3. \A n \in 0..Len(text) : f[n] = IF n = 0 THEN none ELSE ReadOne(f[n - 1], text[n])
    BY <1>1, <2>1, <2>2
  <2>4. f = [n \in 0..Len(text) |-> f[n]]
    BY <2>1
  <2>5. [n \in 0..Len(text) |-> f[n]] = [n \in 0..Len(text) |->
            IF n = 0 THEN none ELSE ReadOne(f[n - 1], text[n])]
    BY <2>3
  <2>6. QED BY <1>3, <2>4, <2>5, Zenon
<1>9. kept = Body(kept)
  BY <1>8
<1> HIDE DEF kept
<1>10. kept = [n \in 0..Len(text) |-> IF n = 0 THEN none ELSE ReadOne(kept[n - 1], text[n])]
  BY <1>3, <1>9
<1>11. StaysIn(kept, Texts, Len(text))
  <2>1. kept[0] = none
    BY <1>1, <1>10
  <2>2. ASSUME NEW n \in 1..Len(text), kept[n - 1] \in Texts
        PROVE  kept[n] \in Texts
    <3>1. kept[n] = ReadOne(kept[n - 1], text[n])
      BY <1>1, <1>10
    <3>2. QED BY <1>2, <2>2, <3>1 DEF Texts
  <2>3. QED BY <1>1, <2>1, <2>2 DEF StaysIn
<1>12. kept[Len(text)] \in Texts
  <2>1. \A n \in 0..Len(text) : kept[n] \in Texts
    BY <1>1, <1>11, IterationTyped
  <2>2. QED BY <1>1, <2>1
<1>13. QED BY <1>4, <1>12 DEF Texts

Modes == {"code", "line", "block"} \cup Quotes
ScanStates == [mode : Modes, skip : BOOLEAN, ended : BOOLEAN, saw : BOOLEAN, second : BOOLEAN]

\* The states of the scanner over a text.
IsScan(f, sql) ==
    /\ f \in [0..Len(sql) -> ScanStates]
    /\ f[0] = Start
    /\ \A i \in 1..Len(sql) :
          f[i] = ReadChar(f[i - 1], CharAt(sql, i), CharAt(sql, i + 1), CharAt(sql, i + 2))

\* A turn of the scanner has one of its five forms.
LEMMA ScanTyped ==
    ASSUME NEW s \in ScanStates, NEW c, NEW d, NEW e
    PROVE  ReadChar(s, c, d, e) \in ScanStates
<1>1. CASE s.skip
  BY <1>1 DEF ReadChar, ScanStates
<1>2. CASE ~ s.skip /\ s.mode = "line"
  <2>1. ReadChar(s, c, d, e) = [s EXCEPT !.mode = IF c = "newline" THEN "code" ELSE @]
    BY <1>2 DEF ReadChar, Quotes
  <2>2. QED BY <2>1 DEF ScanStates, Modes
<1>3. CASE ~ s.skip /\ s.mode = "block"
  <2>1. ReadChar(s, c, d, e) \in {[s EXCEPT !.mode = "code", !.skip = TRUE], s}
    BY <1>3 DEF ReadChar, Quotes
  <2>2. QED BY <2>1 DEF ScanStates, Modes
<1>4. CASE ~ s.skip /\ s.mode \in Quotes
  <2>1. ReadChar(s, c, d, e) = ReadQuoted(s, c, d)
    BY <1>4 DEF ReadChar, Quotes
  <2>2. ReadQuoted(s, c, d) \in {[s EXCEPT !.skip = TRUE], [s EXCEPT !.mode = "code"], s}
    BY DEF ReadQuoted
  <2>3. QED BY <2>1, <2>2 DEF ScanStates, Modes
<1>5. CASE ~ s.skip /\ s.mode = "code"
  <2>1. ReadChar(s, c, d, e) = ReadCode(s, c, d, e)
    BY <1>5 DEF ReadChar, Quotes
  <2>2. \/ ReadCode(s, c, d, e) = [s EXCEPT !.mode = "line", !.skip = (c = "dash")]
        \/ ReadCode(s, c, d, e) = [s EXCEPT !.mode = "block", !.skip = TRUE]
        \/ c \in Quotes /\ ReadCode(s, c, d, e) = [s EXCEPT !.mode = c]
        \/ ReadCode(s, c, d, e) = [s EXCEPT !.ended = TRUE]
        \/ ReadCode(s, c, d, e) = s
        \/ ReadCode(s, c, d, e) = [s EXCEPT !.saw = TRUE, !.second = @ \/ s.ended]
    BY DEF ReadCode
  <2>3. QED BY <2>1, <2>2 DEF ScanStates, Modes
<1>6. QED BY <1>1, <1>2, <1>3, <1>4, <1>5 DEF ScanStates, Modes

\* The recursion of the scanner has a solution, and its last state decides.
LEMMA ScanOf ==
    ASSUME NEW sql, Len(sql) \in Nat
    PROVE  \E f : /\ IsScan(f, sql)
                  /\ IsSingleServerStatement(sql) <=>
                        LET last == f[Len(sql)]
                        IN  last.saw /\ ~ last.second /\ last.mode \in {"code", "line"}
<1> DEFINE TurnAt(s, i) == ReadChar(s, CharAt(sql, i), CharAt(sql, i + 1), CharAt(sql, i + 2))
           Body(f) == [i \in 0..Len(sql) |-> IF i = 0 THEN Start ELSE TurnAt(f[i - 1], i)]
           after == CHOOSE f : f = Body(f)
           step == [i \in 1..Len(sql) |-> [s \in ScanStates |-> TurnAt(s, i)]]
<1>1. Start \in ScanStates
  BY DEF Start, ScanStates, Modes
<1>2. \A i : \A s \in ScanStates : TurnAt(s, i) \in ScanStates
  BY ScanTyped
<1>3. IsSingleServerStatement(sql) <=>
        LET last == after[Len(sql)]
        IN  last.saw /\ ~ last.second /\ last.mode \in {"code", "line"}
  BY DEF IsSingleServerStatement, CharAt
<1> HIDE DEF TurnAt
<1>4. step \in [1..Len(sql) -> [ScanStates -> ScanStates]]
  BY <1>2
<1>5. \A i \in 1..Len(sql), s \in ScanStates : step[i][s] = TurnAt(s, i)
  OBVIOUS
<1> HIDE DEF Body, step
<1>6. PICK f : IsIteration(f, ScanStates, Start, Len(sql), step)
  BY <1>1, <1>4, Iteration
<1>7. f = Body(f)
  <2>1. f \in [0..Len(sql) -> ScanStates] /\ f[0] = Start
    BY <1>6 DEF IsIteration
  <2>2. ASSUME NEW i \in 1..Len(sql)
        PROVE  f[i] = TurnAt(f[i - 1], i)
    <3>1. f[i - 1] \in ScanStates
      BY <2>1
    <3>2. f[i] = step[i][f[i - 1]]
      BY <1>6 DEF IsIteration
    <3>3. QED BY <1>5, <3>1, <3>2
  <2>3. \A i \in 0..Len(sql) : f[i] = IF i = 0 THEN Start ELSE TurnAt(f[i - 1], i)
    BY <2>1, <2>2
  <2>4. f = [i \in 0..Len(sql) |-> f[i]]
    BY <2>1
  <2>5. [i \in 0..Len(sql) |-> f[i]] =
            [i \in 0..Len(sql) |-> IF i = 0 THEN Start ELSE TurnAt(f[i - 1], i)]
    BY <2>3
  <2>6. QED BY <2>4, <2>5, Zenon DEF Body
<1>8. after = Body(after)
  BY <1>7
<1> HIDE DEF after
<1>9. after[0] = Start /\ \A i \in 1..Len(sql) : after[i] = TurnAt(after[i - 1], i)
  BY <1>8 DEF Body
<1>10. \A i \in 0..Len(sql) : after[i] \in ScanStates
  <2>1. StaysIn(after, ScanStates, Len(sql))
    BY <1>1, <1>2, <1>9 DEF StaysIn
  <2>2. QED BY <2>1, IterationTyped
<1>11. after \in [0..Len(sql) -> ScanStates]
  BY <1>8, <1>10 DEF Body
<1>12. IsScan(after, sql)
  BY <1>9, <1>11 DEF IsScan, TurnAt
<1>13. QED BY <1>3, <1>12

\* The states of the server over a text.
Readings == [mode : Modes, skip : {0, 1, 2}, executable : BOOLEAN, begun : BOOLEAN, statements : Nat]
IsReading(g, sql) ==
    /\ g \in [0..Len(sql) -> Readings]
    /\ g[0] = ServerStart
    /\ \A i \in 1..Len(sql) :
          g[i] = ServerChar(g[i - 1], CharAt(sql, i), CharAt(sql, i + 1), CharAt(sql, i + 2))

\* A statement that begins is counted once.
LEMMA BegunTyped ==
    ASSUME NEW s \in Readings
    PROVE  /\ Begun(s) \in Readings
           /\ Begun(s).mode = s.mode /\ Begun(s).skip = s.skip /\ Begun(s).executable = s.executable
           /\ Begun(s).begun
           /\ Begun(s).statements = IF s.begun THEN s.statements ELSE s.statements + 1
<1> DEFINE n == IF s.begun THEN s.statements ELSE s.statements + 1
<1>1. n \in Nat
  BY DEF Readings
<1>2. Begun(s) = [s EXCEPT !.begun = TRUE, !.statements = n]
  BY DEF Begun, Readings
<1> HIDE DEF n
<1>3. QED BY <1>1, <1>2 DEF Readings, n

\* What the server makes of a character outside quotes and comments.
LEMMA ServerCodeForms ==
    ASSUME NEW s, NEW c, NEW d, NEW e
    PROVE  \/ ServerCode(s, c, d, e) = [s EXCEPT !.mode = "line"]
           \/ ServerCode(s, c, d, e) = [s EXCEPT !.mode = "line", !.skip = 1]
           \/ ServerCode(s, c, d, e) = [s EXCEPT !.executable = TRUE, !.skip = 2]
           \/ ServerCode(s, c, d, e) = [s EXCEPT !.mode = "block", !.skip = 1]
           \/ ServerCode(s, c, d, e) = [s EXCEPT !.executable = FALSE, !.skip = 1]
           \/ c \in Quotes /\ ServerCode(s, c, d, e) = [Begun(s) EXCEPT !.mode = c]
           \/ ServerCode(s, c, d, e) = [s EXCEPT !.begun = FALSE]
           \/ ServerCode(s, c, d, e) = s
           \/ ServerCode(s, c, d, e) = Begun(s)
BY DEF ServerCode

\* A turn of the server has one of its five forms.
LEMMA ServerTyped ==
    ASSUME NEW s \in Readings, NEW c, NEW d, NEW e
    PROVE  ServerChar(s, c, d, e) \in Readings
<1>1. CASE s.skip > 0
  <2>1. ServerChar(s, c, d, e) = [s EXCEPT !.skip = @ - 1]
    BY <1>1 DEF ServerChar, Readings
  <2>2. QED BY <1>1, <2>1 DEF Readings
<1>2. CASE s.skip = 0 /\ s.mode = "line"
  <2>1. ServerChar(s, c, d, e) = [s EXCEPT !.mode = IF c = "newline" THEN "code" ELSE @]
    BY <1>2 DEF ServerChar, Quotes
  <2>2. QED BY <2>1 DEF Readings, Modes
<1>3. CASE s.skip = 0 /\ s.mode = "block"
  <2>1. ServerChar(s, c, d, e) \in {[s EXCEPT !.mode = "code", !.skip = 1], s}
    BY <1>3 DEF ServerChar, Quotes
  <2>2. QED BY <2>1 DEF Readings, Modes
<1>4. CASE s.skip = 0 /\ s.mode \in Quotes
  <2>1. ServerChar(s, c, d, e) = ServerQuoted(s, c, d)
    BY <1>4 DEF ServerChar, Quotes
  <2>2. ServerQuoted(s, c, d) \in {[s EXCEPT !.skip = 1], [s EXCEPT !.mode = "code"], s}
    BY DEF ServerQuoted
  <2>3. QED BY <2>1, <2>2 DEF Readings, Modes
<1>5. CASE s.skip = 0 /\ s.mode = "code"
  <2>1. ServerChar(s, c, d, e) = ServerCode(s, c, d, e)
    BY <1>5 DEF ServerChar, Quotes
  <2>2. Begun(s) \in Readings
    BY BegunTyped
  <2>3. c \in Quotes => [Begun(s) EXCEPT !.mode = c] \in Readings
    BY <2>2 DEF Readings, Modes
  <2> DEFINE plain == {[s EXCEPT !.mode = "line"], [s EXCEPT !.mode = "line", !.skip = 1],
                       [s EXCEPT !.executable = TRUE, !.skip = 2],
                       [s EXCEPT !.mode = "block", !.skip = 1],
                       [s EXCEPT !.executable = FALSE, !.skip = 1], [s EXCEPT !.begun = FALSE], s}
  <2>4. plain \subseteq Readings
    BY DEF Readings, Modes
  <2>5. \/ ServerCode(s, c, d, e) \in plain
        \/ c \in Quotes /\ ServerCode(s, c, d, e) = [Begun(s) EXCEPT !.mode = c]
        \/ ServerCode(s, c, d, e) = Begun(s)
    BY ServerCodeForms
  <2> HIDE DEF plain
  <2>6. QED BY <2>1, <2>2, <2>3, <2>4, <2>5
<1>6. QED BY <1>1, <1>2, <1>3, <1>4, <1>5 DEF Readings, Modes

\* The recursion of the server's reading has a solution.
LEMMA ReadingOf ==
    ASSUME NEW sql, Len(sql) \in Nat
    PROVE  IsReading(ServerStates(sql), sql)
<1> DEFINE TurnAt(s, i) == ServerChar(s, CharAt(sql, i), CharAt(sql, i + 1), CharAt(sql, i + 2))
           Body(f) == [i \in 0..Len(sql) |-> IF i = 0 THEN ServerStart ELSE TurnAt(f[i - 1], i)]
           after == CHOOSE f : f = Body(f)
           step == [i \in 1..Len(sql) |-> [s \in Readings |-> TurnAt(s, i)]]
<1>1. ServerStart \in Readings
  BY DEF ServerStart, Readings, Modes
<1>2. \A i : \A s \in Readings : TurnAt(s, i) \in Readings
  BY ServerTyped
<1>3. ServerStates(sql) = after
  BY DEF ServerStates
<1> HIDE DEF TurnAt
<1>4. step \in [1..Len(sql) -> [Readings -> Readings]]
  BY <1>2
<1>5. \A i \in 1..Len(sql), s \in Readings : step[i][s] = TurnAt(s, i)
  OBVIOUS
<1> HIDE DEF Body, step
<1>6. PICK f : IsIteration(f, Readings, ServerStart, Len(sql), step)
  BY <1>1, <1>4, Iteration
<1>7. f = Body(f)
  <2>1. f \in [0..Len(sql) -> Readings] /\ f[0] = ServerStart
    BY <1>6 DEF IsIteration
  <2>2. ASSUME NEW i \in 1..Len(sql)
        PROVE  f[i] = TurnAt(f[i - 1], i)
    <3>1. f[i - 1] \in Readings
      BY <2>1
    <3>2. f[i] = step[i][f[i - 1]]
      BY <1>6 DEF IsIteration
    <3>3. QED BY <1>5, <3>1, <3>2
  <2>3. \A i \in 0..Len(sql) : f[i] = IF i = 0 THEN ServerStart ELSE TurnAt(f[i - 1], i)
    BY <2>1, <2>2
  <2>4. f = [i \in 0..Len(sql) |-> f[i]]
    BY <2>1
  <2>5. [i \in 0..Len(sql) |-> f[i]] =
            [i \in 0..Len(sql) |-> IF i = 0 THEN ServerStart ELSE TurnAt(f[i - 1], i)]
    BY <2>3
  <2>6. QED BY <2>4, <2>5, Zenon DEF Body
<1>8. after = Body(after)
  BY <1>7
<1> HIDE DEF after
<1>9. after[0] = ServerStart /\ \A i \in 1..Len(sql) : after[i] = TurnAt(after[i - 1], i)
  BY <1>8 DEF Body
<1>10. \A i \in 0..Len(sql) : after[i] \in Readings
  <2>1. StaysIn(after, Readings, Len(sql))
    BY <1>1, <1>2, <1>9 DEF StaysIn
  <2>2. QED BY <2>1, IterationTyped
<1>11. after \in [0..Len(sql) -> Readings]
  BY <1>8, <1>10 DEF Body
<1>12. QED BY <1>3, <1>9, <1>11 DEF IsReading, TurnAt

\* Where the scanner and the server stand after the same characters.  What the
\* scanner has seen of a second statement it does not forget.
Counted(s, t) ==
    /\ t.statements <= 1
    /\ t.begun => t.statements = 1
    /\ t.statements = 1 /\ ~ t.begun => s.ended
    /\ s.saw => t.statements = 1
Together(s, t) ==
    /\ s.mode = t.mode
    /\ IF s.skip THEN t.skip = 1 ELSE t.skip = 0
    /\ ~ t.executable
    /\ s.second \/ Counted(s, t)

\* The two stay together in code, unless the scanner misreads what is there.
LEMMA CodeTogether ==
    ASSUME NEW s \in ScanStates, NEW t \in Readings, Together(s, t), ~ s.skip, s.mode = "code",
           NEW c, NEW d, NEW e, ~ MisreadAt(t, c, d, e)
    PROVE  Together(ReadCode(s, c, d, e), ServerCode(t, c, d, e))
<1> DEFINE line == c = "dash" /\ d = "dash" /\ e \in Space
           block == c = "slash" /\ d = "star"
<1>1. t.mode = "code" /\ t.skip = 0 /\ ~ t.executable
  BY DEF Together
<1>2. /\ block => e # "bang"
      /\ c = "dash" /\ d = "dash" => e \notin {"control", End}
      /\ c \in Quotes => t.statements = 0 \/ t.begun
  BY <1>1 DEF MisreadAt, Readings
<1>3. CASE c = "hash"
  <2>1. /\ ReadCode(s, c, d, e) = [s EXCEPT !.mode = "line", !.skip = FALSE]
        /\ ServerCode(t, c, d, e) = [t EXCEPT !.mode = "line"]
    BY <1>3 DEF ReadCode, ServerCode, Quotes, Space, CR
  <2>2. QED BY <1>1, <2>1 DEF Together, Counted, ScanStates, Readings
<1>4. CASE line
  <2>1. /\ ReadCode(s, c, d, e) = [s EXCEPT !.mode = "line", !.skip = TRUE]
        /\ ServerCode(t, c, d, e) = [t EXCEPT !.mode = "line", !.skip = 1]
    BY <1>4 DEF ReadCode, ServerCode, Quotes, Space, CR
  <2>2. QED BY <1>1, <2>1 DEF Together, Counted, ScanStates, Readings
<1>5. CASE block
  <2>1. /\ ReadCode(s, c, d, e) = [s EXCEPT !.mode = "block", !.skip = TRUE]
        /\ ServerCode(t, c, d, e) = [t EXCEPT !.mode = "block", !.skip = 1]
    BY <1>2, <1>5 DEF ReadCode, ServerCode, Quotes, Space, CR
  <2>2. QED BY <1>1, <2>1 DEF Together, Counted, ScanStates, Readings
<1>6. CASE c \in Quotes
  <2>1. c \notin {"hash", "dash", "slash", "star", "semicolon"}
    BY <1>6 DEF Quotes
  <2>2. /\ ReadCode(s, c, d, e) = [s EXCEPT !.mode = c]
        /\ ServerCode(t, c, d, e) = [Begun(t) EXCEPT !.mode = c]
    <3>1. c \notin Space
      BY <1>6 DEF Quotes, Space, CR
    <3>2. ReadCode(s, c, d, e) = [s EXCEPT !.mode = c]
      BY <1>6, <2>1, <3>1 DEF ReadCode
    <3>3. ServerCode(t, c, d, e) = [Begun(t) EXCEPT !.mode = c]
      BY <1>6, <2>1, <3>1 DEF ServerCode
    <3>4. QED BY <3>2, <3>3
  <2>3. /\ ServerCode(t, c, d, e).mode = c
        /\ ServerCode(t, c, d, e).skip = 0
        /\ ~ ServerCode(t, c, d, e).executable
        /\ ServerCode(t, c, d, e).begun
        /\ ServerCode(t, c, d, e).statements = IF t.begun THEN t.statements ELSE t.statements + 1
    BY <1>1, <2>2, BegunTyped DEF Readings
  <2>4. /\ ReadCode(s, c, d, e).mode = c
        /\ ReadCode(s, c, d, e).skip = FALSE
        /\ ReadCode(s, c, d, e).saw = s.saw
        /\ ReadCode(s, c, d, e).second = s.second
    BY <2>2 DEF ScanStates
  <2>5. QED BY <1>2, <1>6, <2>3, <2>4 DEF Together, Counted, Readings
<1>7. CASE c = "semicolon"
  <2>1. /\ ReadCode(s, c, d, e) = [s EXCEPT !.ended = TRUE]
        /\ ServerCode(t, c, d, e) = [t EXCEPT !.begun = FALSE]
    BY <1>7 DEF ReadCode, ServerCode, Quotes, Space, CR
  <2>2. QED BY <1>1, <2>1 DEF Together, Counted, ScanStates, Readings
<1>8. CASE c \in Space
  <2>1. ReadCode(s, c, d, e) = s /\ ServerCode(t, c, d, e) = t
    BY <1>8 DEF ReadCode, ServerCode, Space, Quotes, CR
  <2>2. QED BY <2>1
<1>9. CASE /\ c # "hash" /\ ~ line /\ ~ block
           /\ c \notin Quotes \cup Space \cup {"semicolon"}
  <2>1. ReadCode(s, c, d, e) = [s EXCEPT !.saw = TRUE, !.second = @ \/ s.ended]
    BY <1>9 DEF ReadCode
  <2>2. ~ (c = "dash" /\ d = "dash" /\ e \in Space \cup {"control", End})
    BY <1>2, <1>9
  <2>3. ServerCode(t, c, d, e) = Begun(t)
    BY <1>1, <1>9, <2>2 DEF ServerCode
  <2>4. /\ Begun(t).mode = "code" /\ Begun(t).skip = 0 /\ ~ Begun(t).executable /\ Begun(t).begun
        /\ Begun(t).statements = IF t.begun THEN t.statements ELSE t.statements + 1
    BY <1>1, BegunTyped
  <2>5. /\ ReadCode(s, c, d, e).mode = "code"
        /\ ReadCode(s, c, d, e).skip = FALSE
        /\ s.second \/ s.ended => ReadCode(s, c, d, e).second
    BY <2>1 DEF ScanStates
  <2>6. s.second \/ s.ended \/ t.statements = 0 \/ t.begun
    BY DEF Together, Counted, Readings
  <2>7. s.second \/ s.ended \/ Begun(t).statements = 1
    BY <2>4, <2>6 DEF Together, Counted
  <2>8. ReadCode(s, c, d, e).second \/ Counted(ReadCode(s, c, d, e), Begun(t))
    <3>1. Begun(t).statements = 1 => Counted(ReadCode(s, c, d, e), Begun(t))
      BY <2>4 DEF Counted
    <3>2. QED BY <2>5, <2>7, <3>1
  <2>9. QED BY <2>3, <2>4, <2>5, <2>8 DEF Together
<1>10. QED BY <1>3, <1>4, <1>5, <1>6, <1>7, <1>8, <1>9

\* And everywhere.
LEMMA StayTogether ==
    ASSUME NEW s \in ScanStates, NEW t \in Readings, Together(s, t),
           NEW c, NEW d, NEW e, ~ MisreadAt(t, c, d, e)
    PROVE  Together(ReadChar(s, c, d, e), ServerChar(t, c, d, e))
<1>1. CASE s.skip
  <2>1. ReadChar(s, c, d, e) = [s EXCEPT !.skip = FALSE]
    BY <1>1 DEF ReadChar
  <2>2. t.skip = 1
    BY <1>1 DEF Together
  <2>3. ServerChar(t, c, d, e) = [t EXCEPT !.skip = 0]
    BY <2>2 DEF ServerChar, Readings
  <2>4. QED BY <2>1, <2>3 DEF Together, Counted, ScanStates, Readings
<1>2. CASE ~ s.skip /\ s.mode = "line"
  <2>1. ReadChar(s, c, d, e) = [s EXCEPT !.mode = IF c = "newline" THEN "code" ELSE @]
    BY <1>2 DEF ReadChar, Quotes
  <2>2. t.skip = 0 /\ t.mode = "line"
    BY <1>2 DEF Together
  <2>3. ServerChar(t, c, d, e) = [t EXCEPT !.mode = IF c = "newline" THEN "code" ELSE @]
    BY <2>2 DEF ServerChar, Quotes
  <2>4. QED BY <1>2, <2>1, <2>2, <2>3 DEF Together, Counted, ScanStates, Readings
<1>3. CASE ~ s.skip /\ s.mode = "block"
  <2>1. t.skip = 0 /\ t.mode = "block"
    BY <1>3 DEF Together
  <2>2. CASE c = "star" /\ d = "slash"
    <3>1. /\ ReadChar(s, c, d, e) = [s EXCEPT !.mode = "code", !.skip = TRUE]
          /\ ServerChar(t, c, d, e) = [t EXCEPT !.mode = "code", !.skip = 1]
      BY <1>3, <2>1, <2>2 DEF ReadChar, ServerChar, Quotes
    <3>2. QED BY <3>1 DEF Together, Counted, ScanStates, Readings
  <2>3. CASE ~ (c = "star" /\ d = "slash")
    <3>1. ReadChar(s, c, d, e) = s /\ ServerChar(t, c, d, e) = t
      BY <1>3, <2>1, <2>3 DEF ReadChar, ServerChar, Quotes
    <3>2. QED BY <3>1
  <2>4. QED BY <2>2, <2>3
<1>4. CASE ~ s.skip /\ s.mode \in Quotes
  <2>1. t.skip = 0 /\ t.mode = s.mode
    BY <1>4 DEF Together
  <2>2. ~ (t.mode = "backtick" /\ c = "backslash")
    BY <2>1 DEF MisreadAt
  <2>3. /\ ReadChar(s, c, d, e) = ReadQuoted(s, c, d)
        /\ ServerChar(t, c, d, e) = ServerQuoted(t, c, d)
    BY <1>4, <2>1 DEF ReadChar, ServerChar, Quotes
  <2>4. s.mode # "backslash"
    BY <1>4 DEF Quotes
  <2>5. CASE c = "backslash" \/ (c = s.mode /\ d = s.mode)
    <3>1. ReadQuoted(s, c, d) = [s EXCEPT !.skip = TRUE]
      BY <2>4, <2>5 DEF ReadQuoted
    <3>2. ServerQuoted(t, c, d) = [t EXCEPT !.skip = 1]
      BY <2>1, <2>2, <2>4, <2>5 DEF ServerQuoted
    <3>3. QED BY <2>3, <3>1, <3>2 DEF Together, Counted, ScanStates, Readings
  <2>6. CASE c = s.mode /\ d # s.mode
    <3>1. /\ ReadQuoted(s, c, d) = [s EXCEPT !.mode = "code"]
          /\ ServerQuoted(t, c, d) = [t EXCEPT !.mode = "code"]
      BY <2>1, <2>4, <2>6 DEF ReadQuoted, ServerQuoted
    <3>2. QED BY <1>4, <2>1, <2>3, <3>1 DEF Together, Counted, ScanStates, Readings
  <2>7. CASE c # "backslash" /\ c # s.mode
    <3>1. ReadQuoted(s, c, d) = s /\ ServerQuoted(t, c, d) = t
      BY <2>1, <2>7 DEF ReadQuoted, ServerQuoted
    <3>2. QED BY <2>3, <3>1
  <2>8. QED BY <2>5, <2>6, <2>7
<1>5. CASE ~ s.skip /\ s.mode = "code"
  <2>1. t.skip = 0 /\ t.mode = "code"
    BY <1>5 DEF Together
  <2>2. /\ ReadChar(s, c, d, e) = ReadCode(s, c, d, e)
        /\ ServerChar(t, c, d, e) = ServerCode(t, c, d, e)
    BY <1>5, <2>1 DEF ReadChar, ServerChar, Quotes
  <2>3. QED BY <1>5, <2>2, CodeTogether
<1>6. QED BY <1>1, <1>2, <1>3, <1>4, <1>5 DEF ScanStates, Modes

\* A text that isSingleServerStatement passes is one statement as the server reads
\* it, by its own rules for quotes, escapes and comments, however many of them it
\* has and however long it is: unless it has one of the places that Misread names.
THEOREM OneStatementPasses ==
    ASSUME NEW T, NEW sql \in Seq(T), IsSingleServerStatement(sql), ~ Misread(sql)
    PROVE  OneServerStatement(sql)
<1> DEFINE g == ServerStates(sql)
           n == Len(sql)
<1>1. n \in Nat
  OBVIOUS
<1>2. PICK f : /\ IsScan(f, sql)
               /\ f[n].saw /\ ~ f[n].second /\ f[n].mode \in {"code", "line"}
  BY <1>1, ScanOf
<1>3. IsReading(g, sql)
  BY <1>1, ReadingOf
<1>4. \A i \in 1..n :
          ~ MisreadAt(g[i - 1], CharAt(sql, i), CharAt(sql, i + 1), CharAt(sql, i + 2))
  <2>1. DOMAIN sql = 1..n
    OBVIOUS
  <2>2. QED BY <2>1 DEF Misread
<1>5. OneServerStatement(sql) <=>
        g[n].statements = 1 /\ g[n].mode \in {"code", "line"} /\ ~ g[n].executable
  BY DEF OneServerStatement
<1> HIDE DEF g
<1> DEFINE S == {i \in Nat : i <= n => Together(f[i], g[i])}
<1>6. 0 \in S
  BY <1>2, <1>3 DEF IsScan, IsReading, Start, ServerStart, Together, Counted
<1>7. ASSUME NEW i \in Nat, i \in S
      PROVE  i + 1 \in S
  <2> SUFFICES ASSUME i + 1 <= n
               PROVE  Together(f[i + 1], g[i + 1])
    OBVIOUS
  <2> DEFINE c == CharAt(sql, i + 1)
             d == CharAt(sql, (i + 1) + 1)
             e == CharAt(sql, (i + 1) + 2)
  <2>1. i + 1 \in 1..n /\ (i + 1) - 1 = i /\ i \in 0..n
    BY <1>1
  <2>2. Together(f[i], g[i])
    BY <1>7, <2>1
  <2>3. f[i] \in ScanStates /\ f[i + 1] = ReadChar(f[i], c, d, e)
    BY <1>2, <2>1 DEF IsScan
  <2>4. g[i] \in Readings /\ g[i + 1] = ServerChar(g[i], c, d, e)
    BY <1>3, <2>1 DEF IsReading
  <2>5. ~ MisreadAt(g[i], c, d, e)
    BY <1>4, <2>1
  <2> HIDE DEF c, d, e
  <2>6. QED BY <2>2, <2>3, <2>4, <2>5, StayTogether
<1> HIDE DEF S
<1>8. n \in S
  BY <1>1, <1>6, <1>7, Induction
<1>9. Together(f[n], g[n])
  BY <1>1, <1>8 DEF S
<1>10. QED BY <1>2, <1>5, <1>9 DEF Together, Counted

-----------------------------------------------------------------------------
(* Sorted                                                                  *)

\* q has the elements of S in the order of their keys.
IsSorting(q, S, key) ==
    /\ q \in [1..Cardinality(S) -> S]
    /\ \A i, j \in 1..Cardinality(S) : i < j => key[q[i]] < key[q[j]]

\* A finite set whose elements have different keys can be sorted: its least
\* element comes before those of the others.
LEMMA SortingExists ==
    ASSUME NEW U, IsFiniteSet(U), NEW key \in [U -> Nat],
           \A x, y \in U : key[x] = key[y] => x = y
    PROVE  \E q : IsSorting(q, U, key)
<1> DEFINE Sortable(n) == \A S \in SUBSET U :
               IsFiniteSet(S) /\ Cardinality(S) = n => \E q : IsSorting(q, S, key)
           N == {n \in Nat : Sortable(n)}
<1>1. 0 \in N
  <2>1. ASSUME NEW S \in SUBSET U, Cardinality(S) = 0
        PROVE  IsSorting([i \in 1..0 |-> 0], S, key)
    BY <2>1 DEF IsSorting
  <2>2. QED BY <2>1
<1>2. ASSUME NEW n \in Nat, n \in N
      PROVE  n + 1 \in N
  <2> SUFFICES ASSUME NEW S \in SUBSET U, IsFiniteSet(S), Cardinality(S) = n + 1
               PROVE  \E q : IsSorting(q, S, key)
    OBVIOUS
  <2>1. S # {}
    BY FS_EmptySet
  <2>2. PICK x \in S : \A y \in S : key[x] <= key[y]
    <3> DEFINE K == {key[y] : y \in S}
    <3>1. K \subseteq Nat /\ K # {}
      BY <2>1
    <3> HIDE DEF K
    <3>2. PICK k \in K : \A l \in K : k <= l
      BY <3>1, LeastNumber
    <3>3. QED BY <3>2 DEF K
  <2>3. IsFiniteSet(S \ {x}) /\ Cardinality(S \ {x}) = n
    <3>1. IsFiniteSet(S \ {x}) /\ Cardinality(S \ {x}) = Cardinality(S) - 1
      BY FS_RemoveElement
    <3>2. QED BY <3>1
  <2>4. PICK p : IsSorting(p, S \ {x}, key)
    BY <1>2, <2>3
  <2> DEFINE q == [i \in 1..n + 1 |-> IF i = 1 THEN x ELSE p[i - 1]]
  <2>5. /\ p \in [1..n -> S \ {x}]
        /\ \A i, j \in 1..n : i < j => key[p[i]] < key[p[j]]
    BY <2>3, <2>4 DEF IsSorting
  <2>6. \A i \in 1..n + 1 : i = 1 \/ (i - 1 \in 1..n /\ p[i - 1] \in S /\ p[i - 1] # x)
    BY <2>5
  <2>7. q \in [1..n + 1 -> S]
    BY <2>6
  <2>8. ASSUME NEW i \in 1..n + 1, NEW j \in 1..n + 1, i < j
        PROVE  key[q[i]] < key[q[j]]
    <3>1. j # 1 /\ q[j] = p[j - 1] /\ p[j - 1] \in S /\ p[j - 1] # x
      BY <2>6, <2>8
    <3>2. CASE i = 1
      <4>1. key[x] <= key[p[j - 1]] /\ key[x] # key[p[j - 1]]
        BY <2>2, <3>1
      <4>2. key[x] \in Nat /\ key[p[j - 1]] \in Nat
        BY <3>1
      <4>3. QED BY <3>1, <3>2, <4>1, <4>2
    <3>3. CASE i # 1
      <4>1. i - 1 \in 1..n /\ j - 1 \in 1..n /\ i - 1 < j - 1
        BY <2>8, <3>3
      <4>2. q[i] = p[i - 1]
        BY <3>3
      <4>3. QED BY <2>5, <3>1, <4>1, <4>2
    <3>4. QED BY <3>2, <3>3
  <2> HIDE DEF q
  <2>9. QED BY <2>7, <2>8 DEF IsSorting
<1> HIDE DEF Sortable
<1>3. Nat \subseteq N
  <2> HIDE DEF N
  <2>1. QED BY <1>1, <1>2, Induction
<1>4. Sortable(Cardinality(U))
  BY <1>3, FS_CardinalityType
<1>5. QED BY <1>4 DEF Sortable

\* What is sorted is in order and whole.
LEMMA SortedIsWhole ==
    ASSUME NEW S, IsFiniteSet(S), NEW key \in [S -> Nat],
           \A x, y \in S : key[x] = key[y] => x = y
    PROVE  /\ DOMAIN Sorted(S, key) = 1..Cardinality(S)
           /\ \A i, j \in DOMAIN Sorted(S, key) :
                 i < j => key[Sorted(S, key)[i]] < key[Sorted(S, key)[j]]
           /\ Elems(Sorted(S, key)) = S
           /\ Sorted(S, key) \in Seq(S)
<1> DEFINE n == Cardinality(S)
           q == Sorted(S, key)
<1>1. IsSorting(q, S, key)
  <2>1. \E p : IsSorting(p, S, key)
    BY SortingExists
  <2>2. QED BY <2>1 DEF Sorted, IsSorting
<1>2. n \in Nat
  BY FS_CardinalityType
<1> HIDE DEF q
<1>3. q \in [1..n -> S] /\ \A i, j \in 1..n : i < j => key[q[i]] < key[q[j]]
  BY <1>1 DEF IsSorting
<1> HIDE DEF n
<1>4. q \in Injection(1..n, S)
  <2>1. ASSUME NEW i \in 1..n, NEW j \in 1..n, i # j
        PROVE  q[i] # q[j]
    <3>1. i < j \/ j < i
      BY <1>2, <2>1
    <3>2. key[q[i]] \in Nat /\ key[q[j]] \in Nat
      BY <1>3
    <3>3. key[q[i]] < key[q[j]] \/ key[q[j]] < key[q[i]]
      BY <1>3, <3>1
    <3>4. QED BY <3>2, <3>3
  <2>2. QED BY <1>3, <2>1 DEF Injection, IsInjective
<1>5. q \in Surjection(1..n, S)
  <2>1. IsFiniteSet(1..n) /\ Cardinality(1..n) = n
    BY <1>2, FS_Interval
  <2>2. QED BY <1>4, <2>1, FS_Injection DEF n
<1>6. Elems(q) = S
  BY <1>3, <1>5 DEF Elems, Surjection
<1>7. QED BY <1>2, <1>3, <1>6 DEF n, q

-----------------------------------------------------------------------------
(* migrationChecksum                                                       *)

\* What is hashed of a step.
Hashed(id, phase, execution, a, v) == <<id, phase, execution>> \o Sized(a) \o Sized(v)

\* A text after another one.
LEMMA Joined ==
    ASSUME NEW U, NEW s \in Seq(U), NEW t \in Seq(U)
    PROVE  /\ s \o t \in Seq(U) /\ Len(s \o t) = Len(s) + Len(t)
           /\ \A k \in 1..Len(s) : (s \o t)[k] = s[k]
           /\ \A k \in 1..Len(t) : (s \o t)[Len(s) + k] = t[k]
OBVIOUS

\* Its parts are where the sizes say.
LEMMA HashedParts ==
    ASSUME NEW T, NEW a \in Seq(T), NEW v \in Seq(T), NEW id, NEW phase, NEW execution
    PROVE  LET h == Hashed(id, phase, execution, a, v)
           IN  /\ h[1] = id /\ h[2] = phase /\ h[3] = execution /\ h[4] = Len(a)
               /\ \A k \in 1..Len(a) : h[4 + k] = a[k]
               /\ h[5 + Len(a)] = Len(v)
               /\ \A k \in 1..Len(v) : h[5 + Len(a) + k] = v[k]
<1> DEFINE U == T \cup Nat \cup {id, phase, execution}
           head == <<id, phase, execution>>
           h == Hashed(id, phase, execution, a, v)
<1>1. Len(a) \in Nat /\ Len(v) \in Nat
  OBVIOUS
<1>2. head \in Seq(U) /\ Len(head) = 3 /\ head[1] = id /\ head[2] = phase /\ head[3] = execution
  OBVIOUS
<1>3. \A w \in Seq(T) : /\ Sized(w) \in Seq(U) /\ Len(Sized(w)) = Len(w) + 1 /\ Sized(w)[1] = Len(w)
                        /\ \A k \in 1..Len(w) : Sized(w)[k + 1] = w[k]
  <2> SUFFICES ASSUME NEW w \in Seq(T)
               PROVE  /\ Sized(w) \in Seq(U) /\ Len(Sized(w)) = Len(w) + 1 /\ Sized(w)[1] = Len(w)
                      /\ \A k \in 1..Len(w) : Sized(w)[k + 1] = w[k]
    OBVIOUS
  <2>1. <<Len(w)>> \in Seq(U) /\ w \in Seq(U) /\ Len(w) \in Nat
    OBVIOUS
  <2>2. QED BY <2>1 DEF Sized
<1> HIDE DEF U, head
<1> DEFINE x == head \o Sized(a)
<1>4. /\ x \in Seq(U) /\ Len(x) = 4 + Len(a) /\ x[1] = head[1] /\ x[2] = head[2] /\ x[3] = head[3]
      /\ \A k \in 1..Len(a) + 1 : x[3 + k] = Sized(a)[k]
  <2>1. head \in Seq(U) /\ Sized(a) \in Seq(U)
    BY <1>2, <1>3
  <2>2. /\ x \in Seq(U) /\ Len(x) = Len(head) + Len(Sized(a))
        /\ \A k \in 1..Len(head) : x[k] = head[k]
        /\ \A k \in 1..Len(Sized(a)) : x[Len(head) + k] = Sized(a)[k]
    BY <2>1, Joined
  <2>3. Len(head) = 3 /\ Len(Sized(a)) = Len(a) + 1
    BY <1>2, <1>3
  <2> HIDE DEF x
  <2>4. QED BY <1>1, <2>2, <2>3
<1>5. h = x \o Sized(v)
  BY DEF Hashed, head
<1> HIDE DEF x, h
<1>6. /\ \A k \in 1..4 + Len(a) : h[k] = x[k]
      /\ \A k \in 1..Len(v) + 1 : h[4 + Len(a) + k] = Sized(v)[k]
  BY <1>1, <1>3, <1>4, <1>5
<1>7. h[1] = id /\ h[2] = phase /\ h[3] = execution
  BY <1>1, <1>2, <1>4, <1>6
<1>8. h[4] = Len(a)
  <2>1. h[3 + 1] = x[3 + 1] /\ x[3 + 1] = Sized(a)[1]
    BY <1>1, <1>4, <1>6
  <2>2. QED BY <1>3, <2>1
<1>9. ASSUME NEW k \in 1..Len(a)
       PROVE  h[4 + k] = a[k]
  <2>1. 4 + k = 3 + (k + 1) /\ k + 1 \in 1..Len(a) + 1 /\ 4 + k \in 1..4 + Len(a)
    BY <1>1
  <2>2. h[4 + k] = Sized(a)[k + 1]
    BY <1>4, <1>6, <2>1
  <2>3. QED BY <1>3, <2>2
<1>10. h[5 + Len(a)] = Len(v)
  <2>1. 5 + Len(a) = 4 + Len(a) + 1 /\ 1 \in 1..Len(v) + 1
    BY <1>1
  <2>2. QED BY <1>3, <1>6, <2>1
<1>11. ASSUME NEW k \in 1..Len(v)
       PROVE  h[5 + Len(a) + k] = v[k]
  <2>1. 5 + Len(a) + k = 4 + Len(a) + (k + 1) /\ k + 1 \in 1..Len(v) + 1
    BY <1>1
  <2>2. QED BY <1>3, <1>6, <2>1
<1>12. QED BY <1>7, <1>8, <1>9, <1>10, <1>11 DEF h

\* No two steps have the same checksum: no character can move from one text to
\* the other, nor the end of a text to a place where it is not noticed.
THEOREM HashedOnce ==
    ASSUME NEW T, NEW a \in Seq(T), NEW v \in Seq(T), NEW id, NEW phase, NEW execution,
           NEW b \in Seq(T), NEW w \in Seq(T), NEW jd, NEW qhase, NEW fxecution,
           Hashed(id, phase, execution, a, v) = Hashed(jd, qhase, fxecution, b, w)
    PROVE  id = jd /\ phase = qhase /\ execution = fxecution /\ a = b /\ v = w
<1> DEFINE h == Hashed(id, phase, execution, a, v)
<1>1. /\ h[1] = id /\ h[2] = phase /\ h[3] = execution /\ h[4] = Len(a)
      /\ \A k \in 1..Len(a) : h[4 + k] = a[k]
      /\ h[5 + Len(a)] = Len(v)
      /\ \A k \in 1..Len(v) : h[5 + Len(a) + k] = v[k]
  BY HashedParts
<1>2. /\ h[1] = jd /\ h[2] = qhase /\ h[3] = fxecution /\ h[4] = Len(b)
      /\ \A k \in 1..Len(b) : h[4 + k] = b[k]
      /\ h[5 + Len(b)] = Len(w)
      /\ \A k \in 1..Len(w) : h[5 + Len(b) + k] = w[k]
  BY HashedParts
<1> HIDE DEF h
<1>3. Len(a) = Len(b) /\ Len(v) = Len(w)
  BY <1>1, <1>2
<1>4. \A k \in 1..Len(a) : a[k] = b[k]
  BY <1>1, <1>2, <1>3
<1>5. \A k \in 1..Len(v) : v[k] = w[k]
  BY <1>1, <1>2, <1>3
<1>6. a = b
  BY <1>3, <1>4
<1>7. v = w
  BY <1>3, <1>5
<1>8. QED BY <1>1, <1>2, <1>6, <1>7

-----------------------------------------------------------------------------
(* discoverMigrations and readMigrationBootstrapSql                        *)

\* TextsAreSingle, of one text and of the two of a step.
IsSingle(sql) == Misread(sql) \/ OneServerStatement(sql)
AreSingle(x) == IsSingle(x.applySql) /\ IsSingle(x.verifySql)

\* A text that is read and passes is one statement, if nothing in it is misread.
LEMMA ReadableIsOneStatement ==
    ASSUME NEW text, IsText(text), Readable(text)
    PROVE  IsSingle(ReadText(text))
<1> DEFINE T == STRING
<1>1. text \in Seq(T) /\ IsSingleServerStatement(ReadText(text))
  BY DEF IsText, Readable
<1> HIDE DEF T
<1>2. ReadText(text) \in Seq(T)
  BY <1>1, ReadTextTyped
<1>3. QED BY <1>1, <1>2, OneStatementPasses DEF IsSingle

\* An accepted file has an id, and two texts that are single.
LEMMA AcceptedStep ==
    ASSUME NEW f, IsStepFile(f), Accepted(f)
    PROVE  /\ f.id \in Nat /\ f.sha256 # Missing
           /\ AreSingle(StepOf(f))
<1>1. f["id"] # Missing /\ f["sha256"] # Missing
  BY DEF IsStepFile, Accepted
<1>2. IsSingle(ReadText(f.apply)) /\ IsSingle(ReadText(f.verify))
  BY ReadableIsOneStatement DEF IsStepFile, Accepted
<1>3. QED BY <1>1, <1>2 DEF IsStepFile, StepOf, AreSingle

\* A file that is accepted is as its author signed it, in all that becomes of it.
LEMMA AcceptedIsSigned ==
    ASSUME NEW f, IsStepFile(f), Accepted(f),
           NEW g, IsStepFile(g), Missing \notin {g.apply, g.verify},
           f.sha256 = MigrationChecksum(g), f.sha256 = g.sha256
    PROVE  StepOf(f) = StepOf(g)
<1> DEFINE T == STRING
           a == ReadText(f.apply)
           v == ReadText(f.verify)
           b == ReadText(g.apply)
           w == ReadText(g.verify)
<1>1. /\ f.apply \in Seq(T) /\ f.verify \in Seq(T)
      /\ g.apply \in Seq(T) /\ g.verify \in Seq(T)
  BY DEF IsStepFile, IsText, Accepted, Readable
<1> HIDE DEF T
<1>2. a \in Seq(T) /\ v \in Seq(T) /\ b \in Seq(T) /\ w \in Seq(T)
  BY <1>1, ReadTextTyped
<1>3. Hashed(f.id, f.phase, f.execution, a, v) = Hashed(g.id, g.phase, g.execution, b, w)
  BY DEF Accepted, MigrationChecksum, Hashed
<1> HIDE DEF a, v, b, w
<1>4. f.id = g.id /\ f.phase = g.phase /\ f.execution = g.execution /\ a = b /\ v = w
  BY <1>2, <1>3, HashedOnce
<1>5. QED BY <1>4 DEF StepOf, a, v, b, w

\* What a directory must be like to be a migration.
IsMigration(d) ==
    /\ IsDirectory(d) /\ d.named
    /\ d.files # {} /\ DistinctIds(d.files)
    /\ \A f \in d.files : Accepted(f)

\* The steps of a migration are those of its files, in order.
LEMMA StepsInOrder ==
    ASSUME NEW d, IsMigration(d)
    PROVE  /\ Steps(d) # << >>
           /\ Ascending([i \in DOMAIN Steps(d) |-> Steps(d)[i].id])
           /\ Elems(Steps(d)) = {StepOf(f) : f \in d.files}
<1> DEFINE key == [f \in d.files |-> f.id]
           files == Sorted(d.files, key)
<1>1. IsFiniteSet(d.files) /\ d.files # {} /\ \A f \in d.files : f.id \in Nat
  BY AcceptedStep DEF IsMigration, IsDirectory
<1>2. key \in [d.files -> Nat] /\ \A f, g \in d.files : key[f] = key[g] => f = g
  BY <1>1 DEF IsMigration, DistinctIds
<1>3. Steps(d) = [i \in DOMAIN files |-> StepOf(files[i])]
  BY DEF Steps
<1>4. \A f \in d.files : key[f] = f.id
  OBVIOUS
<1> HIDE DEF key
<1>5. /\ \A i, j \in DOMAIN files : i < j => key[files[i]] < key[files[j]]
      /\ Elems(files) = d.files
  BY <1>1, <1>2, SortedIsWhole
<1> HIDE DEF files
<1>6. /\ d.files = {files[i] : i \in DOMAIN files}
      /\ \A i \in DOMAIN files : files[i] \in d.files
  BY <1>5 DEF Elems
<1>7. DOMAIN Steps(d) = DOMAIN files /\ \A i \in DOMAIN files : Steps(d)[i] = StepOf(files[i])
  BY <1>3
<1>8. Elems(Steps(d)) = {StepOf(f) : f \in d.files}
  BY <1>6, <1>7 DEF Elems
<1>9. Steps(d) # << >>
  BY <1>1, <1>6, <1>7
<1>10. \A i \in DOMAIN files : Steps(d)[i].id = key[files[i]]
  BY <1>4, <1>6, <1>7 DEF StepOf
<1>11. Ascending([i \in DOMAIN Steps(d) |-> Steps(d)[i].id])
  BY <1>5, <1>7, <1>10 DEF Ascending
<1>12. QED BY <1>8, <1>9, <1>11

\* OrderedAndWhole, of the manifest of this directory.
Whole(root, m) ==
    /\ Ascending([i \in DOMAIN m |-> m[i].version])
    /\ \A d \in Elems(m) : d.steps # << >> /\ Ascending([i \in DOMAIN d.steps |-> d.steps[i].id])
    /\ {<<d.version, d.name, {StepOf(f) : f \in d.files}>> : d \in root} =
          {<<d.version, d.name, Elems(d.steps)>> : d \in Elems(m)}

MigrationOf(d) == [version |-> d.version, name |-> d.name, steps |-> Steps(d)]

\* The migrations are those of the directories, in order.
LEMMA MigrationsInOrder ==
    ASSUME NEW root, IsRoot(root), NEW m \in DiscoverMigrations(root)
    PROVE  /\ \A d \in root : IsMigration(d)
           /\ Elems(m) = {MigrationOf(d) : d \in root}
           /\ Whole(root, m)
<1> DEFINE key == [d \in root |-> d.version]
           dirs == Sorted(root, key)
<1>1. /\ \A d \in root : IsMigration(d)
      /\ DistinctVersions(root)
      /\ m = [i \in DOMAIN dirs |-> MigrationOf(dirs[i])]
  BY DEF DiscoverMigrations, IsRoot, IsMigration, MigrationOf
<1>2. IsFiniteSet(root) /\ \A d \in root : d.version \in Nat
  BY <1>1 DEF IsRoot, IsMigration, IsDirectory
<1>3. key \in [root -> Nat] /\ \A c, d \in root : key[c] = key[d] => c = d
  BY <1>1, <1>2 DEF DistinctVersions
<1>4. \A d \in root : key[d] = d.version
  OBVIOUS
<1> HIDE DEF key
<1>5. /\ \A i, j \in DOMAIN dirs : i < j => key[dirs[i]] < key[dirs[j]]
      /\ Elems(dirs) = root
  BY <1>2, <1>3, SortedIsWhole
<1> HIDE DEF dirs
<1>6. /\ root = {dirs[i] : i \in DOMAIN dirs}
      /\ \A i \in DOMAIN dirs : dirs[i] \in root
  BY <1>5 DEF Elems
<1>7. DOMAIN m = DOMAIN dirs /\ \A i \in DOMAIN dirs : m[i] = MigrationOf(dirs[i])
  BY <1>1
<1>8. Elems(m) = {MigrationOf(d) : d \in root}
  BY <1>6, <1>7 DEF Elems
<1>9. \A i \in DOMAIN dirs : m[i].version = key[dirs[i]]
  BY <1>4, <1>6, <1>7 DEF MigrationOf
<1>10. Ascending([i \in DOMAIN m |-> m[i].version])
  BY <1>5, <1>7, <1>9 DEF Ascending
<1>11. ASSUME NEW d \in root
       PROVE  LET e == MigrationOf(d)
              IN  /\ e.steps # << >> /\ Ascending([i \in DOMAIN e.steps |-> e.steps[i].id])
                  /\ <<e.version, e.name, Elems(e.steps)>> =
                        <<d.version, d.name, {StepOf(f) : f \in d.files}>>
  <2>1. /\ MigrationOf(d).version = d.version /\ MigrationOf(d).name = d.name
        /\ MigrationOf(d).steps = Steps(d)
    BY DEF MigrationOf
  <2>2. /\ Steps(d) # << >>
        /\ Ascending([i \in DOMAIN Steps(d) |-> Steps(d)[i].id])
        /\ Elems(Steps(d)) = {StepOf(f) : f \in d.files}
    BY <1>1, StepsInOrder
  <2>3. QED BY <2>1, <2>2
<1>12. Whole(root, m)
  <2>1. ASSUME NEW e \in Elems(m)
        PROVE  e.steps # << >> /\ Ascending([i \in DOMAIN e.steps |-> e.steps[i].id])
    BY <1>8, <1>11
  <2>2. {<<d.version, d.name, {StepOf(f) : f \in d.files}>> : d \in root} =
          {<<e.version, e.name, Elems(e.steps)>> : e \in Elems(m)}
    <3> DEFINE From(d) == <<d.version, d.name, {StepOf(f) : f \in d.files}>>
               To(e) == <<e.version, e.name, Elems(e.steps)>>
    <3>1. \A d \in root : To(MigrationOf(d)) = From(d)
      BY <1>11
    <3> HIDE DEF From, To
    <3>2. {From(d) : d \in root} = {To(e) : e \in Elems(m)}
      BY <1>8, <3>1
    <3>3. QED BY <3>2 DEF From, To
  <2>3. QED BY <1>10, <2>1, <2>2 DEF Whole
<1>13. QED BY <1>1, <1>8, <1>12

\* What readMigrationBootstrapSql yields for these files, whichever table it is for,
\* is single, twice.
LEMMA BootstrapIsSound ==
    ASSUME NEW files \in Bootstraps, NEW m \in ReadMigrationBootstrapSql(files), NEW x \in Elems(m)
    PROVE  AreSingle(x)
<1>1. /\ DOMAIN files = Elems(BootstrapNames)
      /\ \A n \in DOMAIN files : IsText(files[n].apply) /\ IsText(files[n].verify)
  BY BootstrapsAssumption
<1>2. /\ \A n \in DOMAIN files : Readable(files[n].apply) /\ Readable(files[n].verify)
      /\ m = [i \in DOMAIN BootstrapNames |->
                [id |-> BootstrapNames[i], applySql |-> ReadText(files[BootstrapNames[i]].apply),
                 verifySql |-> ReadText(files[BootstrapNames[i]].verify)]]
  BY DEF ReadMigrationBootstrapSql
<1>3. PICK i \in DOMAIN BootstrapNames : x = m[i]
  BY <1>2 DEF Elems
<1> DEFINE n == BootstrapNames[i]
<1>4. n \in DOMAIN files
  BY <1>1 DEF Elems
<1>5. x.applySql = ReadText(files[n].apply) /\ x.verifySql = ReadText(files[n].verify)
  BY <1>2, <1>3
<1>6. QED BY <1>1, <1>2, <1>4, <1>5, ReadableIsOneStatement DEF AreSingle

\* What discoverMigrations yields for this directory was signed, is in order and
\* whole, and the texts of its steps are single.
LEMMA DiscoveryIsSound ==
    ASSUME NEW root \in Roots, NEW m \in DiscoverMigrations(root)
    PROVE  /\ OnlySigned(m) /\ Whole(root, m)
           /\ \A d \in Elems(m) : \A x \in Elems(d.steps) :
                 AreSingle(x)
<1>1. IsRoot(root)
  BY RootsAssumption
<1>2. /\ \A d \in root : IsMigration(d)
      /\ Elems(m) = {MigrationOf(d) : d \in root}
      /\ Whole(root, m)
  BY <1>1, MigrationsInOrder
<1>3. ASSUME NEW d \in root, NEW f \in d.files
      PROVE  /\ StepOf(f) \in {StepOf(g) : g \in Authored}
             /\ AreSingle(StepOf(f))
  <2>1. IsStepFile(f) /\ Accepted(f)
    BY <1>2 DEF IsMigration, IsDirectory
  <2>2. f.sha256 # Missing
    BY <2>1, AcceptedStep
  <2>3. f.sha256 \in {Missing} \cup {g.sha256 : g \in Authored}
    BY RootsAssumption
  <2>4. PICK g \in Authored : f.sha256 = g.sha256
    BY <2>2, <2>3
  <2>5. IsStepFile(g) /\ Missing \notin {g.apply, g.verify} /\ g.sha256 = MigrationChecksum(g)
    BY AuthoredAssumption
  <2>6. StepOf(f) = StepOf(g)
    BY <2>1, <2>4, <2>5, AcceptedIsSigned
  <2>7. QED BY <2>1, <2>6, AcceptedStep
<1>4. ASSUME NEW e \in Elems(m)
      PROVE  \E d \in root : Elems(e.steps) = {StepOf(f) : f \in d.files}
  <2>1. PICK d \in root : e = MigrationOf(d)
    BY <1>2
  <2>2. e.steps = Steps(d)
    BY <2>1 DEF MigrationOf
  <2>3. Elems(Steps(d)) = {StepOf(f) : f \in d.files}
    BY <1>2, StepsInOrder
  <2>4. QED BY <2>2, <2>3
<1>5. ASSUME NEW e \in Elems(m), NEW x \in Elems(e.steps)
      PROVE  /\ x \in {StepOf(g) : g \in Authored}
             /\ AreSingle(x)
  BY <1>3, <1>4
<1>6. QED BY <1>2, <1>5 DEF OnlySigned

\* Whatever the directory "migrations" holds, in however many files of whatever
\* length: what the runner is given was signed by its author in every part, has its
\* versions and steps in order and none of them dropped.
THEOREM MigrationsAreSound == Spec => []DiscoveredIsSound
<1>1. Init => DiscoveredIsSound
  BY DEF Init, DiscoveredIsSound, Kind
<1>2. DiscoveredIsSound /\ [Next]_vars => DiscoveredIsSound'
  <2> SUFFICES ASSUME DiscoveredIsSound, [Next]_vars
               PROVE  DiscoveredIsSound'
    OBVIOUS
  <2>1. ASSUME NEW env \in Environments, Load(env)
        PROVE  DiscoveredIsSound'
    BY <2>1 DEF Load, DiscoveredIsSound, Kind
  <2>2. ASSUME NEW root \in Roots, Discover(root)
        PROVE  DiscoveredIsSound'
    <3>1. Given' = root /\ outcome' = DiscoverMigrations(root)
      BY <2>2 DEF Discover, Given
    <3>2. ASSUME NEW m \in outcome'
          PROVE  OnlySigned(m) /\ OrderedAndWhole(m)'
      <4>1. OnlySigned(m) /\ Whole(root, m)
        BY <3>1, <3>2, DiscoveryIsSound
      <4>2. QED BY <3>1, <4>1 DEF Whole, OrderedAndWhole
    <3>3. QED BY <3>2 DEF DiscoveredIsSound
  <2>3. ASSUME NEW files \in Bootstraps, ReadBootstrap(files)
        PROVE  DiscoveredIsSound'
    BY <2>3 DEF ReadBootstrap, DiscoveredIsSound, Kind
  <2>4. ASSUME NEW text, Parse(text)
        PROVE  DiscoveredIsSound'
    BY <2>4 DEF Parse, DiscoveredIsSound, Kind
  <2>5. CASE UNCHANGED vars
    BY <2>5 DEF vars, DiscoveredIsSound, Kind, Given, OrderedAndWhole
  <2>6. QED BY <2>1, <2>2, <2>3, <2>4, <2>5 DEF Next
<1>3. QED BY <1>1, <1>2, PTL DEF Spec

\* And whatever the files hold, of the migrations and of the two control tables, each
\* text that is yielded is one statement as the server reads it, unless it has a place
\* that Misread names.
THEOREM TextsSingle == Spec => []TextsAreSingle
<1>1. Init => TextsAreSingle
  BY DEF Init, TextsAreSingle, StepsFound, Kind
<1>2. TextsAreSingle /\ [Next]_vars => TextsAreSingle'
  <2> SUFFICES ASSUME TextsAreSingle, [Next]_vars
               PROVE  TextsAreSingle'
    OBVIOUS
  <2>1. (\A x \in StepsFound' : AreSingle(x)) => TextsAreSingle'
    BY DEF TextsAreSingle, AreSingle, IsSingle
  <2>2. ASSUME NEW env \in Environments, Load(env)
        PROVE  TextsAreSingle'
    BY <2>2 DEF Load, TextsAreSingle, StepsFound, Kind
  <2>3. ASSUME NEW root \in Roots, Discover(root)
        PROVE  TextsAreSingle'
    <3>1. Kind' = "root" /\ outcome' = DiscoverMigrations(root)
      BY <2>3 DEF Discover, Kind
    <3>2. StepsFound' = UNION {Elems(d.steps) : d \in UNION {Elems(m) : m \in outcome'}}
      BY <3>1 DEF StepsFound
    <3>3. ASSUME NEW x \in StepsFound'
          PROVE  AreSingle(x)
      <4>1. PICK m \in outcome' : \E d \in Elems(m) : x \in Elems(d.steps)
        BY <3>2, <3>3
      <4>2. QED BY <3>1, <4>1, DiscoveryIsSound
    <3>4. QED BY <2>1, <3>3
  <2>4. ASSUME NEW files \in Bootstraps, ReadBootstrap(files)
        PROVE  TextsAreSingle'
    <3>1. Kind' = "bootstrap" /\ outcome' = ReadMigrationBootstrapSql(files)
      BY <2>4 DEF ReadBootstrap, Kind
    <3>2. StepsFound' = UNION {Elems(m) : m \in outcome'}
      BY <3>1 DEF StepsFound
    <3>3. ASSUME NEW x \in StepsFound'
          PROVE  AreSingle(x)
      BY <3>1, <3>2, <3>3, BootstrapIsSound
    <3>4. QED BY <2>1, <3>3
  <2>5. ASSUME NEW text, Parse(text)
        PROVE  TextsAreSingle'
    BY <2>5 DEF Parse, TextsAreSingle, StepsFound, Kind
  <2>6. CASE UNCHANGED vars
    BY <2>6 DEF vars, TextsAreSingle, StepsFound, Kind
  <2>7. QED BY <2>2, <2>3, <2>4, <2>5, <2>6 DEF Next
<1>3. QED BY <1>1, <1>2, PTL DEF Spec

\* Together, for every directory and every file: what the runner is given may be
\* migrated to.
THEOREM ManifestsAreSound == Spec => []ManifestIsSound
<1>1. DiscoveredIsSound /\ TextsAreSingle => ManifestIsSound
  BY DEF ManifestIsSound
<1>2. QED BY <1>1, MigrationsAreSound, TextsSingle, PTL
=============================================================================
