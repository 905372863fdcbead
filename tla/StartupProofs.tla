----------------------------- MODULE StartupProofs -----------------------------
(***************************************************************************)
(* Proofs of the invariants of Startup, for every set of configurations    *)
(* of the assumed shape: any number of sources, rules, patterns and texts. *)
(***************************************************************************)
EXTENDS Startup, TLAPS, WellFoundedInduction

-----------------------------------------------------------------------------
(* The inductive invariant, in parts.                                      *)

(* What a process runs with has passed the validation.                     *)
ConfigInv ==
  /\ config \in Configs
  /\ phase \in {"valid", "running"} => Valid(config)

(* The index is the one that the loop over the sources has built.          *)
IndexInv ==
  phase = "running" =>
    index = [name \in {RuleAt(p).name : p \in Places} |-> RuleAt(Winner(name))]

(* A match is of a line and of a rule that the source lists.               *)
MatchInv ==
  /\ match \in [pc : {"idle", "match", "done"}, source : Nat, place : Nat,
                line : Texts \cup {NoText}, k : Nat,
                candidate : Texts \cup {NoText}, ip : Addresses \cup {NoText}]
  /\ match.pc # "idle" =>
       <<match.source, match.place>> \in Places /\ match.line \in Texts

(* An expression without a group ip hands its last group on.               *)
Passes(re, text, next) ==
  re.on[text].matched /\ re.on[text].ip = NoText /\ re.on[text].last = next

(* The candidate for pattern k has come from the line.                     *)
ComesFrom(pattern, line, k, candidate) ==
  \E chain \in [1..k -> Texts] :
    /\ chain[1] = line
    /\ chain[k] = candidate
    /\ \A j \in 1..(k - 1) : Passes(pattern[j], chain[j], chain[j + 1])

(* A chain from the line whose last text yields ip.                        *)
Yields(pattern, line, n, chain, ip) ==
  /\ chain[1] = line
  /\ \A j \in 1..n : pattern[j].on[chain[j]].matched
  /\ \A j \in 1..(n - 1) : /\ pattern[j].on[chain[j]].ip = NoText
                           /\ pattern[j].on[chain[j]].last = chain[j + 1]
  /\ pattern[n].on[chain[n]].ip = ip

(* Every chain that yields an address has the candidate in its place k.    *)
OnlyWay(pattern, line, k, candidate) ==
  \A ip \in Addresses : \A n \in DOMAIN pattern : \A chain \in [1..n -> Texts] :
    Yields(pattern, line, n, chain, ip) => n >= k /\ chain[k] = candidate

(* The addresses that the chains from the line yield.                      *)
IpsOf(pattern, line) ==
  {ip \in Addresses :
     \E n \in DOMAIN pattern : \E chain \in [1..n -> Texts] :
       Yields(pattern, line, n, chain, ip)}

ChainInv ==
  match.pc = "match" =>
    /\ ComesFrom(TheRule.pattern, match.line, match.k, match.candidate)
    /\ OnlyWay(TheRule.pattern, match.line, match.k, match.candidate)

(* A match that is over has found the address that the chains yield, which *)
(* is the only one, or that there is none.                                 *)
FoundInv ==
  match.pc = "done" =>
    IpsOf(TheRule.pattern, match.line) =
      IF match.ip = NoText THEN {} ELSE {match.ip}

IInv ==
  TypeOK /\ ConfigInv /\ IndexInv /\ MatchInv /\ ChainInv /\ FoundInv

-----------------------------------------------------------------------------
(* The last of the definitions of a name.                                  *)

(* A set of positions of a list has a last one.                            *)
LEMMA LastOf ==
  ASSUME NEW N \in Nat, NEW S, S \subseteq 1..N, S # {}
  PROVE  \E m \in S : \A x \in S : x <= m
<1> DEFINE T == {N - x : x \in S}
<1>1. T \subseteq Nat /\ T # {}
  <2>1. \A x \in S : x \in 1..N /\ N - x \in Nat
    OBVIOUS
  <2>2. T \subseteq Nat
    BY <2>1
  <2>3. PICK x \in S : TRUE
    OBVIOUS
  <2> QED
    BY <2>2, <2>3
<1> HIDE DEF T
<1>2. PICK t \in T : \A u \in T : ~ (<<u, t>> \in OpToRel(<, Nat))
  BY <1>1, WFMin, NatLessThanWellFounded, Zenon
<1>3. \A u \in T : ~(u < t)
  BY <1>1, <1>2 DEF OpToRel
<1>4. PICK m \in S : t = N - m
  BY DEF T
<1>5. ASSUME NEW x \in S
      PROVE  x <= m
  <2>1. ~(N - x < N - m)
    BY <1>3, <1>4, <1>5 DEF T
  <2> QED
    BY <2>1
<1> QED
  BY <1>4, <1>5

(* Places are pairs of a source and a position in its list.                *)
LEMMA PlacesShape ==
  ASSUME config \in Configs
  PROVE  /\ Len(config.sources) \in Nat
         /\ DOMAIN config.sources = 1..Len(config.sources)
         /\ \A s \in DOMAIN config.sources :
              /\ s \in Nat
              /\ Len(config.sources[s].rules) \in Nat
              /\ DOMAIN config.sources[s].rules
                   = 1..Len(config.sources[s].rules)
         /\ \A p \in Places :
              /\ p = <<p[1], p[2]>>
              /\ p[1] \in DOMAIN config.sources /\ p[1] \in Nat
              /\ p[2] \in DOMAIN config.sources[p[1]].rules /\ p[2] \in Nat
              /\ RuleAt(p).pattern \in Seq(Regex)
         /\ \A s \in DOMAIN config.sources :
              \A i \in DOMAIN config.sources[s].rules : <<s, i>> \in Places
<1>1. config.sources \in Seq(SeqSet(config.sources))
  BY StartupAssumption
<1>2. Len(config.sources) \in Nat /\ DOMAIN config.sources = 1..Len(config.sources)
  BY <1>1
<1>3. ASSUME NEW s \in DOMAIN config.sources
      PROVE  /\ s \in Nat
             /\ Len(config.sources[s].rules) \in Nat
             /\ DOMAIN config.sources[s].rules = 1..Len(config.sources[s].rules)
             /\ \A i \in DOMAIN config.sources[s].rules :
                  config.sources[s].rules[i].pattern \in Seq(Regex)
  <2> DEFINE rules == config.sources[s].rules
  <2>1. config.sources[s] \in SeqSet(config.sources)
    BY DEF SeqSet
  <2>2. rules \in Seq(SeqSet(rules))
    BY <2>1, StartupAssumption
  <2>3. \A i \in DOMAIN rules : rules[i] \in SeqSet(rules)
    BY DEF SeqSet
  <2>4. \A i \in DOMAIN rules : rules[i].pattern \in Seq(Regex)
    BY <2>1, <2>3, StartupAssumption
  <2> QED
    BY <1>2, <2>2, <2>4
<1>4. ASSUME NEW p \in Places
      PROVE  /\ p = <<p[1], p[2]>>
             /\ p[1] \in DOMAIN config.sources
             /\ p[2] \in DOMAIN config.sources[p[1]].rules
  BY DEF Places
<1>5. ASSUME NEW p \in Places
      PROVE  /\ p[1] \in Nat /\ p[2] \in Nat
             /\ RuleAt(p).pattern \in Seq(Regex)
  BY <1>3, <1>4 DEF RuleAt
<1>6. \A s \in DOMAIN config.sources :
        \A i \in DOMAIN config.sources[s].rules : <<s, i>> \in Places
  BY DEF Places
<1> QED
  BY <1>2, <1>3, <1>4, <1>5, <1>6

(* A name that is defined has a last definition: Winner is well defined.   *)
LEMMA WinnerIsLast ==
  ASSUME config \in Configs, NEW name, Defining(name) # {}
  PROVE  /\ Winner(name) \in Defining(name)
         /\ \A q \in Defining(name) \ {Winner(name)} : Before(q, Winner(name))
<1>1. Defining(name) \subseteq Places
  BY DEF Defining
<1> DEFINE S == {p[1] : p \in Defining(name)}
<1>2. S \subseteq 1..Len(config.sources) /\ S # {}
  BY <1>1, PlacesShape
<1> HIDE DEF S
<1>3. PICK s \in S : \A x \in S : x <= s
  BY <1>2, LastOf, PlacesShape
<1> DEFINE I == {p[2] : p \in {q \in Defining(name) : q[1] = s}}
<1>4. I \subseteq 1..Len(config.sources[s].rules) /\ I # {}
  BY <1>1, <1>3, PlacesShape DEF S
<1>5. Len(config.sources[s].rules) \in Nat
  BY <1>2, <1>3, PlacesShape
<1> HIDE DEF I
<1>6. PICK i \in I : \A x \in I : x <= i
  BY <1>4, <1>5, LastOf
<1>7. PICK p \in Defining(name) : p[1] = s /\ p[2] = i
  BY <1>6 DEF I
<1>8. ASSUME NEW q \in Defining(name) \ {p}
      PROVE  Before(q, p)
  <2>1. q \in Places /\ p \in Places
    BY <1>1
  <2>2. q = <<q[1], q[2]>> /\ p = <<p[1], p[2]>> /\ q # p
    BY <2>1, PlacesShape
  <2>3. q[1] \in Nat /\ q[2] \in Nat /\ s \in Nat /\ i \in Nat
    BY <2>1, <1>7, PlacesShape
  <2>4. q[1] <= s
    BY <1>3 DEF S
  <2>5. q[1] = s => q[2] <= i
    BY <1>6 DEF I
  <2>6. q[1] = s => q[2] # i
    BY <1>7, <2>2
  <2> QED
    BY <1>7, <2>3, <2>4, <2>5, <2>6 DEF Before
<1> QED
  BY <1>8 DEF Winner

-----------------------------------------------------------------------------
(* A running process has, for every rule that a source lists, a rule of    *)
(* that name at some place of the configuration, the last of that name.    *)
LEMMA IndexEntry ==
  ASSUME config \in Configs, IndexInv, phase = "running", NEW p \in Places
  PROVE  LET name == RuleAt(p).name IN
         /\ name \in DOMAIN index
         /\ index[name] = RuleAt(Winner(name))
         /\ Winner(name) \in Places
         /\ RuleAt(Winner(name)).name = name
         /\ p # Winner(name) => Before(p, Winner(name))
<1> DEFINE name == RuleAt(p).name
<1>1. p \in Defining(name)
  BY DEF Defining
<1> HIDE DEF name
<1>2. /\ Winner(name) \in Defining(name)
      /\ \A q \in Defining(name) \ {Winner(name)} : Before(q, Winner(name))
  BY <1>1, WinnerIsLast
<1>3. name \in {RuleAt(q).name : q \in Places}
  BY DEF name
<1>4. name \in DOMAIN index /\ index[name] = RuleAt(Winner(name))
  BY <1>3 DEF IndexInv
<1> QED
  BY <1>1, <1>2, <1>4 DEF Defining, name

(* The rule that a match applies has a list of expressions.                *)
LEMMA TheRuleType ==
  ASSUME config \in Configs, IndexInv, phase = "running",
         <<match.source, match.place>> \in Places
  PROVE  /\ TheRule.pattern \in Seq(Regex)
         /\ Len(TheRule.pattern) \in Nat
         /\ DOMAIN TheRule.pattern = 1..Len(TheRule.pattern)
<1>1. TheRule = RuleAt(Winner(ListedName)) /\ Winner(ListedName) \in Places
  BY IndexEntry DEF TheRule, ListedName
<1>2. TheRule.pattern \in Seq(Regex)
  BY <1>1, PlacesShape
<1> QED
  BY <1>2

(* What a pattern does to the candidate in hand.                           *)
LEMMA CapturesType ==
  ASSUME config \in Configs, IndexInv, TypeOK, MatchInv, HasPattern
  PROVE  /\ phase = "running"
         /\ <<match.source, match.place>> \in Places
         /\ match.k \in DOMAIN TheRule.pattern
         /\ match.k \in Nat \ {0}
         /\ match.candidate \in Texts
         /\ Captures.matched \in BOOLEAN
         /\ Captures.ip \in Texts \cup {NoText}
         /\ Captures.last \in Texts \cup {NoText}
<1>1. /\ match.pc = "match" /\ phase = "running"
      /\ <<match.source, match.place>> \in Places
      /\ match.candidate \in Texts
  BY DEF TypeOK, MatchInv, HasPattern
<1>2. /\ TheRule.pattern \in Seq(Regex)
      /\ Len(TheRule.pattern) \in Nat
      /\ DOMAIN TheRule.pattern = 1..Len(TheRule.pattern)
  BY <1>1, TheRuleType
<1>3. match.k \in 1..Len(TheRule.pattern)
  BY <1>1, <1>2 DEF TypeOK, HasPattern
<1>4. TheRule.pattern[match.k] \in Regex
  BY <1>2, <1>3
<1>5. Captures \in [matched : BOOLEAN, ip : Texts \cup {NoText},
                    last : Texts \cup {NoText}]
  BY <1>1, <1>4 DEF Captures, Regex
<1> QED
  BY <1>1, <1>2, <1>3, <1>5

-----------------------------------------------------------------------------
(* What the validation says of the names and the actions.                  *)
LEMMA ValidSources ==
  ASSUME config \in Configs, Valid(config), NEW s \in DOMAIN config.sources
  PROVE  LET rules == config.sources[s].rules IN
         /\ rules # <<>>
         /\ \A i \in DOMAIN rules :
              /\ rules[i].ban_action \in config.actions
              /\ \A j \in DOMAIN rules : rules[j].name = rules[i].name => j = i
<1> DEFINE rules == config.sources[s].rules
<1>1. config.sources[s] \in SeqSet(config.sources)
  BY DEF SeqSet
<1>2. RulesValid(rules)
  BY <1>1 DEF Valid, SourceValid
<1>3. \A i \in DOMAIN rules : rules[i].ban_action \in config.actions
  BY <1>1 DEF Valid, ActionsDefined, SeqSet
<1>4. DOMAIN rules = 1..Len(rules) /\ Len(rules) \in Nat
  BY PlacesShape
<1> HIDE DEF rules
<1>5. ASSUME NEW i \in DOMAIN rules, NEW j \in DOMAIN rules,
             rules[j].name = rules[i].name
      PROVE  j = i
  <2>1. i \in Nat /\ j \in Nat /\ i >= 1 /\ j >= 1
    BY <1>4, <1>5
  <2>2. ~(j < i)
    <3>1. j < i => j \in 1..(i - 1)
      BY <2>1
    <3> QED
      BY <1>2, <1>5, <3>1 DEF RulesValid
  <2>3. ~(i < j)
    <3>1. i < j => i \in 1..(j - 1)
      BY <2>1
    <3> QED
      BY <1>2, <1>5, <3>1 DEF RulesValid
  <2> QED
    BY <2>1, <2>2, <2>3
<1>6. rules # <<>>
  BY <1>2 DEF RulesValid
<1> QED
  BY <1>3, <1>5, <1>6 DEF rules

(* ReadyForEngine needs what the validation says and the last definition.  *)
LEMMA ReadyFromIndex == ConfigInv /\ IndexInv => ReadyForEngine
<1> SUFFICES ASSUME ConfigInv, IndexInv, phase = "running",
                    NEW s \in DOMAIN config.sources
             PROVE  LET rules == config.sources[s].rules IN
                    /\ rules # <<>>
                    /\ \A i \in DOMAIN rules :
                         /\ rules[i].name \in DOMAIN index
                         /\ index[rules[i].name].name = rules[i].name
                         /\ index[rules[i].name].ban_action \in config.actions
                         /\ \A j \in DOMAIN rules :
                              rules[j].name = rules[i].name => j = i
  BY DEF ReadyForEngine
<1> DEFINE rules == config.sources[s].rules
<1>1. config \in Configs /\ Valid(config)
  BY DEF ConfigInv
<1>2. /\ rules # <<>>
      /\ \A i \in DOMAIN rules : \A j \in DOMAIN rules :
           rules[j].name = rules[i].name => j = i
  BY <1>1, ValidSources
<1>3. ASSUME NEW i \in DOMAIN rules
      PROVE  /\ rules[i].name \in DOMAIN index
             /\ index[rules[i].name].name = rules[i].name
             /\ index[rules[i].name].ban_action \in config.actions
  <2> DEFINE p == <<s, i>>
             w == Winner(rules[i].name)
  <2>1. p \in Places /\ RuleAt(p) = rules[i]
    BY <1>1, PlacesShape DEF RuleAt
  <2> HIDE DEF p
  <2>2. /\ rules[i].name \in DOMAIN index
        /\ index[rules[i].name] = RuleAt(w)
        /\ w \in Places
        /\ RuleAt(w).name = rules[i].name
    BY <1>1, <2>1, IndexEntry
  <2> HIDE DEF w
  <2>3. /\ w[1] \in DOMAIN config.sources
        /\ w[2] \in DOMAIN config.sources[w[1]].rules
    BY <1>1, <2>2, PlacesShape
  <2>4. RuleAt(w).ban_action \in config.actions
    BY <1>1, <2>3, ValidSources DEF RuleAt
  <2> QED
    BY <2>2, <2>4
<1> QED
  BY <1>2, <1>3

(* OwnRule: what comes after a rule in its own source has another name.    *)
LEMMA OwnFromIndex == ConfigInv /\ IndexInv => OwnRule
<1> SUFFICES ASSUME ConfigInv, IndexInv, phase = "running", NEW p \in Places
             PROVE  \/ index[RuleAt(p).name] = RuleAt(p)
                    \/ \E q \in Places : /\ q[1] > p[1]
                                         /\ RuleAt(q).name = RuleAt(p).name
                                         /\ index[RuleAt(p).name] = RuleAt(q)
  BY DEF OwnRule
<1>1. config \in Configs /\ Valid(config)
  BY DEF ConfigInv
<1> DEFINE w == Winner(RuleAt(p).name)
<1>2. /\ index[RuleAt(p).name] = RuleAt(w)
      /\ w \in Places
      /\ RuleAt(w).name = RuleAt(p).name
      /\ p # w => Before(p, w)
  BY <1>1, IndexEntry
<1> HIDE DEF w
<1>3. CASE p = w
  BY <1>2, <1>3
<1>4. CASE p # w
  <2>1. /\ p[1] \in DOMAIN config.sources /\ p[1] \in Nat /\ p[2] \in Nat
        /\ w[1] \in Nat /\ w[2] \in Nat
        /\ p[2] \in DOMAIN config.sources[p[1]].rules
        /\ w[2] \in DOMAIN config.sources[w[1]].rules
    BY <1>1, <1>2, PlacesShape
  <2>2. p[1] = w[1] => p[2] = w[2]
    BY <1>1, <1>2, <2>1, ValidSources DEF RuleAt
  <2>3. w[1] > p[1]
    BY <1>2, <1>4, <2>1, <2>2 DEF Before
  <2> QED
    BY <1>2, <2>3
<1> QED
  BY <1>3, <1>4

-----------------------------------------------------------------------------
(* The chain of candidates.  The next three lemmas are about any list of   *)
(* expressions, line and candidate.                                        *)

LEMMA ChainStarts ==
  ASSUME NEW pattern \in Seq(Regex), NEW line \in Texts
  PROVE  ComesFrom(pattern, line, 1, line) /\ OnlyWay(pattern, line, 1, line)
<1>1. ComesFrom(pattern, line, 1, line)
  <2> DEFINE chain == [j \in 1..1 |-> line]
  <2>1. chain \in [1..1 -> Texts] /\ chain[1] = line
    OBVIOUS
  <2> HIDE DEF chain
  <2>2. \A j \in 1..(1 - 1) : Passes(pattern[j], chain[j], chain[j + 1])
    OBVIOUS
  <2> QED
    BY <2>1, <2>2 DEF ComesFrom
<1>2. DOMAIN pattern \subseteq Nat \ {0}
  OBVIOUS
<1> QED
  BY <1>1, <1>2 DEF OnlyWay, Yields

(* A last group that is handed on makes the chain longer by one.           *)
LEMMA ChainGrows ==
  ASSUME NEW pattern \in Seq(Regex), NEW line \in Texts,
         NEW k \in DOMAIN pattern, NEW t \in Texts, NEW u \in Texts,
         ComesFrom(pattern, line, k, t), OnlyWay(pattern, line, k, t),
         Passes(pattern[k], t, u)
  PROVE  /\ ComesFrom(pattern, line, k + 1, u)
         /\ OnlyWay(pattern, line, k + 1, u)
<1>1. k \in Nat /\ k >= 1 /\ DOMAIN pattern \subseteq Nat
  OBVIOUS
<1>2. ComesFrom(pattern, line, k + 1, u)
  <2>1. PICK chain \in [1..k -> Texts] :
          /\ chain[1] = line
          /\ chain[k] = t
          /\ \A j \in 1..(k - 1) : Passes(pattern[j], chain[j], chain[j + 1])
    BY DEF ComesFrom
  <2> DEFINE longer == [j \in 1..(k + 1) |-> IF j = k + 1 THEN u ELSE chain[j]]
  <2>2. /\ longer \in [1..(k + 1) -> Texts]
        /\ longer[1] = line
        /\ longer[k + 1] = u
        /\ \A j \in 1..k : longer[j] = chain[j]
    BY <1>1, <2>1
  <2> HIDE DEF longer
  <2>3. ASSUME NEW j \in 1..((k + 1) - 1)
        PROVE  Passes(pattern[j], longer[j], longer[j + 1])
    <3>1. CASE j = k
      BY <1>1, <2>1, <2>2, <3>1
    <3>2. CASE j # k
      <4>1. j \in 1..(k - 1) /\ j \in 1..k /\ j + 1 \in 1..k
        BY <1>1, <3>2
      <4> QED
        BY <2>1, <2>2, <4>1
    <3> QED
      BY <3>1, <3>2
  <2> QED
    BY <2>2, <2>3 DEF ComesFrom
<1>3. ASSUME NEW ip \in Addresses, NEW n \in DOMAIN pattern,
             NEW chain \in [1..n -> Texts], Yields(pattern, line, n, chain, ip)
      PROVE  n >= k + 1 /\ chain[k + 1] = u
  <2>1. n >= k /\ chain[k] = t
    BY <1>3 DEF OnlyWay
  <2>2. n # k
    BY <1>3, <2>1, StartupAssumption DEF Yields, Passes
  <2>3. n >= k + 1 /\ k \in 1..(n - 1)
    BY <1>1, <2>1, <2>2
  <2> QED
    BY <1>3, <2>1, <2>3 DEF Yields, Passes
<1> QED
  BY <1>2, <1>3 DEF OnlyWay

(* No chain goes on from a candidate whose pattern ends the match.         *)
LEMMA ChainEnds ==
  ASSUME NEW pattern \in Seq(Regex), NEW line \in Texts, NEW k \in Nat \ {0},
         NEW t \in Texts,
         OnlyWay(pattern, line, k, t),
         NEW ip \in IpsOf(pattern, line)
  PROVE  /\ k \in DOMAIN pattern
         /\ pattern[k].on[t].matched
         /\ ip \in Addresses
         /\ pattern[k].on[t].ip \in {ip, NoText}
         /\ pattern[k].on[t].ip = NoText => pattern[k].on[t].last \in Texts
<1>1. ip \in Addresses
  BY DEF IpsOf
<1>2. PICK n \in DOMAIN pattern : \E chain \in [1..n -> Texts] :
        Yields(pattern, line, n, chain, ip)
  BY DEF IpsOf, Yields
<1>3. PICK chain \in [1..n -> Texts] : Yields(pattern, line, n, chain, ip)
  BY <1>2
<1>4. n >= k /\ chain[k] = t
  BY <1>1, <1>3 DEF OnlyWay
<1>5. n \in Nat /\ k \in 1..n /\ DOMAIN pattern = 1..Len(pattern)
  BY <1>4
<1>6. k \in DOMAIN pattern
  BY <1>5
<1>7. pattern[k].on[t].matched
  BY <1>3, <1>4, <1>5 DEF Yields
<1>8. CASE n = k
  BY <1>1, <1>3, <1>4, <1>6, <1>7, <1>8, StartupAssumption DEF Yields
<1>9. CASE n # k
  <2>1. k \in 1..(n - 1) /\ k + 1 \in 1..n
    BY <1>5, <1>9
  <2> QED
    BY <1>1, <1>3, <1>4, <1>6, <1>7, <2>1 DEF Yields
<1> QED
  BY <1>8, <1>9

(* A candidate that yields an address is the end of a chain.               *)
LEMMA ChainFound ==
  ASSUME NEW pattern \in Seq(Regex), NEW line \in Texts,
         NEW k \in DOMAIN pattern, NEW t \in Texts,
         ComesFrom(pattern, line, k, t),
         pattern[k].on[t].matched, pattern[k].on[t].ip \in Addresses
  PROVE  pattern[k].on[t].ip \in IpsOf(pattern, line)
<1>1. k \in Nat /\ k >= 1
  OBVIOUS
<1>2. PICK chain \in [1..k -> Texts] :
        /\ chain[1] = line
        /\ chain[k] = t
        /\ \A j \in 1..(k - 1) : Passes(pattern[j], chain[j], chain[j + 1])
  BY DEF ComesFrom
<1>3. ASSUME NEW j \in 1..k
      PROVE  pattern[j].on[chain[j]].matched
  <2>1. CASE j = k
    BY <1>2, <2>1
  <2>2. CASE j # k
    <3>1. j \in 1..(k - 1)
      BY <1>1, <2>2
    <3> QED
      BY <1>2, <3>1 DEF Passes
  <2> QED
    BY <2>1, <2>2
<1>4. \A j \in 1..(k - 1) : /\ pattern[j].on[chain[j]].ip = NoText
                           /\ pattern[j].on[chain[j]].last = chain[j + 1]
  BY <1>2 DEF Passes
<1>5. Yields(pattern, line, k, chain, pattern[k].on[t].ip)
  BY <1>1, <1>2, <1>3, <1>4 DEF Yields
<1> QED
  BY <1>2, <1>5 DEF IpsOf

-----------------------------------------------------------------------------
(* Preservation.  The steps of the start leave the match alone, those of a *)
(* match all else.                                                         *)

LEMMA InitEstablishes == Init => IInv
<1> SUFFICES ASSUME Init PROVE IInv
  OBVIOUS
<1>1. match = NoMatch /\ phase = "parsed" /\ config \in Configs
  BY DEF Init
<1> QED
  BY <1>1 DEF IInv, TypeOK, ConfigInv, IndexInv, MatchInv, ChainInv,
              FoundInv, NoMatch

(* The places, rules and definitions depend on the configuration only.     *)
LastIn(S) == CHOOSE p \in S : \A q \in S \ {p} : Before(q, p)

LEMMA ConfigFrame ==
  ASSUME config' = config
  PROVE  /\ Places' = Places
         /\ \A p : RuleAt(p)' = RuleAt(p)
         /\ \A name : Winner(name)' = Winner(name)
<1>1. Places' = Places
  BY DEF Places
<1>2. \A p : RuleAt(p)' = RuleAt(p)
  BY DEF RuleAt
<1>3. ASSUME NEW name
      PROVE  Winner(name)' = Winner(name)
  <2>1. Defining(name)' = Defining(name)
    BY <1>1, <1>2 DEF Defining
  <2>2. Winner(name) = LastIn(Defining(name))
    BY DEF Winner, LastIn
  <2>3. Winner(name)' = LastIn(Defining(name)')
    BY DEF Winner, LastIn
  <2> QED
    BY <2>1, <2>2, <2>3
<1> QED
  BY <1>1, <1>2, <1>3

LEMMA IndexFrame ==
  ASSUME config' = config
  PROVE  [name \in {RuleAt(p).name : p \in Places} |-> RuleAt(Winner(name))]'
           = [name \in {RuleAt(p).name : p \in Places} |-> RuleAt(Winner(name))]
<1>1. /\ Places' = Places
      /\ \A p : RuleAt(p)' = RuleAt(p)
      /\ \A name : Winner(name)' = Winner(name)
  BY ConfigFrame
<1>2. {RuleAt(p).name : p \in Places}' = {RuleAt(p).name : p \in Places}
  BY <1>1
<1>3. \A name : RuleAt(Winner(name))' = RuleAt(Winner(name))
  BY <1>1 DEF RuleAt
<1> QED
  BY <1>2, <1>3

(* Before the process runs no match has begun.                             *)
LEMMA StartSteps ==
  ASSUME IInv, Validate \/ BuildRules
  PROVE  IInv'
<1>1. /\ config' = config /\ match' = match /\ match.pc = "idle"
      /\ phase \in {"parsed", "valid"}
  BY DEF IInv, TypeOK, Validate, BuildRules
<1>2. phase' \in {"parsed", "valid", "refused", "running"}
  BY DEF Validate, BuildRules
<1>3. TypeOK'
  BY <1>1, <1>2 DEF IInv, TypeOK
<1>4. ConfigInv'
  BY <1>1 DEF IInv, ConfigInv, Validate, BuildRules
<1>5. IndexInv'
  <2>1. CASE Validate
    BY <2>1 DEF Validate, IndexInv
  <2>2. CASE BuildRules
    <3>1. phase' = "running" =>
            index' = [name \in {RuleAt(p).name : p \in Places} |->
                        RuleAt(Winner(name))]
      BY <2>2 DEF BuildRules
    <3>2. [name \in {RuleAt(p).name : p \in Places} |-> RuleAt(Winner(name))]'
            = [name \in {RuleAt(p).name : p \in Places} |-> RuleAt(Winner(name))]
      BY <1>1, IndexFrame
    <3> QED
      BY <3>1, <3>2 DEF IndexInv
  <2> QED
    BY <2>1, <2>2
<1>6. MatchInv' /\ ChainInv' /\ FoundInv'
  BY <1>1 DEF IInv, MatchInv, ChainInv, FoundInv
<1> QED
  BY <1>3, <1>4, <1>5, <1>6 DEF IInv

(* What a step of a match leaves as it was.                                *)
LEMMA MatchFrame ==
  ASSUME IInv, UNCHANGED <<config, phase, index>>
  PROVE  /\ ConfigInv' /\ IndexInv' /\ Places' = Places
         /\ match'.source = match.source /\ match'.place = match.place
              => TheRule' = TheRule
<1>1. config' = config /\ phase' = phase /\ index' = index
  OBVIOUS
<1>2. Places' = Places
  BY <1>1, ConfigFrame
<1>3. ConfigInv'
  BY <1>1 DEF IInv, ConfigInv
<1>4. IndexInv'
  <2>1. phase = "running" => index =
          [name \in {RuleAt(p).name : p \in Places} |-> RuleAt(Winner(name))]
    BY DEF IInv, IndexInv
  <2> QED
    BY <1>1, <2>1, IndexFrame DEF IndexInv
<1>5. match'.source = match.source /\ match'.place = match.place
        => TheRule' = TheRule
  BY <1>1 DEF TheRule, ListedName, RuleAt
<1> QED
  BY <1>2, <1>3, <1>4, <1>5

LEMMA StartMatchStep ==
  ASSUME IInv, StartMatch
  PROVE  IInv'
<1>1. phase = "running" /\ UNCHANGED <<config, phase, index>>
  BY DEF StartMatch
<1>2. PICK p \in Places : \E line \in Texts :
        match' = [NoMatch EXCEPT !.pc = "match", !.source = p[1],
                                 !.place = p[2], !.line = line,
                                 !.candidate = line]
  BY DEF StartMatch
<1>3. PICK line \in Texts :
        match' = [NoMatch EXCEPT !.pc = "match", !.source = p[1],
                                 !.place = p[2], !.line = line,
                                 !.candidate = line]
  BY <1>2
<1>4. ConfigInv' /\ IndexInv' /\ Places' = Places
  BY <1>1, MatchFrame
<1>5. /\ match'.pc = "match" /\ match'.source = p[1] /\ match'.place = p[2]
      /\ match'.line = line /\ match'.k = 1 /\ match'.candidate = line
      /\ match'.ip = NoText
  BY <1>3 DEF NoMatch
<1>6. p = <<p[1], p[2]>> /\ p[1] \in Nat /\ p[2] \in Nat
  BY PlacesShape DEF IInv, ConfigInv
<1>7. MatchInv'
  BY <1>3, <1>4, <1>5, <1>6 DEF MatchInv, NoMatch
<1>8. (TheRule.pattern \in Seq(Regex) /\ Len(TheRule.pattern) \in Nat)'
  <2> DEFINE w == Winner(RuleAt(p).name)
  <2>1. TheRule' = index[RuleAt(p).name]
    BY <1>1, <1>5, <1>6 DEF TheRule, ListedName, RuleAt
  <2>2. index[RuleAt(p).name] = RuleAt(w) /\ w \in Places
    BY <1>1, IndexEntry DEF IInv, ConfigInv
  <2> HIDE DEF w
  <2>3. RuleAt(w).pattern \in Seq(Regex)
    BY <2>2, PlacesShape DEF IInv, ConfigInv
  <2> QED
    BY <2>1, <2>2, <2>3
<1>9. TypeOK'
  <2>1. match'.k \in 1..(Len(TheRule'.pattern) + 1)
    BY <1>5, <1>8
  <2> QED
    BY <1>1, <1>5, <2>1 DEF TypeOK
<1>10. ChainInv'
  BY <1>5, <1>8, ChainStarts DEF ChainInv
<1>11. FoundInv'
  BY <1>5 DEF FoundInv
<1> QED
  BY <1>4, <1>7, <1>9, <1>10, <1>11 DEF IInv

(* The match ends with ip, which is what the chains yield.                 *)
LEMMA ReturnStep ==
  ASSUME IInv, match.pc = "match", NEW ip \in Addresses \cup {NoText}, Return(ip),
         IpsOf(TheRule.pattern, match.line) = IF ip = NoText THEN {} ELSE {ip}
  PROVE  IInv'
<1>1. UNCHANGED <<config, phase, index>>
  BY DEF Return
<1>2. match \in [pc : {"idle", "match", "done"}, source : Nat, place : Nat,
                 line : Texts \cup {NoText}, k : Nat,
                 candidate : Texts \cup {NoText}, ip : Addresses \cup {NoText}]
  BY DEF IInv, MatchInv
<1>3. /\ match' = [match EXCEPT !.pc = "done", !.ip = ip]
      /\ match'.pc = "done" /\ match'.ip = ip /\ match'.line = match.line
      /\ match'.source = match.source /\ match'.place = match.place
  BY <1>2 DEF Return
<1>4. ConfigInv' /\ IndexInv' /\ Places' = Places /\ TheRule' = TheRule
  BY <1>1, <1>3, MatchFrame
<1>5. TypeOK'
  BY <1>1, <1>3 DEF IInv, TypeOK
<1>6. MatchInv'
  BY <1>2, <1>3, <1>4 DEF IInv, MatchInv
<1>7. FoundInv'
  BY <1>3, <1>4 DEF FoundInv
<1>8. ChainInv'
  BY <1>3 DEF ChainInv
<1> QED
  BY <1>4, <1>5, <1>6, <1>7, <1>8 DEF IInv

LEMMA NextPatternStep ==
  ASSUME IInv, NextPattern
  PROVE  IInv'
<1> DEFINE pattern == TheRule.pattern
<1>1. /\ match.pc = "match" /\ HasPattern
      /\ Captures.matched /\ Captures.ip = NoText /\ Captures.last # NoText
      /\ match' = [match EXCEPT !.k = @ + 1, !.candidate = Captures.last]
      /\ UNCHANGED <<config, phase, index>>
  BY DEF NextPattern, HasPattern
<1>2. /\ phase = "running"
      /\ <<match.source, match.place>> \in Places
      /\ match.k \in DOMAIN pattern /\ match.k \in Nat \ {0}
      /\ match.candidate \in Texts /\ Captures.last \in Texts
  BY <1>1, CapturesType DEF IInv, ConfigInv
<1>3. /\ pattern \in Seq(Regex) /\ Len(pattern) \in Nat
      /\ DOMAIN pattern = 1..Len(pattern)
  BY <1>2, TheRuleType DEF IInv, ConfigInv
<1>4. /\ match \in [pc : {"idle", "match", "done"}, source : Nat, place : Nat,
                    line : Texts \cup {NoText}, k : Nat,
                    candidate : Texts \cup {NoText},
                    ip : Addresses \cup {NoText}]
      /\ match.line \in Texts
  BY <1>1 DEF IInv, MatchInv
<1>5. /\ match'.pc = "match" /\ match'.k = match.k + 1
      /\ match'.candidate = Captures.last
      /\ match'.line = match.line /\ match'.ip = match.ip
      /\ match'.source = match.source /\ match'.place = match.place
  BY <1>1, <1>4
<1>6. ConfigInv' /\ IndexInv' /\ Places' = Places /\ TheRule' = TheRule
  BY <1>1, <1>5, MatchFrame
<1>7. MatchInv'
  <2>1. match' \in [pc : {"idle", "match", "done"}, source : Nat, place : Nat,
                    line : Texts \cup {NoText}, k : Nat,
                    candidate : Texts \cup {NoText},
                    ip : Addresses \cup {NoText}]
    <3> DEFINE next == Captures.last
    <3>1. next \in Texts \cup {NoText} /\ match.k + 1 \in Nat
      BY <1>2
    <3>2. match' = [match EXCEPT !.k = match.k + 1, !.candidate = next]
      BY <1>1
    <3> HIDE DEF next
    <3> QED
      BY <1>4, <3>1, <3>2
  <2> QED
    BY <1>2, <1>4, <1>5, <1>6, <2>1 DEF MatchInv
<1>8. TypeOK'
  <2>1. match'.k \in 1..(Len(TheRule'.pattern) + 1)
    BY <1>2, <1>3, <1>5, <1>6
  <2> QED
    BY <1>1, <1>2, <1>4, <1>5, <2>1 DEF TypeOK, IInv
<1>9. ChainInv'
  <2>1. /\ ComesFrom(pattern, match.line, match.k, match.candidate)
        /\ OnlyWay(pattern, match.line, match.k, match.candidate)
    BY <1>1 DEF IInv, ChainInv
  <2>2. Passes(pattern[match.k], match.candidate, Captures.last)
    BY <1>1 DEF Passes, Captures
  <2>3. /\ ComesFrom(pattern, match.line, match.k + 1, Captures.last)
        /\ OnlyWay(pattern, match.line, match.k + 1, Captures.last)
    BY <1>2, <1>3, <1>4, <2>1, <2>2, ChainGrows
  <2> QED
    BY <1>5, <1>6, <2>3 DEF ChainInv
<1>10. FoundInv'
  BY <1>5 DEF FoundInv
<1> QED
  BY <1>6, <1>7, <1>8, <1>9, <1>10 DEF IInv

(* The four ways in which a match ends.                                    *)
LEMMA LastSteps ==
  ASSUME IInv, NotMatched \/ IpCaptured \/ NoLastGroup \/ NoPatternLeft
  PROVE  IInv'
<1> DEFINE pattern == TheRule.pattern
           t == match.candidate
<1>1. match.pc = "match" /\ config \in Configs
  BY DEF NotMatched, IpCaptured, NoLastGroup, NoPatternLeft, HasPattern, IInv,
         ConfigInv
<1>2. /\ phase = "running" /\ <<match.source, match.place>> \in Places
      /\ match.line \in Texts /\ t \in Texts
      /\ match.k \in 1..(Len(pattern) + 1)
  BY <1>1 DEF IInv, TypeOK, MatchInv
<1>3. /\ pattern \in Seq(Regex) /\ Len(pattern) \in Nat
      /\ DOMAIN pattern = 1..Len(pattern)
  BY <1>1, <1>2, TheRuleType DEF IInv
<1>4. match.k \in Nat \ {0}
  BY <1>2, <1>3
<1>5. /\ ComesFrom(pattern, match.line, match.k, t)
      /\ OnlyWay(pattern, match.line, match.k, t)
  BY <1>1 DEF IInv, ChainInv
<1>6. Captures = pattern[match.k].on[t]
  BY DEF Captures
<1> HIDE DEF pattern, t
<1>7. ASSUME NEW ip \in IpsOf(pattern, match.line)
      PROVE  /\ match.k \in DOMAIN pattern
             /\ Captures.matched
             /\ ip \in Addresses
             /\ Captures.ip \in {ip, NoText}
             /\ Captures.ip = NoText => Captures.last \in Texts
  BY <1>2, <1>3, <1>4, <1>5, <1>6, ChainEnds
<1>8. NoText \notin Texts /\ NoText \notin Addresses
  BY StartupAssumption
<1>9. CASE NotMatched
  <2>1. Return(NoText) /\ ~Captures.matched
    BY <1>9 DEF NotMatched
  <2>2. IpsOf(pattern, match.line) = {}
    BY <1>7, <2>1
  <2> QED
    BY <1>1, <2>1, <2>2, ReturnStep DEF pattern
<1>10. CASE IpCaptured
  <2> DEFINE ip == IF Captures.ip \in Addresses THEN Captures.ip ELSE NoText
  <2>1. Return(ip) /\ Captures.matched /\ Captures.ip # NoText /\ HasPattern
    BY <1>10 DEF IpCaptured
  <2>2. match.k \in DOMAIN pattern
    BY <1>2, <1>3, <2>1 DEF HasPattern, pattern
  <2>3. IpsOf(pattern, match.line) \subseteq Addresses \cap {Captures.ip}
    BY <1>7, <2>1
  <2>4. Captures.ip \in Addresses => Captures.ip \in IpsOf(pattern, match.line)
    BY <1>2, <1>3, <1>5, <1>6, <2>1, <2>2, ChainFound
  <2>5. IpsOf(pattern, match.line) = IF ip = NoText THEN {} ELSE {ip}
    BY <1>8, <2>3, <2>4
  <2>6. ip \in Addresses \cup {NoText}
    OBVIOUS
  <2> HIDE DEF ip
  <2> QED
    BY <1>1, <2>1, <2>5, <2>6, ReturnStep DEF pattern
<1>11. CASE NoLastGroup
  <2>1. Return(NoText) /\ Captures.ip = NoText /\ Captures.last = NoText
    BY <1>11 DEF NoLastGroup
  <2>2. IpsOf(pattern, match.line) = {}
    BY <1>7, <1>8, <2>1
  <2> QED
    BY <1>1, <2>1, <2>2, ReturnStep DEF pattern
<1>12. CASE NoPatternLeft
  <2>1. Return(NoText) /\ match.k > Len(pattern)
    BY <1>12 DEF NoPatternLeft, pattern
  <2>2. match.k \notin DOMAIN pattern
    BY <1>3, <1>4, <2>1
  <2>3. IpsOf(pattern, match.line) = {}
    BY <1>7, <2>2
  <2> QED
    BY <1>1, <2>1, <2>3, ReturnStep DEF pattern
<1> QED
  BY <1>9, <1>10, <1>11, <1>12

LEMMA Stutter == ASSUME IInv, UNCHANGED vars PROVE IInv'
<1>1. /\ config' = config /\ phase' = phase /\ index' = index
      /\ match' = match
  BY DEF vars
<1>2. ConfigInv' /\ IndexInv' /\ Places' = Places /\ TheRule' = TheRule
  BY <1>1, MatchFrame
<1>3. TypeOK'
  BY <1>1, <1>2 DEF IInv, TypeOK
<1>4. MatchInv'
  BY <1>1, <1>2 DEF IInv, MatchInv
<1>5. ChainInv'
  BY <1>1, <1>2 DEF IInv, ChainInv
<1>6. FoundInv'
  BY <1>1, <1>2 DEF IInv, FoundInv
<1> QED
  BY <1>2, <1>3, <1>4, <1>5, <1>6 DEF IInv

LEMMA StepPreserves == IInv /\ [Next]_vars => IInv'
  BY StartSteps, StartMatchStep, NextPatternStep, LastSteps, Stutter DEF Next

-----------------------------------------------------------------------------
(* The inductive invariant holds from the start.                           *)
THEOREM InductiveInvariant == Spec => []IInv
  BY InitEstablishes, StepPreserves, PTL DEF Spec

(* The variables stay in their types, for all configurations.              *)
THEOREM TypeCorrect == Spec => []TypeOK
<1>1. IInv => TypeOK
  BY DEF IInv
<1> QED
  BY InductiveInvariant, <1>1, PTL

(* What RuleConfig assumes of the sources and rules holds whenever the     *)
(* process runs, for any number of sources and of rules in them.           *)
THEOREM RunningIsReady == Spec => []ReadyForEngine
<1>1. IInv => ReadyForEngine
  BY ReadyFromIndex DEF IInv
<1> QED
  BY InductiveInvariant, <1>1, PTL

(* A source runs its own rule or that of a later source of the same name,  *)
(* never one of an earlier source.                                         *)
THEOREM OwnOrLaterRule == Spec => []OwnRule
<1>1. IInv => OwnRule
  BY OwnFromIndex DEF IInv
<1> QED
  BY InductiveInvariant, <1>1, PTL

(* match_entry finds the address that the chains of candidates lead to,    *)
(* and there is one at most, for any list of patterns and any line whose   *)
(* captures named ip are addresses (rule.rs).                              *)
THEOREM MatchFindsChain == Spec => []MatchesChain
<1>1. IInv => MatchesChain
  <2> SUFFICES ASSUME FoundInv PROVE MatchesChain
    BY DEF IInv
  <2> DEFINE captured == CapturedIps(TheRule.pattern, match.line)
             ips == IpsOf(TheRule.pattern, match.line)
  <2>1. ips = captured \cap Addresses
    BY StartupAssumption DEF CapturedIps, IpsOf, Yields
  <2>2. match.pc = "done" => ips = IF match.ip = NoText THEN {} ELSE {match.ip}
    BY DEF FoundInv
  <2> HIDE DEF captured, ips
  <2>3. match.pc = "done" /\ captured \subseteq Addresses =>
          captured = IF match.ip = NoText THEN {} ELSE {match.ip}
    BY <2>1, <2>2
  <2> QED
    BY <2>3 DEF MatchesChain, captured
<1> QED
  BY InductiveInvariant, <1>1, PTL

=============================================================================
