-------------------------------- MODULE Startup --------------------------------
(***************************************************************************)
(* From a configuration to a match: the validation of src/config/, the     *)
(* index of the rules by name that src/main.rs builds, the lists of rules  *)
(* a source gets from it (engine.rs, run_source), and match_entry of       *)
(* src/core/rule.rs.  A step of a match is one pattern applied.            *)
(*                                                                         *)
(* A regular expression is what it does to each text: whether it matches,  *)
(* what its group ip captured and what its last group captured, the whole  *)
(* match being the last group of an expression without groups.             *)
(***************************************************************************)
EXTENDS Naturals, Sequences

CONSTANTS
  Texts,       \* log lines and parts of them
  NoText,      \* a group that captured nothing; no address
  Addresses,   \* the texts that parse as an address
  NoName,      \* an empty name, unit or path
  Configs      \* the configurations that parse

SeqSet(s) == {s[i] : i \in DOMAIN s}

Regex ==
  [compiles : BOOLEAN,
   on : [Texts -> [matched : BOOLEAN, ip : Texts \cup {NoText},
                   last : Texts \cup {NoText}]]]

(* What parses has the shape of the structs of config/mod.rs.              *)
ASSUME StartupAssumption ==
  /\ NoText \notin Texts
  /\ Addresses \subseteq Texts
  /\ \A c \in Configs :
       /\ c.sources \in Seq(SeqSet(c.sources))
       /\ \A source \in SeqSet(c.sources) :
            /\ source.rules \in Seq(SeqSet(source.rules))
            /\ \A rule \in SeqSet(source.rules) : rule.pattern \in Seq(Regex)

VARIABLES
  config,   \* the configuration
  phase,    \* how far the start has come
  index,    \* name -> rule: the engine's map
  match     \* the match in progress or done last

vars == <<config, phase, index, match>>

NoMatch == [pc |-> "idle", source |-> 1, place |-> 1, line |-> NoText,
            k |-> 1, candidate |-> NoText, ip |-> NoText]

Init ==
  /\ config \in Configs
  /\ phase = "parsed"
  /\ index = <<>>
  /\ match = NoMatch

-----------------------------------------------------------------------------
(* Validation: the first violation refuses the configuration.              *)

PresetsValid(presets) ==
  \A preset \in presets :
    preset.key = "identifier" /\ preset.value # "blank"

(* Mutant of RulesValid: names are not compared.                           *)
RulesValidNames(rules) ==
  /\ rules # <<>>
  /\ \A i \in DOMAIN rules : rules[i].name # NoName /\ rules[i].pattern # <<>>

(* Names are unique within a source.                                       *)
RulesValid(rules) ==
  /\ rules # <<>>
  /\ \A i \in DOMAIN rules :
       /\ rules[i].name # NoName
       /\ \A j \in 1..(i - 1) : rules[j].name # rules[i].name
       /\ rules[i].pattern # <<>>

SourceValid(source) == source.id # NoName /\ RulesValid(source.rules)

(* validate_rule_ban_action.                                               *)
ActionsDefined(c) ==
  \A source \in SeqSet(c.sources) : \A rule \in SeqSet(source.rules) :
    rule.ban_action \in c.actions

Valid(c) ==
  /\ c.sources # <<>>
  /\ PresetsValid(c.presets)
  /\ \A source \in SeqSet(c.sources) : SourceValid(source)
  /\ ActionsDefined(c)

Validate ==
  /\ phase = "parsed"
  /\ phase' = IF Valid(config) THEN "valid" ELSE "refused"
  /\ UNCHANGED <<config, index, match>>

-----------------------------------------------------------------------------
(* The index of the rules.                                                 *)

(* Where rules are defined, in the order of the configuration.             *)
Places ==
  UNION {{s} \X DOMAIN config.sources[s].rules : s \in DOMAIN config.sources}

RuleAt(place) == config.sources[place[1]].rules[place[2]]

Before(p, q) == p[1] < q[1] \/ (p[1] = q[1] /\ p[2] < q[2])

Defining(name) == {p \in Places : RuleAt(p).name = name}

Compiles == \A p \in Places : \A re \in SeqSet(RuleAt(p).pattern) : re.compiles

(* Mutant of Winner: an existing entry is kept.                            *)
FirstDefinition(name) ==
  CHOOSE p \in Defining(name) : \A q \in Defining(name) \ {p} : Before(p, q)

(* Collecting into a map, a later entry replaces one of the same name.     *)
Winner(name) ==
  CHOOSE p \in Defining(name) : \A q \in Defining(name) \ {p} : Before(q, p)

BuildRules ==
  /\ phase = "valid"
  /\ \/ /\ Compiles
        /\ phase' = "running"
        /\ index' = [name \in {RuleAt(p).name : p \in Places} |->
                       RuleAt(Winner(name))]
     \/ ~Compiles /\ phase' = "refused" /\ UNCHANGED index
  /\ UNCHANGED <<config, match>>

-----------------------------------------------------------------------------
(* match_entry, for a line of a source and a rule of its list.             *)

StartMatch ==
  /\ phase = "running"
  /\ match.pc \in {"idle", "done"}
  /\ \E p \in Places, line \in Texts :
       match' = [NoMatch EXCEPT !.pc = "match", !.source = p[1], !.place = p[2],
                                !.line = line, !.candidate = line]
  /\ UNCHANGED <<config, phase, index>>

(* What the source looks up in the index.                                  *)
ListedName == RuleAt(<<match.source, match.place>>).name
TheRule == index[ListedName]

Captures == TheRule.pattern[match.k].on[match.candidate]

Return(ip) ==
  /\ match' = [match EXCEPT !.pc = "done", !.ip = ip]
  /\ UNCHANGED <<config, phase, index>>

HasPattern == match.pc = "match" /\ match.k <= Len(TheRule.pattern)

(* Mutant of NotMatched: a pattern that does not match is passed over.     *)
NotMatchedSkips ==
  /\ HasPattern
  /\ ~Captures.matched
  /\ match' = [match EXCEPT !.k = @ + 1]
  /\ UNCHANGED <<config, phase, index>>

NotMatched ==
  /\ HasPattern
  /\ ~Captures.matched
  /\ Return(NoText)

(* A group named ip took part: the match ends, whether it parses or not.   *)
IpCaptured ==
  /\ HasPattern
  /\ Captures.matched /\ Captures.ip # NoText
  /\ Return(IF Captures.ip \in Addresses THEN Captures.ip ELSE NoText)

(* Mutant of NextPattern: does not see that the last group is empty.       *)
NextPatternAlways ==
  /\ HasPattern
  /\ Captures.matched /\ Captures.ip = NoText
  /\ match' = [match EXCEPT !.k = @ + 1, !.candidate = Captures.last]
  /\ UNCHANGED <<config, phase, index>>

(* The last group is what the next pattern is applied to.                  *)
NextPattern ==
  /\ HasPattern
  /\ Captures.matched /\ Captures.ip = NoText
  /\ Captures.last # NoText
  /\ match' = [match EXCEPT !.k = @ + 1, !.candidate = Captures.last]
  /\ UNCHANGED <<config, phase, index>>

NoLastGroup ==
  /\ HasPattern
  /\ Captures.matched /\ Captures.ip = NoText
  /\ Captures.last = NoText
  /\ Return(NoText)

NoPatternLeft ==
  /\ match.pc = "match"
  /\ match.k > Len(TheRule.pattern)
  /\ Return(NoText)

Next ==
  \/ Validate \/ BuildRules \/ StartMatch
  \/ NotMatched \/ IpCaptured \/ NextPattern \/ NoLastGroup \/ NoPatternLeft

Spec == Init /\ [][Next]_vars

-----------------------------------------------------------------------------
TypeOK ==
  /\ phase \in {"parsed", "valid", "refused", "running"}
  /\ match.pc \in {"idle", "match", "done"}
  /\ match.pc # "idle" => phase = "running"
  /\ match.ip \in Addresses \cup {NoText}
  /\ match.pc = "match" =>
       match.candidate \in Texts /\ match.k \in 1..(Len(TheRule.pattern) + 1)

(* What RuleConfig assumes of the sources and rules is what a start that   *)
(* gets as far as running provides: every source has rules, each of them   *)
(* is in the index with an action that exists, and none is listed twice    *)
(* for one source, so no entry is counted twice for a rule (config/mod.rs, *)
(* validate.rs, main.rs; the branches of engine.rs that skip a rule        *)
(* without action are not reached).                                        *)
ReadyForEngine ==
  phase = "running" =>
    \A s \in DOMAIN config.sources :
      LET rules == config.sources[s].rules IN
      /\ rules # <<>>
      /\ \A i \in DOMAIN rules :
           /\ rules[i].name \in DOMAIN index
           /\ index[rules[i].name].name = rules[i].name
           /\ index[rules[i].name].ban_action \in config.actions
           /\ \A j \in DOMAIN rules : rules[j].name = rules[i].name => j = i

(* A source runs the rule it defines, unless a later source defines one of *)
(* the same name: then it runs that one (main.rs, the index of the rules;  *)
(* validate.rs compares the names of one source only).                     *)
OwnRule ==
  phase = "running" =>
    \A p \in Places :
      \/ index[RuleAt(p).name] = RuleAt(p)
      \/ \E q \in Places : /\ q[1] > p[1]
                           /\ RuleAt(q).name = RuleAt(p).name
                           /\ index[RuleAt(p).name] = RuleAt(q)

(* What the groups named ip capture along the chains of candidates: from   *)
(* the line, each the last group of the one before.                        *)
CapturedIps(pattern, line) ==
  {ip \in Texts :
     \E n \in DOMAIN pattern : \E chain \in [1..n -> Texts] :
       /\ chain[1] = line
       /\ \A k \in 1..n : pattern[k].on[chain[k]].matched
       /\ \A k \in 1..(n - 1) : /\ pattern[k].on[chain[k]].ip = NoText
                                /\ pattern[k].on[chain[k]].last = chain[k + 1]
       /\ pattern[n].on[chain[n]].ip = ip}

(* match_entry finds the address that a chain of candidates leads to, and  *)
(* nothing if no chain leads to one: early exits and candidates that are   *)
(* carried on neither miss nor invent an address (rule.rs).  What a group  *)
(* named ip captures is taken to be an address here: code and documents    *)
(* differ on what follows if it is not (rule.rs, config.example.yaml).     *)
MatchesChain ==
  LET captured == CapturedIps(TheRule.pattern, match.line) IN
  match.pc = "done" /\ captured \subseteq Addresses =>
    captured = IF match.ip = NoText THEN {} ELSE {match.ip}
=============================================================================
