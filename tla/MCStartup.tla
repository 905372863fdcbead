------------------------------- MODULE MCStartup -------------------------------
(***************************************************************************)
(* Instances of Startup: the configurations that are tried.                *)
(***************************************************************************)
EXTENDS Startup

CONSTANTS line, addr, n1, n2, a1, a2

(* What an expression may do to a text: not match, capture a text as ip    *)
(* with the other one as its last group, or have a last group or none.     *)
Other(text) == CHOOSE t \in Texts : t # text

Outcomes ==
  {[matched |-> FALSE, ip |-> NoText, last |-> NoText]}
    \cup {[matched |-> TRUE, ip |-> t, last |-> Other(t)] : t \in Texts}
    \cup {[matched |-> TRUE, ip |-> NoText, last |-> t] : t \in Texts \cup {NoText}}

Expressions == [compiles : {TRUE}, on : [Texts -> Outcomes]]

Silent == CHOOSE re \in Expressions : \A t \in Texts : ~re.on[t].matched
Broken == [Silent EXCEPT !.compiles = FALSE]

Sequences1(S) == {<<>>} \cup {<<x>> : x \in S}
Sequences2(S) == Sequences1(S) \cup {<<x, y>> : x \in S, y \in S}

Source(name, ruleList) == [id |-> name, rules |-> ruleList]

Whole(presetSet, sourceList) ==
  [presets |-> presetSet, actions |-> {a1}, sources |-> sourceList]

Rule(n, a, p) == [name |-> n, ban_action |-> a, pattern |-> p]

(* One source, one rule, every pair of expressions over the texts.         *)
Matching ==
  {Whole({}, << Source(n1, << Rule(n1, a1, <<x, y>>) >>) >>) :
     x \in Expressions, y \in Expressions}

Definitions ==
  {Rule(n, a, p) : n \in {NoName, n1, n2}, a \in {a1, a2},
                   p \in {<<>>, <<Silent>>, <<Silent, Silent>>}}

(* One source with up to two of them, and one with up to one.              *)
Naming ==
  {Whole({}, << Source(n1, x), Source(n2, y) >>) :
     x \in Sequences2(Definitions), y \in Sequences1(Definitions)}

Presets == [key : {"identifier", "other"}, value : {"text", "blank"}]

Lists == {<< Rule(n1, a1, <<Silent, re>>) >> : re \in {Silent, Broken}}

(* What is wrong, if anything, is not in the names of rules and actions.   *)
Rest ==
  {Whole(p, s) : p \in SUBSET Presets,
                 s \in Sequences2({Source(n, list) : n \in {NoName, n1},
                                                    list \in Lists})}

AllConfigs == Matching \cup Naming \cup Rest
=============================================================================
