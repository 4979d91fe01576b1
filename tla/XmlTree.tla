------------------------------ MODULE XmlTree ------------------------------
(***************************************************************************)
(* The generic tree of XML elements (xmlconv/node.go), with what becomes   *)
(* of it when it is written and parsed again.                              *)
(*                                                                         *)
(* Spaces of elements are left out, since nothing reads them; those of     *)
(* attributes are kept, since only they tell xsi:type from type.           *)
(***************************************************************************)
EXTENDS Naturals, Sequences, SequencesExt

CONSTANT Depth   \* how deep the trees nest, at most, that are written and parsed

ASSUME DepthAssumption == Depth \in Nat

Attribute(space, name, value) == [space |-> space, name |-> name, value |-> value]
Plain(name, value)            == Attribute("", name, value)

Node(name, attrs, text, kids) ==
  [name |-> name, attrs |-> attrs, text |-> text, kids |-> kids]

IsTrue(v) == v \in {"true", "1"}

\* Numbers that occur in texts, and back.
Digits  == [d \in {"0", "1", "2"} |-> CASE d = "0" -> 0 [] d = "1" -> 1 [] d = "2" -> 2]
Itoa(n) == CHOOSE d \in DOMAIN Digits : Digits[d] = n

\* The attributes called name, whatever their space: Attr looks at the first.
AttrsNamed(n, name) == SelectSeq(n.attrs, LAMBDA a : a.name = name)

\* The value of an attribute, or of none, "".
AttrValue(n, name) ==
  IF AttrsNamed(n, name) = <<>> THEN "" ELSE AttrsNamed(n, name)[1].value

\* The loop of ChildrenByName over the first k children.
ChildrenByName(n, name) ==
  LET found[k \in 0..Len(n.kids)] ==
        IF k = 0 THEN <<>>
        ELSE IF n.kids[k].name = name THEN Append(found[k - 1], n.kids[k])
        ELSE found[k - 1] IN
  found[Len(n.kids)]

HasChild(n, name)       == ChildrenByName(n, name) # <<>>
Child(n, name)          == ChildrenByName(n, name)[1]

\* The text without the spaces around it. " 1" stands for all texts with some.
Content(n) == IF n.text = " 1" THEN "1" ELSE n.text

\* The qualified names of attributes that the encoders write, taken apart.
Qualified ==
  [name \in {"xsi:type", "xsi:nil", "xmlns:xsi", "xmlns:xs"} |->
     CASE name = "xsi:type"  -> <<"xsi", "type">>
       [] name = "xsi:nil"   -> <<"xsi", "nil">>
       [] name = "xmlns:xsi" -> <<"xmlns", "xsi">>
       [] name = "xmlns:xs"  -> <<"xmlns", "xs">>]

\* Only the names of attributes are written, without their spaces.
ReparsedAttr(a) ==
  IF a.name \in DOMAIN Qualified
    THEN Attribute(Qualified[a.name][1], Qualified[a.name][2], a.value)
    ELSE Plain(a.name, a.value)

ReparsedAttrs(attrs) == [i \in DOMAIN attrs |-> ReparsedAttr(attrs[i])]

\* What the provers have to be told of strings.
ASSUME StringAssumption ==
  "" \in STRING /\ \A name \in DOMAIN Qualified : Qualified[name] \in STRING \X STRING

AttrSet == [space : STRING, name : STRING, value : STRING]

NodeSet(kids) == [name : STRING, attrs : Seq(AttrSet), text : STRING, kids : kids]

\* The trees that nest no deeper than d.
Trees[d \in Nat] == NodeSet(IF d = 0 THEN {<<>>} ELSE Seq(Trees[d - 1]))

Forests == Seq(Trees[Depth])

(* Writing a tree and parsing what was written. *)

\* The trees that are written.
Written == Trees[Depth]

Start(name, attrs) == <<"start", name, attrs>>
CharData(text)     == <<"text", text>>
End                == <<"end">>

TokenSet  == ({"start"} \X STRING \X Seq(AttrSet)) \cup ({"text"} \X STRING) \cup {End}
TokenSeqs == Seq(TokenSet)

\* Escapes cancel out.
WriteText(text) == IF text = "" THEN <<>> ELSE <<CharData(text)>>

\* writeXML: the text of an element goes before its children.
WriteXML(n, kids, next) ==
  <<Start(n.name, n.attrs)>> \o WriteText(n.text) \o kids \o <<End>> \o next

\* writeMixed: one child after the other.
WriteAll[ns \in Forests] ==
  IF ns = <<>> THEN <<>>
  ELSE WriteXML(ns[1], WriteAll[ns[1].kids], WriteAll[Tail(ns)])

Tokens(n) == WriteAll[<<n>>]

(* The stack of parseXML is here a sequence that begins with the innermost open
   element, and ends with a node for the top level. *)

TopLevel    == Node("", <<>>, "", <<>>)
NothingOpen == <<TopLevel>>

WithText(n, text) == Node(n.name, n.attrs, text, n.kids)
WithKids(n, kids) == Node(n.name, n.attrs, n.text, kids)

OpenNode(name, attrs) == Node(name, ReparsedAttrs(attrs), "", <<>>)

\* Mutant of CloseNode: the parent is taken from the bottom of the stack.
CloseNodeFlat(stack) ==
  [Tail(stack) EXCEPT ![Len(stack) - 1].kids = Append(@, stack[1])]

\* An element belongs to the one that is open around it: to its parent Go links
\* it when it begins, and a value can be put there only when it is complete.
CloseNode(stack) ==
  <<WithKids(stack[2], Append(stack[2].kids, stack[1]))>> \o Tail(Tail(stack))

\* Texts between children are joined.
Joined(text, more) == IF text = "" THEN more ELSE text \o more

\* One turn of the loop of parseXML. Texts outside the root are not kept.
ParseToken(stack, token) ==
  CASE token[1] = "start" -> <<OpenNode(token[2], token[3])>> \o stack
    [] Len(stack) > 1 /\ token[1] = "text" ->
         <<WithText(stack[1], Joined(stack[1].text, token[2]))>> \o Tail(stack)
    [] Len(stack) > 1 /\ token[1] = "end" -> CloseNode(stack)
    [] OTHER -> stack

\* The loop: the stack when these tokens have been read.
ReadAll[tokens \in TokenSeqs] ==
  IF tokens = <<>> THEN NothingOpen ELSE ParseToken(ReadAll[Front(tokens)], Last(tokens))

\* The root is the last element of the top level: another one replaces it.
Parse(tokens) == Last(ReadAll[tokens][1].kids)

ForEach(f, ns) == [i \in DOMAIN ns |-> f[ns[i]]]

\* What Parse makes of Tokens, told without them: prefixes become spaces.
Reparsed[n \in Written] ==
  Node(n.name, ReparsedAttrs(n.attrs), n.text, ForEach(Reparsed, n.kids))
=============================================================================
