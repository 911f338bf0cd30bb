------------------------------- MODULE XmlText -------------------------------
(* The text side of the XML parser that keeps the settings                  *)
(* (shared/vartypes/xml/xmlParser.cpp): characters and entities, the        *)
(* tokens, the parser, the writer and base64.                               *)
(*                                                                          *)
(* A text is a sequence of symbols: a symbol is one character, or a run of  *)
(* characters that the code compares as a whole ("<!--", "amp").  NUL       *)
(* stands for the zero that ends a C string.  A node is a record of its     *)
(* name, whether it is a declaration, its attributes and its contents in    *)
(* the order of d->pOrder.                                                  *)
EXTENDS CheckedInput, Integers, Sequences, SequencesExt, FiniteSets

NUL == ""
Spaces == {" ", "\n"}
NoText == <<NUL>>

CharAt(s, i) == IF i \in 1..Len(s) THEN s[i] ELSE NUL

(* "E" is the first byte of a character of two bytes, "e" the second one.   *)
Width(c) == CASE c = NUL -> 0 [] c = "E" -> 2 [] OTHER -> 1

Entities == [c \in {"&", "<", ">", "\"", "'"} |->
    CASE c = "&" -> <<"&", "amp", ";">>
      [] c = "<" -> <<"&", "lt", ";">>
      [] c = ">" -> <<"&", "gt", ";">>
      [] c = "\"" -> <<"&", "quot", ";">>
      [] c = "'" -> <<"&", "apos", ";">>]
Numbered == [n \in {"65"} |-> "A"]

toXMLString(s) == FlattenSeq([i \in 1..Len(s) |->
    IF s[i] \in DOMAIN Entities THEN Entities[s[i]] ELSE <<s[i]>>])
lengthXMLString(s) == FoldLeft(LAMBDA n, c :
    n + IF c \in DOMAIN Entities THEN Len(Entities[c]) ELSE 1, 0, s)

(* What the next character of an escaped text is, and how much it takes:    *)
(* NUL when it is no character.                                             *)
Escape(s) ==
    CASE CharAt(s, 2) = "#" ->
           IF CharAt(s, 3) \in DOMAIN Numbered /\ CharAt(s, 4) = ";"
           THEN [char |-> Numbered[s[3]], length |-> 4]
           ELSE [char |-> NUL, length |-> 1]
      [] \E c \in DOMAIN Entities : IsPrefix(Entities[c], s) ->
           LET c == CHOOSE k \in DOMAIN Entities : IsPrefix(Entities[k], s)
           IN [char |-> c, length |-> Len(Entities[c])]
      [] OTHER -> [char |-> NUL, length |-> 1]

RECURSIVE fromXMLString(_)
fromXMLString(s) ==
    IF s = <<>> THEN <<>>
    ELSE LET next == IF s[1] = "&" THEN Escape(s)
                     ELSE [char |-> s[1], length |-> 1]
             rest == fromXMLString(SubSeq(s, next.length + 1, Len(s)))
         IN IF next.char = NUL \/ rest = NoText THEN NoText
            ELSE <<next.char>> \o rest

-----------------------------------------------------------------------------
(* The tokens. *)

(* The table of the tags whose inside is not parsed.  The entry of DOCTYPE  *)
(* is changed by parseClearTag(): "doctype" is what it holds.               *)
ClearTags(doctype) == [open \in {"<!--", "<!DOCTYPE"} |->
    IF open = "<!--" THEN <<"-->">> ELSE doctype]
Opens(c) == c \in {"<", "<!--", "<!DOCTYPE"}

RECURSIVE Skip(_, _), QuoteEnd(_, _, _), TextEnd(_, _)
Skip(s, i) == IF CharAt(s, i) \in Spaces THEN Skip(s, i + 1) ELSE i
QuoteEnd(s, i, quote) ==
    LET c == CharAt(s, i)
    IN IF c \in {quote, NUL} \/ Opens(c) THEN i
       ELSE QuoteEnd(s, i + Width(c), quote)
TextEnd(s, i) ==
    LET c == CharAt(s, i)
    IN IF \/ c \in Spaces \cup {">", "=", NUL}
          \/ Opens(c)
          \/ c = "/" /\ CharAt(s, i + 1) = ">"
       THEN i ELSE TextEnd(s, i + Width(c))

Token(type, start, end, next) ==
    [type |-> type, start |-> start, length |-> end - start, next |-> next]
TextToken(s, start) ==
    LET end == TextEnd(s, start + Width(CharAt(s, start)))
    IN Token("text", start, end,
             IF CharAt(s, end) \in Spaces THEN end + 1 ELSE end)

TokenAt(s, start, c) ==
    LET peek == CharAt(s, start + 1)
        One(type) == Token(type, start, start + 1, start + 1)
        Two(type) == Token(type, start, start + 2, start + 2)
        Quoted(end) == IF CharAt(s, end) = c
                       THEN Token("quoted", start, end + 1, end + 1)
                       ELSE TextToken(s, start)
    IN CASE c = NUL -> Token("none", start, start, start)
         [] c \in {"<!--", "<!DOCTYPE"} -> One("clear")
         [] c \in {"\"", "'"} -> Quoted(QuoteEnd(s, start + 1, c))
         [] c = "=" -> One("equals")
         [] c = ">" -> One("close")
         [] c = "<" -> CASE peek = "/" -> Two("tag end")
                         [] peek = "?" -> Two("declaration")
                         [] OTHER -> One("tag start")
         [] c = "/" /\ peek = ">" -> Two("short close")
         [] OTHER -> TextToken(s, start)

(* A mistake: a quoted text ends at a space as well. *)
NoQuotes(s, i) ==
    LET start == Skip(s, i)
    IN IF CharAt(s, start) = NUL THEN Token("none", start, start, start)
       ELSE TextToken(s, start)
GetNextToken(s, i) ==
    LET From(start) == TokenAt(s, start, CharAt(s, start))
    IN From(Skip(s, i))

Taken(s, token) == SubSeq(s, token.start, token.start + token.length - 1)

myTagCompare(name, s, start) ==
    /\ name # <<>>
    /\ SubSeq(s, start, start + Len(name) - 1) = name
    /\ LET c == CharAt(s, start + Len(name))
       IN c \in Spaces \cup {"/", ">", "="} \/ Opens(c)

-----------------------------------------------------------------------------
(* The parser.  "x" is struct XML: where it is, where the text of the       *)
(* current node starts (0 is a null pointer), the error, the end tag that   *)
(* closes an outer node, and the entry of DOCTYPE.                          *)

Node(name, declaration) == [name |-> name, declaration |-> declaration,
                            attributes |-> <<>>, contents |-> <<>>]
ParseState(x, node, more) == [x |-> x, node |-> node, more |-> more]
Failed(x, node, error) == ParseState([x EXCEPT !.error = error], node, FALSE)
Holding(node, content) == [node EXCEPT !.contents = Append(@, content)]
With(node, name, value) ==
    [node EXCEPT !.attributes = Append(@, [name |-> name, value |-> value])]
NoValue == <<NUL, NUL>>

RECURSIVE Trimmed(_)
Trimmed(s) == CASE s # <<>> /\ s[1] \in Spaces -> Trimmed(Tail(s))
                [] Len(s) > 1 /\ Last(s) \in Spaces -> Trimmed(Front(s))
                [] OTHER -> s

(* The text before a tag, when there is any. *)
maybeAddTxT(s, x, node, before) ==
    LET Decoded(text) ==
          IF text = NoText THEN Failed(x, node, "unknown entity")
          ELSE ParseState([x EXCEPT !.text = 0],
                   Holding(node, [kind |-> "text", text |-> text]), TRUE)
        Added(text) ==
          IF text = <<>> THEN ParseState([x EXCEPT !.text = 0], node, TRUE)
          ELSE Decoded(fromXMLString(text))
    IN IF x.text = 0 THEN ParseState(x, node, TRUE)
       ELSE Added(Trimmed(SubSeq(s, x.text, before - 1)))

(* Where a text is found from a place on: 0 when it is not. *)
Find(s, i, text) ==
    LET at == {j \in i..Len(s) : IsPrefix(text, SubSeq(s, j, Len(s)))}
    IN IF at = {} THEN 0 ELSE CHOOSE j \in at : \A k \in at : j <= k

parseClearTag(s, x, node, open) ==
    LET tag == {j \in x.at..Len(s) : Opens(s[j])}
        closed == Find(s, x.at, <<">">>)
        inner == open = "<!DOCTYPE" /\ \E j \in tag : closed = 0 \/ j < closed
        doctype == IF inner THEN <<"]", ">">> ELSE x.doctype
        close == ClearTags(doctype)[open]
        end == IF open = "<!DOCTYPE" /\ ~inner THEN closed
               ELSE Find(s, x.at, close)
        left == [x EXCEPT !.doctype = doctype]
    IN IF end = 0 THEN Failed(left, node, "unmatched clear tag")
       ELSE ParseState([left EXCEPT !.at = end + Len(close),
                                !.text = end + Len(close)],
                   Holding(node, [kind |-> "clear", open |-> open,
                                  text |-> SubSeq(s, x.at, end - 1),
                                  close |-> close]), TRUE)

(* The end of the text inside a node. *)
EndOfText(x, node) ==
    IF node.declaration \/ node.name = <<>> THEN ParseState(x, node, FALSE)
    ELSE Failed([x EXCEPT !.missing = x.at], node, "missing end tag")

(* "</name>": an end tag of another name is left to the callers. *)
EndTag(s, x, node, from) ==
    LET Ended(name, close) ==
          IF name.type # "text" \/ close.type # "close"
          THEN Failed([x EXCEPT !.at = close.next], node,
                      "missing end tag name")
          ELSE LET left == [x EXCEPT !.at = close.next, !.text = close.next]
               IN IF myTagCompare(node.name, s, name.start)
                  THEN ParseState(left, node, TRUE)
                  ELSE ParseState([left EXCEPT !.error = "missing end tag",
                                               !.missing = close.next,
                                               !.endTag = name.start],
                                  node, TRUE)
        Named(name) == Ended(name, GetNextToken(s, name.next))
    IN Named(GetNextToken(s, from))

RECURSIVE Outside(_, _, _), Inside(_, _, _, _, _)

(* What the caller does once a child has been parsed. *)
AfterChild(s, child, node) ==
    CASE ~child.more -> ParseState(child.x, node, FALSE)
      [] child.more /\ child.x.endTag = 0 -> Outside(s, child.x, node)
      [] child.more /\ child.x.endTag # 0 /\ node.name = <<>> ->
           Failed(child.x, node, "unmatched end tag")
      [] OTHER -> ParseState([child.x EXCEPT !.endTag =
           IF myTagCompare(node.name, s, @) THEN 0 ELSE @], node, TRUE)

(* A tag that starts with a name, and what is in it. *)
StartOfTag(s, x, node, declaration, name) ==
    LET Parsed(child) == AfterChild(s, child,
            Holding(node, [kind |-> "child", node |-> child.node]))
        left == [x EXCEPT !.at = name.next]
    IN IF name.type # "text" THEN Failed(left, node, "missing tag name")
       ELSE Parsed(Inside(s, left, Node(Taken(s, name), declaration),
                          "name", <<>>))

AfterClear(s, clear) ==
    IF clear.more THEN Outside(s, clear.x, clear.node) ELSE clear

(* A token that ends the text before it: "before" is the state with it. *)
AfterText(s, token, before) ==
    CASE ~before.more -> [before EXCEPT !.x.at = token.next]
      [] before.more /\ token.type \in {"tag start", "declaration"} ->
           StartOfTag(s, before.x, before.node, token.type = "declaration",
                      GetNextToken(s, token.next))
      [] before.more /\ token.type = "tag end" ->
           EndTag(s, before.x, before.node, token.next)
      [] OTHER -> AfterClear(s,
           parseClearTag(s, [before.x EXCEPT !.at = token.next], before.node,
                         s[token.start]))

(* Outside of a tag: texts, tags and clear tags. *)
Outside(s, x, node) ==
    LET Read(token) ==
          CASE token.type = "none" ->
                 EndOfText([x EXCEPT !.at = token.next], node)
            [] token.type \in {"text", "quoted", "close", "short close",
                               "equals"} ->
                 Outside(s, [x EXCEPT !.at = token.next], node)
            [] OTHER -> AfterText(s, token,
                                  maybeAddTxT(s, x, node, token.start))
    IN Read(GetNextToken(s, x.at))

(* The "?" that closes a declaration is no part of an attribute. *)
NoMark(text, node) ==
    IF node.declaration /\ text # <<>> /\ Last(text) = "?" THEN Front(text)
    ELSE text

(* The attributes of a node: "part" is what is looked for next, "name" the  *)
(* name of the attribute that was read before.                              *)
Inside(s, x, node, part, name) ==
    LET Ended(last) == IF part = "name" \/ last = <<>> THEN node
                       ELSE With(node, last, NoValue)
        Valued(left, value) ==
          IF value = NoText THEN Failed(left, node, "unknown entity")
          ELSE Inside(s, left, With(node, name, value), "name", <<>>)
        Read(token, text, left) ==
          CASE token.type = "none" -> EndOfText(left, node)
            [] part = "name" /\ token.type = "text" ->
                 Inside(s, left, node, "equals", text)
            [] part = "equals" /\ token.type = "text" ->
                 Inside(s, left, With(node, name, NoValue), "equals", text)
            [] part = "equals" /\ token.type = "equals" ->
                 Inside(s, left, node, "value", name)
            [] part # "value" /\ token.type = "close" ->
                 Outside(s, [left EXCEPT !.text = token.next],
                         Ended(NoMark(name, node)))
            [] part # "value" /\ token.type = "short close" ->
                 ParseState([left EXCEPT !.text = token.next],
                            Ended(NoMark(name, node)), TRUE)
            [] part = "value" /\ token.type \in {"text", "quoted"} ->
                 Valued(left, fromXMLString(IF token.type = "quoted"
                                            THEN Tail(Front(text))
                                            ELSE NoMark(text, node)))
            [] OTHER -> Failed(left, node, "unexpected token")
        From(token) == Read(token, Taken(s, token), [x EXCEPT !.at = token.next])
    IN From(GetNextToken(s, x.at))

ParseXMLElement(s, doctype) ==
    Outside(s, [at |-> 1, text |-> 1, error |-> "none", endTag |-> 0,
                missing |-> 0, doctype |-> doctype], Node(<<>>, FALSE))

(* The first child of a name, from a place on; a declaration on the way is  *)
(* entered.                                                                 *)
NoNode == Node(NoText, FALSE)
Children(node) == SelectSeq(node.contents, LAMBDA c : c.kind = "child")
RECURSIVE FirstTag(_, _, _)
FirstTag(node, i, tag) ==
    IF i > Len(Children(node)) THEN NoNode
    ELSE LET child == Children(node)[i].node
         IN CASE child.name = tag -> child
              [] child.name # tag /\ child.declaration ->
                   FirstTag(child, 1, tag)
              [] OTHER -> FirstTag(node, i + 1, tag)

TopOf(root) ==
    IF Len(root.contents) = 1 /\ root.contents[1].kind = "child"
    THEN root.contents[1].node ELSE root
TagIn(top, tag) ==
    IF tag = <<>> \/ top.name = tag THEN top ELSE FirstTag(top, 1, tag)

parseString(s, tag, doctype) ==
    LET Found(node, error) ==
            [node |-> node,
             error |-> IF node = NoNode THEN "tag not found" ELSE error]
        Result(parsed) ==
            IF parsed.x.error \notin {"none", "missing end tag"}
            THEN [node |-> NoNode, error |-> parsed.x.error]
            ELSE Found(TagIn(TopOf(parsed.node), tag), parsed.x.error)
    IN Result(ParseXMLElement(s, doctype))

-----------------------------------------------------------------------------
(* The writer: once to find out the size, once to write. *)

Flat == -1
Indent(n) == [i \in 1..n |-> " "]
ChildFormat(node, format) ==
    IF format # Flat /\ node.name # <<>> /\ ~node.declaration
    THEN format + 1 ELSE format
Lines(format) == IF format = Flat THEN 0 ELSE 1
LineEnd(format) == IF format = Flat THEN <<>> ELSE <<"\n">>
Before(format) == Indent(IF format = Flat THEN 0 ELSE format)

WrittenAttribute(a) == a.name \o
    (IF a.value = NoValue THEN <<>>
     ELSE <<"=", "\"">> \o toXMLString(a.value) \o <<"\"">>) \o <<" ">>
StartTag(node, format) ==
    LET open == Before(format) \o <<"<">>
                \o (IF node.declaration THEN <<"?">> ELSE <<>>)
                \o node.name \o <<" ">>
                \o FlattenSeq([i \in DOMAIN node.attributes |->
                               WrittenAttribute(node.attributes[i])])
    IN CASE node.name = <<>> -> <<>>
         [] node.name # <<>> /\ node.declaration ->
              Front(open) \o <<"?", ">">> \o LineEnd(format)
         [] node.name # <<>> /\ ~node.declaration /\ node.contents # <<>> ->
              Front(open) \o <<">">> \o LineEnd(format)
         [] OTHER -> Front(open)
WrittenEnd(node, format) ==
    CASE node.name = <<>> \/ node.declaration -> <<>>
      [] node.contents = <<>> -> <<"/", ">">> \o LineEnd(format)
      [] OTHER -> Before(format) \o <<"<", "/">> \o node.name \o <<">">>
                  \o LineEnd(format)

RECURSIVE CreateXMLStringR(_, _)
CreateXMLStringR(node, format) ==
    LET inner == Before(IF format = Flat THEN Flat ELSE format + 1)
        Content(c) ==
          CASE c.kind = "text" -> IF c.text = <<>> THEN <<>>
                 ELSE inner \o toXMLString(c.text) \o LineEnd(format)
            [] c.kind = "clear" -> inner \o <<c.open>> \o c.text \o c.close
                                   \o LineEnd(format)
            [] OTHER -> CreateXMLStringR(c.node, ChildFormat(node, format))
    IN StartTag(node, format)
       \o FlattenSeq([i \in DOMAIN node.contents |-> Content(node.contents[i])])
       \o WrittenEnd(node, format)

SumOf(sizes) == FoldLeft(LAMBDA a, b : a + b, 0, sizes)
SizeOfAttribute(a) == Len(a.name) + 1 +
    IF a.value = NoValue THEN 0 ELSE lengthXMLString(a.value) + 3
(* A mistake: the marks of a declaration are not counted. *)
SizeWithoutMarks(node, format) ==
    LET indent == IF format = Flat THEN 0 ELSE format
        start == Len(node.name) + 2 + indent
                 + SumOf([i \in DOMAIN node.attributes |->
                          SizeOfAttribute(node.attributes[i])])
    IN CASE node.name = <<>> -> 0
         [] node.name # <<>> /\ node.contents = <<>> -> start - 1
         [] OTHER -> start + Lines(format)
SizeOfStart(node, format) ==
    LET indent == IF format = Flat THEN 0 ELSE format
        start == Len(node.name) + 2 + indent
                 + (IF node.declaration THEN 1 ELSE 0)
                 + SumOf([i \in DOMAIN node.attributes |->
                          SizeOfAttribute(node.attributes[i])])
    IN CASE node.name = <<>> -> 0
         [] node.name # <<>> /\ node.declaration -> start + 1 + Lines(format)
         [] node.name # <<>> /\ ~node.declaration /\ node.contents # <<>> ->
              start + Lines(format)
         [] OTHER -> start - 1
SizeOfEnd(node, format) ==
    CASE node.name = <<>> \/ node.declaration -> 0
      [] node.contents = <<>> -> 2 + Lines(format)
      [] OTHER -> Len(node.name) + 3 +
                  IF format = Flat THEN 0 ELSE 1 + format

RECURSIVE SizeOf(_, _)
SizeOf(node, format) ==
    LET inner == IF format = Flat THEN 0 ELSE format + 2
        Content(c) ==
          CASE c.kind = "text" -> IF c.text = <<>> THEN 0
                 ELSE lengthXMLString(c.text) + inner
            [] c.kind = "clear" -> 1 + Len(c.text) + Len(c.close) + inner
            [] OTHER -> SizeOf(c.node, ChildFormat(node, format))
    IN SizeOfStart(node, format)
       + SumOf([i \in DOMAIN node.contents |-> Content(node.contents[i])])
       + SizeOfEnd(node, format)

createXMLString(node, formatted) ==
    CreateXMLStringR(node, IF formatted THEN 0 ELSE Flat)
XMLSize(node, formatted) == SizeOf(node, IF formatted THEN 0 ELSE Flat)
-----------------------------------------------------------------------------
(* Looking up.  A search starts at a place (from 0 on) and leaves the place *)
(* after what it found; where nothing is found the place stays.             *)

SearchFrom(list, i, Sought(_)) ==
    LET found == {k \in DOMAIN list : k > i /\ Sought(list[k])}
    IN IF found = {} THEN 0
       ELSE CHOOSE k \in found : \A j \in found : k <= j

ChildAt(children, k, i) ==
    IF k = 0 THEN [node |-> NoNode, next |-> i]
    ELSE [node |-> children[k].node, next |-> k]
getChildNode(node, name, i) ==
    LET children == Children(node)
    IN ChildAt(children,
               SearchFrom(children, i, LAMBDA c : c.node.name = name), i)
nChildNode(node, name) ==
    Len(SelectSeq(Children(node), LAMBDA c : c.node.name = name))
RECURSIVE NthChild(_, _, _, _)
NthChild(node, name, j, i) ==
    LET found == getChildNode(node, name, i)
    IN IF j = 0 THEN found.node ELSE NthChild(node, name, j - 1, found.next)

getAttribute(node, name, i) ==
    LET k == SearchFrom(node.attributes, i, LAMBDA a : a.name = name)
    IN IF k = 0 THEN [value |-> NoValue, next |-> i]
       ELSE [value |-> node.attributes[k].value, next |-> k]
isAttributeSet(node, name) == \E k \in DOMAIN node.attributes :
    node.attributes[k].name = name

(* The first child of a name that has an attribute of a value. *)
getChildNodeWithAttribute(node, name, attribute, value) ==
    LET children == Children(node)
    IN ChildAt(children, SearchFrom(children, 0, LAMBDA c :
         /\ c.node.name = name
         /\ IF value = NoValue THEN isAttributeSet(c.node, attribute)
            ELSE \E k \in DOMAIN c.node.attributes :
                   c.node.attributes[k] = [name |-> attribute, value |-> value]),
         0).node

updateAttribute(node, value, name) ==
    LET at == getAttribute(node, name, 0).next
    IN IF at = 0 THEN With(node, name, value)
       ELSE [node EXCEPT !.attributes[at].value = value]
deleteAttribute(node, name) ==
    LET at == getAttribute(node, name, 0).next
    IN IF at = 0 THEN node ELSE [node EXCEPT !.attributes = RemoveAt(@, at)]

nElement(node) == Len(node.attributes) + Len(node.contents)
enumContents(node, i) ==
    IF i < Len(node.attributes)
    THEN [kind |-> "attribute", attribute |-> node.attributes[i + 1]]
    ELSE node.contents[i - Len(node.attributes) + 1]

-----------------------------------------------------------------------------
(* Base64: a digit is its value; 96 is the fill character, 97 a line break  *)
(* and 99 the end of the string, as base64DecodeTable has them.             *)

Fill == 96
Break == 97
End == 99

encodeLength(n, formatted) ==
    (IF n = 0 THEN 0 ELSE (n - 1) \div 3) * 4 + 5
    + IF formatted THEN n \div 54 ELSE 0

(* A mistake: two bytes that are left are filled as one. *)
RestFilledTwice(b) ==
    CASE Len(b) = 0 -> <<>>
      [] Len(b) = 1 -> <<b[1] \div 4, (b[1] * 16) % 64, Fill, Fill>>
      [] OTHER -> <<b[1] \div 4, ((b[1] * 16) % 64) + (b[2] \div 16), Fill, Fill>>
EncodedRest(b) ==
    CASE Len(b) = 0 -> <<>>
      [] Len(b) = 1 -> <<b[1] \div 4, (b[1] * 16) % 64, Fill, Fill>>
      [] OTHER -> LET j == b[1] * 256 + b[2]
                  IN <<j \div 1024, (j \div 16) % 64, (j * 4) % 64, Fill>>
EncodedThree(b) ==
    LET j == b[1] * 65536 + b[2] * 256 + b[3]
    IN <<j \div 262144, (j \div 4096) % 64, (j \div 64) % 64, j % 64>>
encode(b, formatted) ==
    LET n == Len(b) \div 3
    IN FlattenSeq([i \in 1..n |-> EncodedThree(SubSeq(b, 3 * i - 2, 3 * i))
           \o IF formatted /\ i % 18 = 0 THEN <<Break>> ELSE <<>>])
       \o EncodedRest(SubSeq(b, 3 * n + 1, Len(b))) \o <<End>>

CString(digits) == SelectSeq(
    SubSeq(digits, 1, (CHOOSE i \in DOMAIN digits : digits[i] = End /\
           \A j \in 1..(i - 1) : digits[j] # End) - 1), LAMBDA d : d # Break)
decodeSize(digits) ==
    (Cardinality({i \in 1..Len(digits) : digits[i] # Fill}) * 3) \div 4

(* The bytes of a string of digits; a byte 0 is added that was not encoded. *)
decode(encoded) ==
    LET digits == CString(encoded)
        Digit(i) == IF digits[i] = Fill THEN 0 ELSE digits[i]
        Byte(p) == LET i == 4 * ((p - 1) \div 3)
                   IN CASE p % 3 = 1 -> Digit(i + 1) * 4 + Digit(i + 2) \div 16
                        [] p % 3 = 2 -> (Digit(i + 2) % 16) * 16
                                        + Digit(i + 3) \div 4
                        [] OTHER -> (Digit(i + 3) % 4) * 64 + Digit(i + 4)
    IN [p \in 1..decodeSize(digits) |-> Byte(p)] \o <<0>>
----------------------------------------------------------------------------
(* A tree that is written, with or without indentation, is read back as it  *)
(* was, whatever its texts and attributes hold: VarXML keeps the settings   *)
(* this way.                                                                *)
TreesComeBack == Is("written") =>
    parseString(createXMLString(input.tree, input.formatted), <<>>, <<">">>)
      = [node |-> input.tree, error |-> "none"]
(* The first pass of CreateXMLStringR() finds the size that the second one  *)
(* then writes: the buffer is neither too small nor too large.              *)
SizesAgree == Is("written") =>
    XMLSize(input.tree, input.formatted)
      = Len(createXMLString(input.tree, input.formatted))
(* Whatever text is read without an error, the tree it gives is one that    *)
(* can be written and read again.                                           *)
ReadAgainIsSame == Is("soup") =>
    LET ComesBack(read) ==
          read.error = "none" /\ read.node.name # <<>> =>
            parseString(createXMLString(read.node, FALSE), <<>>, <<">">>) = read
    IN ComesBack(parseString(input.text, <<>>, <<">">>))
NamedChildren(node, name) == SelectSeq(Children(node), LAMBDA c : c.node.name = name)
NamedAttributes(node, name) == SelectSeq(node.attributes, LAMBDA a : a.name = name)
LookupNames == {<<"n">>, <<"m">>}
(* The searches by name find every child and attribute once and in order,   *)
(* and an update or a deletion touches the first of its name only.          *)
LookupsFindEach == Is("lookup") =>
    /\ \A name \in {<<"v">>, <<"n">>} :
         LET named == NamedChildren(input.node, name)
         IN /\ nChildNode(input.node, name) = Len(named)
            /\ \A j \in 1..Len(named) :
                 NthChild(input.node, name, j - 1, 0) = named[j].node
            /\ NthChild(input.node, name, Len(named), 0) = NoNode
    /\ \A name \in LookupNames :
         LET updated == updateAttribute(input.node, <<"b">>, name)
             deleted == deleteAttribute(input.node, name)
         IN /\ getAttribute(updated, name, 0).value = <<"b">>
            /\ \A other \in LookupNames \ {name} :
                 /\ NamedAttributes(updated, other) = NamedAttributes(input.node, other)
                 /\ NamedAttributes(deleted, other) = NamedAttributes(input.node, other)
            /\ isAttributeSet(input.node, name) =>
                 /\ nElement(updated) = nElement(input.node)
                 /\ nElement(deleted) = nElement(input.node) - 1
            /\ LET found == getChildNodeWithAttribute(updated, <<"v">>, name,
                                                      <<"a">>)
               IN IF \E k \in DOMAIN NamedChildren(input.node, <<"v">>) :
                      [name |-> name, value |-> <<"a">>] \in ToSet(
                        NamedChildren(input.node, <<"v">>)[k].node.attributes)
                  THEN [name |-> name, value |-> <<"a">>]
                         \in ToSet(found.attributes)
                  ELSE found = NoNode
    /\ {enumContents(input.node, i) : i \in 0..(nElement(input.node) - 1)} =
         {[kind |-> "attribute", attribute |-> a] : a \in ToSet(input.node.attributes)}
           \cup ToSet(input.node.contents)
(* The parser never steps over the zero that ends the text.                 *)
StaysInText == Is("soup") =>
    ParseXMLElement(input.text, <<">">>).x.at <= Len(input.text) + 1
(* What is encoded is decoded to the same bytes (and one more that is zero, *)
(* which the code leaves), and takes the length that was allocated.         *)
BytesComeBack == Is("bytes") /\ input.bytes # <<>> =>
    LET encoded == encode(input.bytes, input.formatted)
    IN /\ decode(encoded) = input.bytes \o <<0>>
       /\ Len(encoded) = encodeLength(Len(input.bytes), input.formatted)

(* What the parser and the writer promise to each other.                   *)
XmlIsSound ==
    /\ TreesComeBack /\ SizesAgree /\ ReadAgainIsSame
    /\ LookupsFindEach /\ StaysInText /\ BytesComeBack
=============================================================================
