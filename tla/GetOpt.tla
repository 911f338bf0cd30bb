-------------------------------- MODULE GetOpt --------------------------------
(***************************************************************************)
(* The command line parser (dep/ssl-vision/src/shared/util/qgetopt.cpp).   *)
(*                                                                         *)
(* A word of the command line is [dashes, name, glued]: "--out=x" has the  *)
(* word x glued to the long name out, "-Ix" to the short name I, and a     *)
(* word with no dash is its own text.  A glued word is never empty.        *)
(***************************************************************************)
EXTENDS CheckedInput, Integers, Sequences, SequencesExt, FiniteSets

Plain(text) == [dashes |-> 0, name |-> text, glued |-> <<>>]
Short(name, glued) == [dashes |-> 1, name |-> name, glued |-> glued]
Long(name, glued) == [dashes |-> 2, name |-> name, glued |-> glued]

None == "none"
Null == Plain("")
Option(type, s, l) == [type |-> type, sname |-> s, lname |-> l, def |-> FALSE]
NoOption == Option("Unknown", None, None)

(* The variables the program hands over get their first values here.       *)
addSwitch(l) == Option("Switch", None, l)
addShortOptSwitch(s, l, b) == [Option("ShortOptSwitch", s, l) EXCEPT !.def = b]
addOption(s, l) == [Option("Arg1", s, l) EXCEPT !.def = Null]
addVarLengthOption(l) == [Option("VarLen", None, l) EXCEPT !.def = <<>>]
addRepeatableOption(s, l) == [Option("Repeat", s, l) EXCEPT !.def = <<>>]
addOptionalOption(s, l, v) == [Option("Opt", s, l) EXCEPT !.def = v]

(* What is registered in all: the options in their order, and which bare   *)
(* argument there is.                                                      *)
init(options) == [options |-> options, required |-> FALSE, optional |-> FALSE]
addArgument(c) == [c EXCEPT !.required = TRUE]
addOptionalArgument(c) == [c EXCEPT !.optional = TRUE]

Switches == {"Switch", "OptSwitch", "ShortSwitch", "ShortOptSwitch"}
-----------------------------------------------------------------------------
(* The parser between two words: c is what the program has registered.     *)
Begin(c, args) ==
    [stack |-> args, state |-> "Start", curr |-> NoOption, currArg |-> 1,
     values |-> [o \in Range(c.options) |-> o.def],
     argument |-> Null, set |-> {}, extraLoop |-> TRUE, result |-> "going"]

(* Taking a word; what is glued to it goes back to be the next one.        *)
Popped(p) ==
    LET w == Head(p.stack)
    IN  [p EXCEPT !.stack = w.glued \o Tail(p.stack),
                  !.currArg = @ + 1 - Len(w.glued)]

(* A mistake: a short name is looked up among the long ones.               *)
LookedUpByLong(c, w) ==
    LET n == SelectInSeq(c.options, LAMBDA o : o.lname = w.name)
    IN  IF w.dashes = 0 \/ n = 0 THEN NoOption ELSE c.options[n]
LookedUp(c, w) ==
    LET Named(o) == \/ w.dashes = 2 /\ o.lname = w.name
                    \/ w.dashes = 1 /\ o.sname = w.name
        n == SelectInSeq(c.options, Named)
    IN  IF n = 0 THEN NoOption ELSE c.options[n]

Fails(p) == [p EXCEPT !.result = "error"]
Aborts(p) == [p EXCEPT !.result = "abort"]
Found(p, opt) == [p EXCEPT !.set = @ \cup {opt.lname, opt.sname}]
Expects(p, opt, state) == [Found(p, opt) EXCEPT !.state = state, !.curr = opt]
SetTo(p, opt, value) ==
    [p EXCEPT !.values[opt] = value, !.state = "Start"]

(* A bare argument: one at most, the required one if there is one.         *)
Bare(c, p, word) ==
    IF ~c.required /\ ~c.optional THEN p
    ELSE IF p.argument = Null THEN [p EXCEPT !.argument = word]
    ELSE Fails(p)

InStart(c, p, opt, t, word) ==
    CASE opt.type \in {"Switch", "ShortSwitch"} ->
           Found(SetTo(p, opt, TRUE), opt)
      [] opt.type \in {"OptSwitch", "ShortOptSwitch"} ->
           Expects(SetTo(p, opt, TRUE), opt, "Optional")
      [] opt.type \in {"Arg1", "Repeat"} -> Expects(p, opt, "Expecting")
      [] opt.type \in {"Opt", "VarLen"} -> Expects(p, opt, "Optional")
      [] t = "Arg" -> Bare(c, p, word)
      [] OTHER -> p

InExpecting(p, t, word) ==
    CASE t # "Arg" -> Fails(p)
      [] p.curr.type = "Arg1" -> SetTo(p, p.curr, word)
      [] p.curr.type = "Repeat" ->
           SetTo(p, p.curr, Append(p.values[p.curr], word))
      [] OTHER -> Aborts(p)

(* The word that is not the option's value is looked at again: what was    *)
(* glued to it is on the stack already.                                    *)
Again(p, w) ==
    [p EXCEPT !.stack = <<w>> \o @, !.currArg = @ - 1, !.state = "Start"]
(* A mistake: the word is gone.                                            *)
InOptionalEaten(p, t, word, w) ==
    CASE t = "Arg" /\ p.curr.type = "Opt" -> SetTo(p, p.curr, word)
      [] t = "Arg" /\ p.curr.type = "VarLen" ->
           [p EXCEPT !.values[p.curr] = Append(@, w)]
      [] t = "Arg" -> Aborts(p)
      [] OTHER -> [p EXCEPT !.state = "Start"]
InOptional(p, t, word, w) ==
    CASE t = "Arg" /\ p.curr.type = "Opt" -> SetTo(p, p.curr, word)
      [] t = "Arg" /\ p.curr.type = "VarLen" ->
           [p EXCEPT !.values[p.curr] = Append(@, w)]
      [] t = "Arg" -> Aborts(p)
      [] OTHER ->
           LET q == IF p.curr.type = "Opt" THEN SetTo(p, p.curr, p.curr.def)
                    ELSE p
           IN  IF t = "End" THEN [q EXCEPT !.state = "Start"] ELSE Again(q, w)

(* One turn of the loop.                                                   *)
Turn(c, p, untilFirstSwitchOnly) ==
    IF p.stack = <<>>
    THEN LET end == [p EXCEPT !.extraLoop = FALSE]
         IN  CASE p.state = "Start" -> end
               [] p.state = "Expecting" -> Fails(end)
               [] OTHER -> InOptional(end, "End", Null, Null)
    ELSE
    LET w == Head(p.stack)
        q == Popped(p)
        opt == LookedUp(c, w)
        unknown == w.dashes > 0 /\ opt = NoOption
        t == IF w.dashes = 0 \/ unknown THEN "Arg" ELSE "Option"
        word == IF unknown THEN Plain(w.name) ELSE w
        r == CASE p.state = "Start" -> InStart(c, q, opt, t, word)
               [] p.state = "Expecting" -> InExpecting(q, t, word)
               [] OTHER -> InOptional(q, t, word, w)
    IN  CASE w.dashes = 2 /\ w.name = "" -> [p EXCEPT !.result = "exit"]
          [] unknown /\ p.curr.type # "VarLen" -> Fails(q)
          [] r.result = "going" /\ untilFirstSwitchOnly
             /\ opt.type \in Switches -> [r EXCEPT !.result = "ok"]
          [] OTHER -> r

RECURSIVE Parsed(_, _, _)
Parsed(c, p, untilFirstSwitchOnly) ==
    CASE p.result # "going" -> p
      [] p.stack # <<>> \/ p.extraLoop ->
           Parsed(c, Turn(c, p, untilFirstSwitchOnly), untilFirstSwitchOnly)
      [] c.required /\ p.argument = Null -> Fails(p)
      [] OTHER -> [p EXCEPT !.result = "ok"]

parse(c, args, untilFirstSwitchOnly) ==
    Parsed(c, Begin(c, args), untilFirstSwitchOnly)
isSet(p, name) == name \in p.set
-----------------------------------------------------------------------------
(* An input is a command line the user means: settings is the sequence of  *)
(* what he sets, [option, value], a value <<>> where there is none, and    *)
(* glue says whether values are glued to their names; bare is <<>> or the  *)
(* one bare argument, before them.                                         *)
IsCommandLine == Is("command line")

Written(s, glue) ==
    LET Named(rest) == IF s.option.sname # None
                       THEN Short(s.option.sname, rest)
                       ELSE Long(s.option.lname, rest)
        at == IF glue /\ s.value # <<>> THEN 1 ELSE 0
    IN  <<Named(SubSeq(s.value, 1, at))>>
            \o SubSeq(s.value, at + 1, Len(s.value))
WrittenAll(i) ==
    i.bare \o FlattenSeq([n \in DOMAIN i.settings |->
                              Written(i.settings[n], i.glue)])

(* What the settings come to, option by option.                            *)
Meant(i, o) ==
    LET own == SelectSeq(i.settings, LAMBDA s : s.option = o)
        all == FlattenSeq([n \in DOMAIN own |-> own[n].value])
    IN  CASE own = <<>> -> o.def
          [] o.type \in Switches -> TRUE
          [] o.type \in {"Repeat", "VarLen"} -> all
          [] own[Len(own)].value = <<>> -> o.def
          [] OTHER -> Head(own[Len(own)].value)

(* An option whose value may be missing, followed by a word with another   *)
(* one glued to it: that one is read twice.                                *)
ReadTwice(i) ==
    \E n \in 1 .. Len(i.settings) - 1 :
        /\ i.settings[n].option.type \in
              {"Opt", "VarLen", "OptSwitch", "ShortOptSwitch"}
        /\ i.settings[n].option.type = "Opt" => i.settings[n].value = <<>>
        /\ i.glue /\ i.settings[n + 1].value # <<>>

(* A command line comes back as the values it was written from, in         *)
(* whatever order and form they were given, and the parser has counted     *)
(* each of its words once (currentArgument()).                             *)
CommandLinesComeBack ==
    (IsCommandLine /\ ~ReadTwice(input)) =>
        LET args == WrittenAll(input)
            p == parse(input.c, args, FALSE)
        IN  /\ p.result = "ok"
            /\ \A o \in Range(input.c.options) :
                  /\ p.values[o] = Meant(input, o)
                  /\ isSet(p, o.lname) <=>
                        \E n \in DOMAIN input.settings :
                            \/ input.settings[n].option = o
                            \/ input.settings[n].option.lname = o.lname
            /\ p.argument = (IF input.bare = <<>> THEN Null
                             ELSE Head(input.bare))
            /\ p.currArg = 1 + Len(args)

(* Looking for the first switch only, parse() reads nothing behind it: a   *)
(* switch it stops at is the last of what it has found, unless it stands   *)
(* behind an option without its value, where it is not even set.           *)
StopsAtFirstSwitch ==
    (IsCommandLine /\ ~input.glue) =>
        LET p == parse(input.c, WrittenAll(input), TRUE)
            first == SelectInSeq(input.settings, LAMBDA s :
                         s.option.type \in Switches)
        IN  first # 0 =>
            \A o \in Range(input.c.options) :
                /\ o.type \in Switches \ {input.settings[first].option.type}
                     => p.values[o] = o.def
                /\ o = input.settings[first].option =>
                     p.values[o] \/ \E n \in 1 .. first - 1 :
                         input.settings[n].option.type \in {"Opt", "VarLen"}
=============================================================================
