------------------------------- MODULE VarTree -------------------------------
(***************************************************************************)
(* The settings of SSL-Vision as trees of variables, and what storing them *)
(* in an XML file and reading them back makes of them                      *)
(* (dep/ssl-vision/src/shared/vartypes/primitives/VarType.cpp, VarList.h,  *)
(* VarExternal.cpp, VarInt.h, VarStringEnum.h, VarSelection.h, VarXML.cpp, *)
(* VarTypesFactory.cpp).  A variable is a record; names and texts are      *)
(* numbers, 0 is the empty one.  An element of a file has the variable's   *)
(* name, type, text and attributes.  An absent limit is INT_MIN or INT_MAX *)
(* in a variable and an empty attribute in a file, which is the same here. *)
(***************************************************************************)
EXTENDS CheckedInput, Integers, Sequences, FiniteSets, SequencesExt

INT_MIN == -100
INT_MAX == 100

Containers == {"list", "external"}
Enumerations == {"stringenum", "selection"}

(* newVarType(): what the factory can build.                               *)
newVarType == Containers \cup Enumerations
              \cup {"bool", "int", "double", "string", "blob", "qwidget",
                    "trigger"}

(* stringToType(): what it knows.                                          *)
stringToType == newVarType \cup {"vector2d", "vector3d", "timeline", "timevar"}

NewVar(type, name) ==
    [type |-> type, name |-> name, flags |-> {}, value |-> 0,
     low |-> INT_MIN, high |-> INT_MAX, file |-> 0, kids |-> <<>>]

Flag(var, flag) == [var EXCEPT !.flags = @ \cup {flag}]
----------------------------------------------------------------------------
(* Writing: writeXML() with its three parts, and VarXML::write().          *)

(* A mistake: a variable that is not to be stored is hidden, and what is   *)
(* under it is stored in its place.                                        *)
RECURSIVE KeptBelow(_)
KeptBelow(vars) ==
    FlattenSeq([i \in DOMAIN vars |->
        IF "nosave" \in vars[i].flags THEN KeptBelow(vars[i].kids)
                                      ELSE <<vars[i]>>])

Kept(vars) == SelectSeq(vars, LAMBDA v : "nosave" \notin v.flags)

RECURSIVE writeXML(_)
writeXML(var) ==
    LET kept == Kept(var.kids)
    IN  [name |-> var.name, type |-> var.type, text |-> var.value,
         low |-> var.low, high |-> var.high, file |-> var.file,
         kids |-> IF var.type = "external" THEN <<>>
                  ELSE [i \in DOMAIN kept |-> writeXML(kept[i])]]

WrittenTree(vars) ==
    LET kept == Kept(vars) IN [i \in DOMAIN kept |-> writeXML(kept[i])]

(* updateChildren() of an external list writes another file; every list    *)
(* has its own.                                                            *)
RECURSIVE FilesOf(_)
FilesOf(vars) ==
    UNION {{v \in {kept} : v.type = "external"} \cup FilesOf(kept.kids) :
              kept \in ToSet(Kept(vars))}

Stored(vars, files) ==
    [f \in DOMAIN files |->
        LET of == {v \in FilesOf(vars) : v.file = f}
        IN  IF of = {} THEN files[f]
            ELSE WrittenTree((CHOOSE v \in of : TRUE).kids)]
----------------------------------------------------------------------------
(* Reading.  setInt() of an integer; the text of the others is kept.       *)
setInt(var, n) ==
    [var EXCEPT !.value = CASE var.low # INT_MIN /\ n < var.low -> var.low
                            [] var.high # INT_MAX /\ n > var.high -> var.high
                            [] OTHER -> n]

readAttributes(var, element) ==
    CASE var.type = "int" ->
            [var EXCEPT !.low = element.low, !.high = element.high]
      [] var.type = "external" -> [var EXCEPT !.file = element.file]
      [] OTHER -> var

readText(var, element) ==
    CASE var.type = "int" -> setInt(var, element.text)
      [] var.type \in Containers \cup {"selection"} -> var
      [] OTHER -> [var EXCEPT !.value = element.text]

(* A mistake: the text is read before the limits.                          *)
TextFirst(var, element) ==
    IF "noload_attributes" \in var.flags THEN readText(var, element)
    ELSE readAttributes(readText(var, element), element)

OwnPart(var, element) ==
    IF "noload_attributes" \in var.flags THEN readText(var, element)
    ELSE readText(readAttributes(var, element), element)

(* The place among the variables of the one with an element's name, or 0.  *)
Place(vars, element) ==
    LET named == {i \in DOMAIN vars : vars[i].name = element.name}
    IN  IF element.name = 0 \/ named = {} THEN 0
        ELSE CHOOSE i \in named : \A j \in named : i <= j

RECURSIVE readXML(_, _, _), readChildrenHelper(_, _, _), LoadExternals(_, _)

readXML(var, element, files) ==
    IF "noload" \in var.flags THEN var
    ELSE LET own == OwnPart(var, element)
             read == IF var.type = "external" THEN files[own.file]
                                              ELSE element.kids
             kids == readChildrenHelper(own.kids, read, files)
         IN  CASE var.type \in Containers -> [own EXCEPT !.kids = kids]
               [] var.type \in Enumerations
                  /\ "noload_enum_children" \notin var.flags ->
                     [own EXCEPT !.kids =
                         [i \in DOMAIN kids |-> Flag(kids[i], "hidden")]]
               [] OTHER -> own

(* A mistake: an element of another type takes the variable's place.       *)
ReadOrReplaced(var, element, files) ==
    IF var.type = element.type THEN readXML(var, element, files)
    ELSE readXML(NewVar(element.type, element.name), element, files)

ReadIfSameType(var, element, files) ==
    IF var.type = element.type THEN readXML(var, element, files) ELSE var

(* What no element named is searched for external lists to load.           *)
LoadExternals(var, files) ==
    LET loaded == IF var.type = "external"
                  THEN readChildrenHelper(var.kids, files[var.file], files)
                  ELSE var.kids
    IN  [var EXCEPT !.kids = [i \in DOMAIN loaded |->
                                 LoadExternals(loaded[i], files)]]

readChildrenHelper(vars, elements, files) ==
    LET known == SelectSeq(elements, LAMBDA e : e.type \in stringToType)
        fresh == SelectSeq(known, LAMBDA e : Place(vars, e) = 0)
        Mine(i) == SelectSeq(known, LAMBDA e : Place(vars, e) = i)
        Update(i) ==
            IF Mine(i) = <<>> THEN LoadExternals(vars[i], files)
            ELSE FoldLeft(LAMBDA v, e : ReadIfSameType(v, e, files),
                          vars[i], Mine(i))
    IN  [i \in DOMAIN vars |-> Update(i)]
        \o [i \in DOMAIN fresh |->
               readXML(NewVar(fresh[i].type, fresh[i].name), fresh[i], files)]
----------------------------------------------------------------------------
(* What a stored tree should give back: the variables of the program keep  *)
(* their flags and those not to be stored or loaded their values.          *)
RECURSIVE Restored(_, _)
Restored(now, then) ==
    LET at(v) == Place(then, v)
        Back(v) ==
            IF {"nosave", "noload"} \cap v.flags # {} \/ at(v) = 0 THEN v
            ELSE LET old == then[at(v)]
                     ranged == IF "noload_attributes" \in v.flags THEN v
                               ELSE [v EXCEPT !.low = old.low,
                                              !.high = old.high]
                     valued == IF v.type = "int" THEN setInt(ranged, old.value)
                               ELSE [ranged EXCEPT !.value = old.value]
                 IN  [valued EXCEPT !.kids = Restored(v.kids, old.kids)]
    IN  [i \in DOMAIN now |-> Back(now[i])]

(* What the user set is there again when the program has been started      *)
(* anew: writing the tree and reading it into the one of the new program   *)
(* gives every stored value back, those of external files, too.            *)
SettingsComeBack ==
    Is("store") =>
        LET files == Stored(input.vars, input.files)
        IN  readChildrenHelper(input.fresh, WrittenTree(input.vars), files)
               = Restored(input.fresh, input.vars)

(* Reading a file again changes nothing more, whatever is in it.           *)
ReadingAgainIsSame ==
    Is("read") =>
        LET Once(vars) ==
                readChildrenHelper(vars, input.elements, input.files)
        IN  Once(Once(input.vars)) = Once(input.vars)

RECURSIVE StillThere(_, _)
StillThere(before, after) ==
    /\ Len(before) <= Len(after)
    /\ \A i \in DOMAIN before :
          /\ before[i].type = after[i].type /\ before[i].name = after[i].name
          /\ StillThere(before[i].kids, after[i].kids)

(* Reading is not destructive: the variables the program holds pointers to *)
(* stay in their places, whatever the file says, and the integers are      *)
(* within the limits they have afterwards.                                 *)
RECURSIVE ValuesInRange(_)
ValuesInRange(vars) ==
    \A v \in ToSet(vars) :
        /\ v.type = "int" /\ v.low <= v.high => v.value \in v.low .. v.high
        /\ ValuesInRange(v.kids)

ReadingKeepsVariables ==
    Is("read") =>
        LET after == readChildrenHelper(input.vars, input.elements,
                                        input.files)
        IN  StillThere(input.vars, after) /\ ValuesInRange(after)

(* Whether the file named it or not, an external list has the variables of *)
(* its own file once the tree it is in has been read.                      *)
RECURSIVE Loaded(_, _)
Loaded(vars, files) ==
    \A v \in ToSet(vars) :
        /\ v.type = "external" =>
              {e.name : e \in ToSet(files[v.file])}
                  \subseteq {k.name : k \in ToSet(v.kids)}
        /\ Loaded(v.kids, files)

ExternalsAreLoaded ==
    Is("read") /\ input.plain =>
        Loaded(readChildrenHelper(input.vars, input.elements, input.files),
               input.files)

(* What a restart of the program promises to the user's settings.          *)
VarTreeIsSound ==
    /\ SettingsComeBack /\ ReadingAgainIsSame
    /\ ReadingKeepsVariables /\ ExternalsAreLoaded
=============================================================================
