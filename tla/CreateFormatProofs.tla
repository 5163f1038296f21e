------------------------- MODULE CreateFormatProofs -------------------------
(***************************************************************************)
(* Proofs about create_format, for every template and size, and whatever   *)
(* the expressions say: which variables the expressions of a plane see,    *)
(* and that an accepted layout is one the packer can use.  And proofs      *)
(* about the parser those expressions go through: who owns what it makes.  *)
(***************************************************************************)
EXTENDS CreateFormat, MinicalcOwners, LayoutProofs

(* The planes laid out so far are a list, and every variable is the        *)
(* image's or belongs to one of them.                                      *)
VisibleInv ==
  /\ \E S : planes \in Seq(S)
  /\ OnlyEarlierPlanesVisible

LEMMA BindDomain ==
  ASSUME NEW name, NEW value, NEW others
  PROVE  DOMAIN Bind(name, value, others) = {name} \cup DOMAIN others
  BY DEF Bind

ImageVariables == {<<0, "image_w">>, <<0, "image_h">>, <<0, "macro_px_w">>, <<0, "macro_px_h">>}

LEMMA GlobalsDomain ==
  ASSUME NEW w, NEW h, NEW others
  PROVE  DOMAIN Globals(w, h, others) = ImageVariables \cup DOMAIN others
<1> DEFINE n1 == <<0, "image_w">>
           n2 == <<0, "image_h">>
           n3 == <<0, "macro_px_w">>
           n4 == <<0, "macro_px_h">>
           mw == req.template.macro_px_w
           mh == req.template.macro_px_h
           f4 == Bind(n4, mh, others)
           f3 == Bind(n3, mw, f4)
           f2 == Bind(n2, h, f3)
<1>1. Globals(w, h, others) = Bind(n1, w, f2)
  BY DEF Globals
<1> HIDE DEF n1, n2, n3, n4, mw, mh
<1>2. DOMAIN f4 = {n4} \cup DOMAIN others
  BY BindDomain
<1>3. DOMAIN f3 = {n3} \cup DOMAIN f4
  BY BindDomain
<1>4. DOMAIN f2 = {n2} \cup DOMAIN f3
  BY BindDomain
<1>5. DOMAIN Bind(n1, w, f2) = {n1} \cup DOMAIN f2
  BY BindDomain
<1> HIDE DEF f2, f3, f4
<1>6. DOMAIN Globals(w, h, others) = {n1, n2, n3, n4} \cup DOMAIN others
  BY <1>1, <1>2, <1>3, <1>4, <1>5
<1> QED  BY <1>6 DEF ImageVariables, n1, n2, n3, n4

LEMMA SeenDomain == DOMAIN Seen = ImageVariables \cup DOMAIN available
  BY GlobalsDomain DEF Seen

LEMMA AfterDomain ==
  ASSUME NEW i, NEW base, NEW stride, NEW bytes
  PROVE  DOMAIN VariablesAfter(i, base, stride, bytes) =
           {<<i, "base_offset">>, <<i, "line_stride">>, <<i, "plane_size">>} \cup ImageVariables \cup DOMAIN available
<1> DEFINE b == <<i, "base_offset">>
           l == <<i, "line_stride">>
           z == <<i, "plane_size">>
           f3 == Bind(z, bytes, Seen)
           f2 == Bind(l, stride, f3)
<1>1. VariablesAfter(i, base, stride, bytes) = Bind(b, base, f2)
  BY DEF VariablesAfter
<1> HIDE DEF b, l, z
<1>2. DOMAIN f3 = {z} \cup DOMAIN Seen
  BY BindDomain
<1>3. DOMAIN f2 = {l} \cup DOMAIN f3
  BY BindDomain
<1>4. DOMAIN Bind(b, base, f2) = {b} \cup DOMAIN f2
  BY BindDomain
<1> HIDE DEF f2, f3
<1>5. DOMAIN VariablesAfter(i, base, stride, bytes) = {b, l, z} \cup DOMAIN Seen
  BY <1>1, <1>2, <1>3, <1>4
<1> QED  BY <1>5, SeenDomain DEF b, l, z

LEMMA ImageVariablesAreGlobal ==
  \A v \in ImageVariables : v[1] = 0 /\ v # <<0, "line_stride">>
  BY DEF ImageVariables

LEMMA VisibleAtFirst == Init => VisibleInv
<1> SUFFICES ASSUME Init  PROVE VisibleInv
  OBVIOUS
<1>1. planes \in Seq({})
  BY DEF Init
<1>2. DOMAIN available = {}
  BY DEF Init
<1> QED  BY <1>1, <1>2 DEF VisibleInv, OnlyEarlierPlanesVisible

LEMMA AddPlaneKeepsVisible ==
  ASSUME VisibleInv, AddPlane
  PROVE  VisibleInv'
<1>1. PICK S : planes \in Seq(S)
  BY DEF VisibleInv
<1>2. PICK pl : planes' = Append(planes, pl)
  BY DEF AddPlane
<1>3. planes' \in Seq(S \cup {pl}) /\ Len(planes') = Len(planes) + 1 /\ Len(planes) \in Nat
  <2>1. planes \in Seq(S \cup {pl})
    BY <1>1
  <2> QED  BY <1>2, <2>1
<1> DEFINE i == Len(planes) + 1
<1>4. PICK base, stride, bytes : available' = VariablesAfter(i, base, stride, bytes)
  BY DEF AddPlane
<1>5. DOMAIN available' =
        {<<i, "base_offset">>, <<i, "line_stride">>, <<i, "plane_size">>} \cup ImageVariables \cup DOMAIN available
  BY <1>4, AfterDomain
<1>6. <<0, "line_stride">> \notin DOMAIN available'
  BY <1>3, <1>5, ImageVariablesAreGlobal DEF VisibleInv, OnlyEarlierPlanesVisible
<1>7. \A v \in DOMAIN available' : v[1] \in 0 .. Len(planes')
  <2>1. SUFFICES ASSUME NEW v \in DOMAIN available'  PROVE v[1] \in 0 .. Len(planes')
    OBVIOUS
  <2>2. CASE v \in {<<i, "base_offset">>, <<i, "line_stride">>, <<i, "plane_size">>}
    BY <1>3, <2>2
  <2>3. CASE v \in ImageVariables
    BY <1>3, <2>3, ImageVariablesAreGlobal
  <2>4. CASE v \in DOMAIN available
    BY <1>3, <2>4 DEF VisibleInv, OnlyEarlierPlanesVisible
  <2> QED  BY <1>5, <2>2, <2>3, <2>4
<1> QED  BY <1>3, <1>6, <1>7 DEF VisibleInv, OnlyEarlierPlanesVisible

LEMMA CheckKeepsVisible ==
  ASSUME VisibleInv, CheckSubsampling
  PROVE  VisibleInv'
<1>1. planes' = planes /\ (available' = available \/ available' = Globals(req.width, req.height, <<>>))
  BY DEF CheckSubsampling
<1>2. CASE available' = available
  BY <1>1, <1>2 DEF VisibleInv, OnlyEarlierPlanesVisible
<1>3. CASE available' = Globals(req.width, req.height, <<>>)
  <2>1. DOMAIN available' = ImageVariables
    <3>1. DOMAIN <<>> = {}
      OBVIOUS
    <3> QED  BY <1>3, <3>1, GlobalsDomain
  <2>2. Len(planes) \in Nat
    BY DEF VisibleInv
  <2> QED  BY <1>1, <2>1, <2>2, ImageVariablesAreGlobal DEF VisibleInv, OnlyEarlierPlanesVisible
<1> QED  BY <1>1, <1>2, <1>3

(* Whatever the template says, the expressions of a plane see variables of *)
(* the image and of earlier planes only, and line_stride is forgotten.     *)
THEOREM EarlierPlanesOnly == Spec => []OnlyEarlierPlanesVisible
<1>1. Init => VisibleInv
  BY VisibleAtFirst
<1>2. VisibleInv /\ [Next]_vars => VisibleInv'
  <2> SUFFICES ASSUME VisibleInv, [Next]_vars  PROVE VisibleInv'
    OBVIOUS
  <2>1. CASE UNCHANGED <<available, planes>>
    BY <2>1 DEF VisibleInv, OnlyEarlierPlanesVisible
  <2>2. CASE TrapInExpression \/ Validate \/ Returned \/ UNCHANGED vars
    BY <2>1, <2>2 DEF TrapInExpression, Validate, Returned, vars
  <2> QED  BY <2>2, CheckKeepsVisible, AddPlaneKeepsVisible DEF Next
<1>3. VisibleInv => OnlyEarlierPlanesVisible
  BY DEF VisibleInv
<1> QED  BY <1>1, <1>2, <1>3, PTL DEF Spec

-----------------------------------------------------------------------------
(* The layout.                                                             *)

(* The planes laid out so far are those of the template, each with numbers *)
(* that make sense and, unless it wrapped, inside the frame; once a format *)
(* is accepted nothing changes any more.                                   *)
LayoutInv ==
  /\ req \in Requests
  /\ size \in Nat
  /\ \E S : planes \in Seq(S)
  /\ \A i \in DOMAIN planes :
       /\ WellFormedPlane(planes[i])
       /\ planes[i].base_offset + planes[i].size < DWord => planes[i].base_offset + planes[i].size <= size
  /\ pc \in {"check", "planes", "done"}
  /\ pc = "planes" \/ Accepted => req.template.macro_px_w = req.macro_px_w /\ req.template.macro_px_h = req.macro_px_h
  /\ Accepted => /\ pc = "done"
                 /\ Len(planes) = Len(req.template.planes)
                 /\ ValidateFormat(TheFormat) = "valid"

LEMMA TemplateIsWellFormed ==
  ASSUME req \in Requests
  PROVE  /\ req.width \in Nat /\ req.height \in Nat
         /\ WellFormedTemplate(req.template)
         /\ Len(req.template.planes) \in Nat /\ DOMAIN req.template.planes = 1 .. Len(req.template.planes)
<1>1. req.width \in Nat /\ req.height \in Nat /\ WellFormedTemplate(req.template)
  BY RequestAssumption
<1> DEFINE list == req.template.planes
           S == {list[i] : i \in DOMAIN list}
<1>2. list \in Seq(S)
  BY <1>1 DEF WellFormedTemplate
<1> HIDE DEF S, list
<1>3. Len(list) \in Nat /\ DOMAIN list = 1 .. Len(list)
  BY <1>2
<1> QED  BY <1>1, <1>3 DEF list

LEMMA LayoutAtFirst == Init => LayoutInv
<1> SUFFICES ASSUME Init  PROVE LayoutInv
  OBVIOUS
<1>1. planes \in Seq({}) /\ DOMAIN planes = {}
  BY DEF Init
<1> QED  BY <1>1 DEF Init, LayoutInv, Accepted

LEMMA AddPlaneKeepsLayout ==
  ASSUME LayoutInv, AddPlane
  PROVE  LayoutInv'
<1> DEFINE i == Len(planes) + 1
           pl == planes'[i]
           end == pl.base_offset + pl.size
<1>1. PICK S : planes \in Seq(S)
  BY DEF LayoutInv
<1>2. /\ req \in Requests /\ req' = req /\ pc = "planes" /\ pc' = pc /\ outcome' = outcome
      /\ ~ Accepted /\ ~ Accepted' /\ size \in Nat
  BY DEF AddPlane, MorePlanes, LayoutInv, Accepted
<1>3. PICK new : /\ planes' = Append(planes, new)
                 /\ {new.base_offset, LineStride64, new.size} \subseteq Nat
                 /\ new.line_stride = LineStride64 % Word
                 /\ new.block_stride = ThisPlane.block_stride /\ new.interleave_mode = ThisPlane.interleave_mode
                 /\ size' = MaxOf(size, (new.base_offset + new.size) % DWord)
  <2> DEFINE n == [base_offset |-> BaseOffset, size |-> PlaneSize(LineStride), line_stride |-> LineStride,
                   block_stride |-> ThisPlane.block_stride, interleave_mode |-> ThisPlane.interleave_mode,
                   block_order |-> ThisPlane.block_order]
  <2>1. /\ planes' = Append(planes, n)
        /\ {n.base_offset, LineStride64, n.size} \subseteq Nat
        /\ size' = MaxOf(size, (n.base_offset + n.size) % DWord)
    BY DEF AddPlane
  <2>2. n.line_stride = LineStride64 % Word
    BY DEF LineStride
  <2> QED  BY <2>1, <2>2
<1>4. ThisPlane.block_stride \in Nat /\ ThisPlane.interleave_mode \in InterleaveModes
  <2>1. i \in DOMAIN req.template.planes
    BY <1>1, <1>2, TemplateIsWellFormed DEF AddPlane, MorePlanes
  <2> QED  BY <1>2, <2>1, TemplateIsWellFormed DEF ThisPlane, WellFormedTemplate
<1>5. /\ planes' \in Seq(S \cup {new}) /\ DOMAIN planes' = DOMAIN planes \cup {i}
      /\ planes'[i] = new /\ \A j \in DOMAIN planes : planes'[j] = planes[j]
  <2>1. planes \in Seq(S \cup {new})
    BY <1>1
  <2> QED  BY <1>3, <2>1
<1>6. new.line_stride \in Nat
  BY <1>3, WordAssumption
<1>7. WellFormedPlane(new)
  BY <1>3, <1>4, <1>6 DEF WellFormedPlane
<1> DEFINE bytes == new.base_offset + new.size
<1>8. bytes \in Nat
  BY <1>3
<1> HIDE DEF bytes
<1>9. bytes % DWord \in Nat /\ (bytes < DWord => bytes % DWord = bytes)
  BY <1>8, WordAssumption
<1>10. size' \in Nat /\ size <= size' /\ (bytes < DWord => bytes <= size')
  BY <1>2, <1>3, <1>8, <1>9 DEF MaxOf, bytes
<1>11. \A j \in DOMAIN planes' :
         /\ WellFormedPlane(planes'[j])
         /\ planes'[j].base_offset + planes'[j].size < DWord => planes'[j].base_offset + planes'[j].size <= size'
  <2> SUFFICES ASSUME NEW j \in DOMAIN planes'
               PROVE  /\ WellFormedPlane(planes'[j])
                      /\ planes'[j].base_offset + planes'[j].size < DWord =>
                           planes'[j].base_offset + planes'[j].size <= size'
    OBVIOUS
  <2>1. CASE j = i
    BY <1>5, <1>7, <1>10, <2>1 DEF bytes
  <2>2. CASE j # i
    <3> DEFINE old == planes[j]
               last == old.base_offset + old.size
    <3>1. planes'[j] = old /\ j \in DOMAIN planes
      BY <1>5, <2>2
    <3>2. WellFormedPlane(old) /\ (last < DWord => last <= size)
      BY <3>1 DEF LayoutInv
    <3>3. last \in Nat
      BY <3>2 DEF WellFormedPlane
    <3> HIDE DEF last
    <3>4. last < DWord => last <= size'
      BY <1>2, <1>10, <3>2, <3>3
    <3> QED  BY <3>1, <3>2, <3>4 DEF last
  <2> QED  BY <2>1, <2>2
<1> QED  BY <1>2, <1>5, <1>10, <1>11 DEF LayoutInv

LEMMA OtherStepsKeepLayout ==
  ASSUME LayoutInv, CheckSubsampling \/ TrapInExpression \/ Validate
  PROVE  LayoutInv'
<1>1. UNCHANGED <<req, planes, size>>
  BY DEF CheckSubsampling, TrapInExpression, Validate
<1>2. TheFormat' = TheFormat
  BY <1>1 DEF TheFormat
<1>3. CASE CheckSubsampling
  BY <1>1, <1>2, <1>3 DEF LayoutInv, CheckSubsampling, Accepted
<1>4. CASE TrapInExpression
  BY <1>1, <1>2, <1>4 DEF LayoutInv, TrapInExpression, Accepted
<1>5. CASE Validate
  BY <1>1, <1>2, <1>5 DEF LayoutInv, Validate, Accepted
<1> QED  BY <1>3, <1>4, <1>5

LEMMA LayoutKept ==
  ASSUME LayoutInv, [Next]_vars
  PROVE  LayoutInv'
<1>1. CASE Returned \/ UNCHANGED vars
  BY <1>1 DEF Returned, vars, LayoutInv, Accepted, TheFormat
<1> QED  BY <1>1, AddPlaneKeepsLayout, OtherStepsKeepLayout DEF Next

LEMMA LayoutImpliesSound == LayoutInv => SoundForWholeMacroPixels
<1> SUFFICES ASSUME LayoutInv, Accepted, NothingWrapped, WholeMacroPixels(TheFormat)
             PROVE  PlacesInPlane(TheFormat) /\ (DisjointPlanes(TheFormat) => PlacesDisjoint(TheFormat))
  BY DEF SoundForWholeMacroPixels
<1> DEFINE fmt == TheFormat
<1>1. /\ fmt.planes = planes /\ fmt.size = size /\ fmt.channel_blocks = req.template.channel_blocks
      /\ fmt.image_w = req.width /\ fmt.image_h = req.height
      /\ fmt.macro_px_w = req.macro_px_w /\ fmt.macro_px_h = req.macro_px_h
  BY DEF TheFormat
<1>2. DOMAIN planes = DOMAIN req.template.planes
  BY TemplateIsWellFormed DEF LayoutInv
<1>3. WellFormed(fmt)
  BY <1>1, <1>2, TemplateIsWellFormed DEF WellFormed, WellFormedTemplate, LayoutInv
<1>4. Representable(fmt) /\ \A i \in DOMAIN fmt.planes : fmt.planes[i].base_offset + fmt.planes[i].size <= fmt.size
  BY <1>1 DEF NothingWrapped, LayoutInv
<1>5. ValidateFormat(fmt) = "valid"
  BY DEF LayoutInv
<1> HIDE DEF fmt
<1>6. WholeMacroPixels(fmt)
  BY DEF fmt
<1>7. PlacesInPlane(fmt) /\ (DisjointPlanes(fmt) => PlacesDisjoint(fmt))
  BY <1>3, <1>4, <1>5, <1>6, AcceptedFormatsAreSound
<1> QED  BY <1>7 DEF fmt

(* What create_format returns, for whatever template, image and            *)
(* expressions, the packer can pack: every sample of every block gets bits *)
(* of its own inside its plane and the frame.                              *)
THEOREM ReturnedFormatsAreSound == Spec => []SoundForWholeMacroPixels
<1>1. Init => LayoutInv
  BY LayoutAtFirst
<1>2. LayoutInv /\ [Next]_vars => LayoutInv'
  BY LayoutKept
<1>3. LayoutInv => SoundForWholeMacroPixels
  BY LayoutImpliesSound
<1> QED  BY <1>1, <1>2, <1>3, PTL DEF Spec

-----------------------------------------------------------------------------
(***************************************************************************)
(* A MiniCalc object, of which create_format constructs one for each       *)
(* expression: who owns the tokens and nodes while it is parsed.           *)
(***************************************************************************)

(* The minor values there are: one of each stack entry, that of the root,  *)
(* and, while a token is looked at, that of the token.                     *)
Holders == -1 .. Len(yystack)
Held(h) ==
  IF h > 0 THEN yystack[h].minor.owns
  ELSE IF h = 0 THEN root.owns
  ELSE IF phase = "parse" THEN yyminor.owns ELSE {}

(* The stack is a path of the automaton.                                   *)
StackInv ==
  /\ \E S : yystack \in Seq(S)
  /\ yymajor \in 0 .. 27
  /\ phase = "parse" => yystack # <<>>
  /\ phase = "ready" => yystack = <<>>
  /\ yystack # <<>> => yystack[1] = Bottom
  /\ \A k \in 1 .. Len(yystack) : yystack[k].stateno \in 0 .. YYNSTATE - 1 /\ yystack[k].major \in (0 .. 27) \cup (29 .. 32)
  /\ \A k \in 2 .. Len(yystack) : Continues(yystack[k - 1].stateno, yystack[k].major, yystack[k].stateno)

(* Objects on the heap were made, and each has one holder.  Tokens are     *)
(* held by terminals, and results hold nothing.                            *)
HoldersApart == \A g, h \in Holders : g # h => Held(g) \cap Held(h) = {}
HeldInv ==
  /\ made \in Nat
  /\ \A object \in heap : \/ \E i \in 1 .. Len(text) : object = <<"token", i>>
                          \/ \E i \in 1 .. made : object = <<"node", i>>
  /\ \A h \in Holders : Held(h) \subseteq heap
  /\ HoldersApart
  /\ \A object \in Held(-1) : object[1] = "token"
  /\ phase = "parse" /\ yymajor = 0 => Held(-1) = {}
  /\ \A k \in 1 .. Len(yystack) :
       /\ Terminal(yystack[k].major) => \A object \in Held(k) : object[1] = "token"
       /\ yystack[k].major \in {0, 31, 32} => Held(k) = {}

(* A call that has come to its parenthesis is in the text, and where one   *)
(* may begin the identifier has just been read.                            *)
IdentifierOnTop == yystack # <<>> /\ \E r \in Calls : <<r, 1>> \in Within[yystack[Len(yystack)].stateno + 1]
CallInv ==
  /\ text \in Seq(STRING)
  /\ session \in Sessions
  /\ phase = "parse" /\ yymajor # 0 => text # <<>> /\ Known(text[Len(text)]) /\ yymajor = Major(text[Len(text)])
  /\ phase = "scan" /\ IdentifierOnTop => text # <<>> /\ text[Len(text)] \in Identifiers
  /\ phase = "parse" /\ yymajor # 0 /\ IdentifierOnTop => Len(text) > 1 /\ text[Len(text) - 1] \in Identifiers
  /\ \A k \in 1 .. Len(yystack) : \A item \in Within[yystack[k].stateno + 1] :
       item[1] \in Calls /\ item[2] > 1 => HasCall

(* Unless a call was refused, every node has a holder.                     *)
NothingForgotten ==
  parse_errors = 0 \/ ~ HasCall =>
    \A object \in heap : object[1] = "node" => \E h \in Holders : object \in Held(h)
ForgetInv == parse_errors \in Nat /\ NothingForgotten

ParserInv == StackInv /\ HeldInv /\ CallInv /\ ForgetInv

-----------------------------------------------------------------------------
(* Tokens.                                                                 *)
LEMMA LexemesAreTokens ==
  ASSUME NEW lexeme, Known(lexeme), NEW place
  PROVE  /\ Major(lexeme) \in 1 .. 27
         /\ \A object \in Minor(lexeme, place).owns : object = <<"token", place>>
<1>1. CASE lexeme \in Symbols
  <2>1. lexeme \notin DOMAIN Literals /\ lexeme \notin Identifiers
    BY <1>1, LexemeAssumption
  <2>2. DOMAIN yyTokenName = 1 .. 27
    BY DEF yyTokenName
  <2>3. \E k \in 1 .. 27 : yyTokenName[k] = lexeme
    BY <1>1, <2>2 DEF Symbols
  <2>4. Major(lexeme) = CHOOSE k \in 1 .. 27 : yyTokenName[k] = lexeme
    BY <1>1, <2>1, <2>2 DEF Major
  <2>5. Minor(lexeme, place) = Nothing
    BY <1>1, <2>1 DEF Minor
  <2> QED  BY <2>3, <2>4, <2>5 DEF Nothing
<1>2. CASE lexeme \in DOMAIN Literals
  <2>1. lexeme \notin Symbols /\ lexeme \notin Identifiers
    BY <1>2, LexemeAssumption
  <2>2. Major(lexeme) = TOK_INT
    BY <1>2, <2>1 DEF Major
  <2>3. Minor(lexeme, place).owns = {<<"token", place>>}
    BY <1>2, <2>1 DEF Minor
  <2> QED  BY <2>2, <2>3 DEF TOK_INT
<1>3. CASE lexeme \in Identifiers
  <2>1. lexeme \notin Symbols /\ lexeme \notin DOMAIN Literals
    BY <1>3, LexemeAssumption
  <2>2. Major(lexeme) = TOK_IDENTIFIER
    BY <1>3, <2>1 DEF Major
  <2>3. Minor(lexeme, place).owns = {<<"token", place>>}
    BY <1>3, <2>1 DEF Minor
  <2> QED  BY <2>2, <2>3 DEF TOK_IDENTIFIER
<1> QED  BY <1>1, <1>2, <1>3 DEF Known

LEMMA CallsAreWritten ==
  ASSUME NEW lexeme, Known(lexeme)
  PROVE  /\ Major(lexeme) = 20 => lexeme \in Identifiers
         /\ Major(lexeme) = 21 => lexeme = "("
<1>1. CASE lexeme \in Symbols
  <2>1. lexeme \notin DOMAIN Literals /\ lexeme \notin Identifiers
    BY <1>1, LexemeAssumption
  <2>2. DOMAIN yyTokenName = 1 .. 27
    BY DEF yyTokenName
  <2>3. \E k \in 1 .. 27 : yyTokenName[k] = lexeme
    BY <1>1, <2>2 DEF Symbols
  <2>4. Major(lexeme) = CHOOSE k \in 1 .. 27 : yyTokenName[k] = lexeme
    BY <1>1, <2>1, <2>2 DEF Major
  <2>5. yyTokenName[Major(lexeme)] = lexeme
    BY <2>3, <2>4
  <2>6. yyTokenName[20] = "identifier" /\ yyTokenName[21] = "("
    BY DEF yyTokenName
  <2>7. \A k \in 1 .. 27 : yyTokenName[k] = "identifier" => k = 20
    <3>1. /\ yyTokenName[1] # "identifier" /\ yyTokenName[2] # "identifier" /\ yyTokenName[3] # "identifier"
        /\ yyTokenName[4] # "identifier" /\ yyTokenName[5] # "identifier" /\ yyTokenName[6] # "identifier"
        /\ yyTokenName[7] # "identifier" /\ yyTokenName[8] # "identifier" /\ yyTokenName[9] # "identifier"
        /\ yyTokenName[10] # "identifier" /\ yyTokenName[11] # "identifier" /\ yyTokenName[12] # "identifier"
        /\ yyTokenName[13] # "identifier" /\ yyTokenName[14] # "identifier" /\ yyTokenName[15] # "identifier"
        /\ yyTokenName[16] # "identifier" /\ yyTokenName[17] # "identifier" /\ yyTokenName[18] # "identifier"
        /\ yyTokenName[19] # "identifier" /\ yyTokenName[21] # "identifier" /\ yyTokenName[22] # "identifier"
        /\ yyTokenName[23] # "identifier" /\ yyTokenName[24] # "identifier" /\ yyTokenName[25] # "identifier"
        /\ yyTokenName[26] # "identifier" /\ yyTokenName[27] # "identifier"
      BY DEF yyTokenName
    <3>2. \A k \in 1 .. 27 : k \in 1 .. 9 \/ k \in 10 .. 18 \/ k \in 19 .. 27
      OBVIOUS
    <3> QED  BY <3>1, <3>2
  <2>8. "identifier" \notin Symbols
    BY <2>2, <2>7 DEF Symbols
  <2> QED  BY <1>1, <2>5, <2>6, <2>8
<1>2. CASE lexeme \in DOMAIN Literals
  <2>1. lexeme \notin Symbols /\ lexeme \notin Identifiers
    BY <1>2, LexemeAssumption
  <2>2. Major(lexeme) = TOK_INT
    BY <1>2, <2>1 DEF Major
  <2> QED  BY <2>2 DEF TOK_INT
<1>3. CASE lexeme \in Identifiers
  <2>1. lexeme \notin Symbols /\ lexeme \notin DOMAIN Literals
    BY <1>3, LexemeAssumption
  <2>2. Major(lexeme) = TOK_IDENTIFIER
    BY <1>3, <2>1 DEF Major
  <2> QED  BY <1>3, <2>2 DEF TOK_IDENTIFIER
<1> QED  BY <1>1, <1>2, <1>3 DEF Known

(* The first symbols of a call.                                            *)
LEMMA CallsBegin ==
  ASSUME NEW r \in Calls
  PROVE  RightHandSide[r + 1][1] = 20 /\ RightHandSide[r + 1][2] = 21
<1>1. RightHandSide[12] = <<20, 21, expr, 22, expr, 23>> /\ RightHandSide[13] = <<20, 21, expr, 23>>
  BY DEF RightHandSide
<1>2. r = 11 \/ r = 12
  BY DEF Calls
<1>3. CASE r = 11
  BY <1>1, <1>3
<1>4. CASE r = 12
  BY <1>1, <1>4
<1> QED  BY <1>2, <1>3, <1>4

(* What the rules do with what their symbols hold.                         *)
LEMMA LeftHolds ==
  ASSUME NEW r \in Rules, NEW m
  PROVE  /\ \A object \in LeftHandSide(r, m).owns :
              object \in NewNode(r, m) \/ (r > 1 /\ \E k \in Carried(r) : object \in m[k].owns)
         /\ NewNode(r, m) \subseteq LeftHandSide(r, m).owns
         /\ r > 1 /\ ~ Undeclared(r, m) => \A k \in Carried(r) : m[k].owns \subseteq LeftHandSide(r, m).owns
<1>1. DOMAIN BinaryRules = {3, 4, 5, 6, 7, 8, 17, 18, 19, 20, 21, 22, 24, 25}
  BY DEF BinaryRules
<1>2. r \in 0 .. 28
  BY DEF Rules, YYNRULE
<1>3. r \in {0, 1, 13, 16, 27, 28} \/ r \in DOMAIN BinaryRules \cup {2, 9, 10, 11, 12, 14, 15, 23, 26}
  BY <1>1, <1>2
<1>4. r \in DOMAIN BinaryRules \cup {2, 9, 10, 11, 12, 14, 15, 23, 26} =>
        r > 1 /\ r \notin {0, 1} /\ r \notin {13, 16} /\ r \notin {27, 28}
  BY <1>1
<1>5. CASE MakesNode(r, m)
  <2>1. r \in DOMAIN BinaryRules \cup {2, 9, 10, 11, 12, 14, 15, 23, 26}
    BY <1>5 DEF MakesNode
  <2>2. Carried(r) = Children(r)
    BY <1>4, <2>1 DEF Carried
  <2>3. LeftHandSide(r, m).owns = (UNION {m[k].owns : k \in Children(r)}) \cup NewNode(r, m)
    BY <1>4, <1>5, <2>1 DEF LeftHandSide
  <2> DEFINE left == LeftHandSide(r, m).owns
             new == NewNode(r, m)
             old == UNION {m[k].owns : k \in Children(r)}
  <2>4. \A object : object \in old <=> \E k \in Carried(r) : object \in m[k].owns
    BY <2>2
  <2>5. left = old \cup new
    BY <2>3, Zenon
  <2> HIDE DEF left, new, old
  <2>6. /\ \A object \in left : object \in new \/ \E k \in Carried(r) : object \in m[k].owns
        /\ new \subseteq left
        /\ \A k \in Carried(r) : m[k].owns \subseteq left
    BY <2>4, <2>5
  <2>7. r > 1
    BY <1>4, <2>1
  <2> QED  BY <2>6, <2>7 DEF left, new
<1>6. CASE ~ MakesNode(r, m) /\ r \in {13, 16}
  <2>1. NewNode(r, m) = {}
    BY <1>6 DEF NewNode
  <2>2. Carried(r) = {2} /\ LeftHandSide(r, m) = m[2] /\ r > 1
    BY <1>6 DEF Carried, LeftHandSide
  <2> QED  BY <2>1, <2>2
<1>7. CASE ~ MakesNode(r, m) /\ r \in {27, 28}
  <2>1. NewNode(r, m) = {}
    BY <1>7 DEF NewNode
  <2>2. Carried(r) = {3} /\ LeftHandSide(r, m) = m[3] /\ r > 1
    BY <1>7 DEF Carried, LeftHandSide
  <2> QED  BY <2>1, <2>2
<1>8. CASE ~ MakesNode(r, m) /\ r \notin {13, 16, 27, 28}
  <2>1. NewNode(r, m) = {}
    BY <1>8 DEF NewNode
  <2>2. LeftHandSide(r, m) = Nothing
    BY <1>8 DEF LeftHandSide
  <2>3. r \in {0, 1} \/ Undeclared(r, m)
    BY <1>3, <1>8 DEF MakesNode
  <2> QED  BY <2>1, <2>2, <2>3 DEF Nothing
<1> QED  BY <1>5, <1>6, <1>7, <1>8

-----------------------------------------------------------------------------
(* The stack.                                                              *)
LEMMA StackTyped ==
  ASSUME StackInv
  PROVE  Len(yystack) \in Nat /\ DOMAIN yystack = 1 .. Len(yystack) /\ (yystack # <<>> => Len(yystack) > 0)
<1>1. PICK S : yystack \in Seq(S)
  BY DEF StackInv
<1> QED  BY <1>1

(* What the tables say to do.                                              *)
Top == yystack[Len(yystack)].stateno
LEMMA TopAction ==
  ASSUME StackInv, phase = "parse"
  PROVE  /\ Len(yystack) \in Nat \ {0} /\ Top \in 0 .. YYNSTATE - 1
         /\ \/ yyact \in 0 .. YYNSTATE - 1 /\ yymajor # 0 /\ Continues(Top, yymajor, yyact)
            \/ /\ yyact \in YYNSTATE .. YY_ERROR_ACTION - 1
               /\ yyact - YYNSTATE \in Rules
               /\ <<yyact - YYNSTATE, yyRuleInfo[yyact - YYNSTATE + 1][2]>> \in Within[Top + 1]
            \/ yyact = YY_ERROR_ACTION /\ \A r \in Calls : <<r, 1>> \notin Within[Top + 1]
<1>1. Len(yystack) \in Nat \ {0}
  BY StackTyped DEF StackInv
<1>2. Top \in 0 .. YYNSTATE - 1
  BY <1>1 DEF StackInv, Top
<1>3. yymajor \in 0 .. 27
  BY DEF StackInv
<1>4. yyact = yy_find_shift_action(Top, yymajor)
  BY DEF yyact, Top
<1>5. \A act \in YYNSTATE .. YY_ERROR_ACTION - 1 : act - YYNSTATE \in Rules
  BY DEF YYNSTATE, YY_ERROR_ACTION, YYNRULE, Rules
<1> QED  BY <1>1, <1>2, <1>3, <1>4, <1>5, TablesFit

(* States, rules, the error and the acceptance have numbers of their own.  *)
LEMMA ActionsApart ==
  ASSUME NEW act
  PROVE  /\ act \in YYNSTATE .. YY_ERROR_ACTION - 1 => ~ (act < YYNSTATE) /\ act # YY_ERROR_ACTION
         /\ act \in 0 .. YYNSTATE - 1 => act < YYNSTATE /\ act # YY_ERROR_ACTION
                                        /\ act \notin YYNSTATE .. YY_ERROR_ACTION - 1
         /\ act = YY_ERROR_ACTION => ~ (act < YYNSTATE) /\ act \notin YYNSTATE .. YY_ERROR_ACTION - 1
         /\ act = YY_ACCEPT_ACTION => ~ (act < YYNSTATE)
  BY DEF YYNSTATE, YY_ERROR_ACTION, YY_ACCEPT_ACTION, YYNRULE, Rules

LEMMA ItemsTyped ==
  ASSUME NEW s \in 0 .. YYNSTATE - 1, NEW item \in Within[s + 1]
  PROVE  item[1] \in Rules /\ item[2] \in 1 .. 8 /\ item = <<item[1], item[2]>> /\ s # 0
<1>1. s + 1 \in 1 .. YYNSTATE
  BY DEF YYNSTATE
<1>2. item \in Rules \X (1 .. 8)
  BY <1>1, TablesFit
<1>3. s # 0
  BY TablesFit
<1> QED  BY <1>2, <1>3

(* A rule that is to be reduced lies on top of the stack, and what is      *)
(* below it has a state to go on to.                                       *)
LEMMA RuleOnTop ==
  ASSUME StackInv, yystack # <<>>, NEW r \in Rules, <<r, yyRuleInfo[r + 1][2]>> \in Within[Top + 1]
  PROVE  LET nrhs == yyRuleInfo[r + 1][2]
             below == Len(yystack) - nrhs
         IN  /\ nrhs \in 1 .. 8
             /\ below \in 1 .. Len(yystack) - 1
             /\ \A j \in 1 .. nrhs : yystack[below + j].major = RightHandSide[r + 1][j]
             /\ HasGoto(yystack[below].stateno, Left(r))
<1> DEFINE nrhs == yyRuleInfo[r + 1][2]
           n == Len(yystack)
           Reached(j) ==
             j < nrhs =>
               /\ n - j \in 2 .. n
               /\ <<r, nrhs - j>> \in Within[yystack[n - j].stateno + 1]
               /\ yystack[n - j].major = RightHandSide[r + 1][nrhs - j]
<1>1. n \in Nat \ {0}
  BY StackTyped
<1>2. \A k \in 1 .. n : yystack[k].stateno \in 0 .. YYNSTATE - 1
  BY DEF StackInv
<1>3. nrhs \in 1 .. 8
  <2>1. n \in 1 .. n
    BY <1>1
  <2>2. Top \in 0 .. YYNSTATE - 1
    BY <1>2, <2>1 DEF Top
  <2>3. <<r, nrhs>>[2] \in 1 .. 8
    BY <2>2, ItemsTyped
  <2> QED  BY <2>3
<1> HIDE DEF nrhs
(* An entry within a rule continues the one below it.                      *)
<1>4. ASSUME NEW k \in 1 .. n, NEW d \in 1 .. 8, <<r, d>> \in Within[yystack[k].stateno + 1]
      PROVE  /\ k \in 2 .. n
             /\ yystack[k].major = RightHandSide[r + 1][d]
             /\ d = 1 => HasGoto(yystack[k - 1].stateno, Left(r))
             /\ d > 1 => <<r, d - 1>> \in Within[yystack[k - 1].stateno + 1]
  <2>1. yystack[k].stateno # 0
    BY <1>2, <1>4, ItemsTyped
  <2>2. k # 1
    BY <2>1 DEF StackInv, Bottom
  <2>3. k \in 2 .. n
    BY <1>1, <2>2
  <2>4. Continues(yystack[k - 1].stateno, yystack[k].major, yystack[k].stateno)
    BY <2>3 DEF StackInv
  <2>5. <<r, d>>[1] = r /\ <<r, d>>[2] = d
    OBVIOUS
  <2>6. /\ RightHandSide[r + 1][d] = yystack[k].major
        /\ IF d = 1 THEN HasGoto(yystack[k - 1].stateno, Left(r)) ELSE <<r, d - 1>> \in Within[yystack[k - 1].stateno + 1]
    BY <1>4, <2>4, <2>5 DEF Continues
  <2> QED  BY <2>3, <2>6
<1>5. Reached(0)
  <2>1. n \in 1 .. n /\ <<r, nrhs>> \in Within[yystack[n].stateno + 1]
    BY <1>1 DEF Top, nrhs
  <2>2. n - 0 = n /\ nrhs - 0 = nrhs
    BY <1>1, <1>3
  <2>3. n \in 2 .. n /\ yystack[n].major = RightHandSide[r + 1][nrhs]
    BY <1>3, <1>4, <2>1
  <2> QED  BY <2>1, <2>2, <2>3
<1>6. ASSUME NEW j \in Nat, Reached(j)
      PROVE  Reached(j + 1)
  <2> SUFFICES ASSUME j + 1 < nrhs PROVE Reached(j + 1)
    OBVIOUS
  <2>1. n - j \in 2 .. n /\ <<r, nrhs - j>> \in Within[yystack[n - j].stateno + 1]
    BY <1>3, <1>6
  <2>2. n - j \in 1 .. n /\ nrhs - j \in 1 .. 8 /\ nrhs - j > 1
    BY <1>1, <1>3, <2>1
  <2>3. <<r, (nrhs - j) - 1>> \in Within[yystack[(n - j) - 1].stateno + 1]
    BY <1>4, <2>1, <2>2
  <2>4. (n - j) - 1 = n - (j + 1) /\ (nrhs - j) - 1 = nrhs - (j + 1)
    BY <1>1, <1>3
  <2>5. n - (j + 1) \in 1 .. n /\ nrhs - (j + 1) \in 1 .. 8
    BY <1>1, <1>3, <2>1
  <2> QED  BY <1>4, <2>3, <2>4, <2>5
<1>7. \A j \in 0 .. 7 : Reached(j)
  <2> HIDE DEF Reached
  <2>1. Reached(1) /\ Reached(2)
    BY <1>5, <1>6
  <2>2. Reached(3) /\ Reached(4)
    BY <1>6, <2>1
  <2>3. Reached(5) /\ Reached(6)
    BY <1>6, <2>2
  <2>4. Reached(7)
    BY <1>6, <2>3
  <2>5. \A j \in 0 .. 7 : j = 0 \/ j = 1 \/ j = 2 \/ j = 3 \/ j = 4 \/ j = 5 \/ j = 6 \/ j = 7
    OBVIOUS
  <2> QED  BY <1>5, <2>1, <2>2, <2>3, <2>4, <2>5
<1>8. ASSUME NEW j \in 1 .. nrhs
      PROVE  n - nrhs + j \in 2 .. n /\ yystack[n - nrhs + j].major = RightHandSide[r + 1][j]
  <2>1. nrhs - j \in 0 .. 7 /\ nrhs - j < nrhs
    BY <1>3
  <2>2. n - (nrhs - j) = n - nrhs + j /\ nrhs - (nrhs - j) = j
    BY <1>1, <1>3
  <2> QED  BY <1>7, <2>1, <2>2
<1>9. n - nrhs \in 1 .. n - 1 /\ HasGoto(yystack[n - nrhs].stateno, Left(r))
  <2>1. 1 \in 1 .. nrhs /\ nrhs - 1 \in 0 .. 7 /\ nrhs - 1 < nrhs
    BY <1>3
  <2>2. n - (nrhs - 1) \in 2 .. n /\ <<r, nrhs - (nrhs - 1)>> \in Within[yystack[n - (nrhs - 1)].stateno + 1]
    BY <1>7, <2>1
  <2>3. n - (nrhs - 1) \in 1 .. n /\ 1 \in 1 .. 8 /\ nrhs - (nrhs - 1) = 1 /\ (n - (nrhs - 1)) - 1 = n - nrhs
    BY <1>1, <1>3, <2>2
  <2>4. HasGoto(yystack[n - nrhs].stateno, Left(r))
    BY <1>4, <2>2, <2>3
  <2> QED  BY <1>1, <1>3, <2>2, <2>4
<1> QED  BY <1>3, <1>8, <1>9 DEF nrhs

-----------------------------------------------------------------------------
(* One step at a time.                                                     *)

LEMMA BottomIs == Bottom.stateno = 0 /\ Bottom.major = 0 /\ Bottom.minor.owns = {} /\ Within[Bottom.stateno + 1] = {}
<1>1. Bottom.stateno = 0 /\ Bottom.major = 0 /\ Bottom.minor.owns = {}
  BY DEF Bottom, Nothing
<1>2. Within[1] = {}
  BY TablesFit
<1> QED  BY <1>1, <1>2

(* Calls stay in the text, and errors stay recorded.                       *)
LEMMA CallStays ==
  ASSUME text \in Seq(STRING), NEW lexeme \in STRING, text' = Append(text, lexeme), HasCall
  PROVE  HasCall'
<1>1. PICK k \in 1 .. Len(text) - 1 : text[k] \in Identifiers /\ text[k + 1] = "("
  BY DEF HasCall
<1>2. k \in 1 .. Len(text') - 1 /\ text'[k] = text[k] /\ text'[k + 1] = text[k + 1]
  BY <1>1
<1> QED  BY <1>1, <1>2 DEF HasCall

(* What is deleted with the entries at the bottom of the stack is what     *)
(* they hold.                                                              *)
LEMMA DeletedIsHeld ==
  ASSUME StackInv, HeldInv, NEW p \in 0 .. Len(yystack), NEW entries,
         DOMAIN entries = 1 .. p, \A i \in 1 .. p : entries[i] = yystack[i], NEW object
  PROVE  object \in Deleted(entries) <=> \E h \in 1 .. p : object \in Held(h)
<1>1. Len(yystack) \in Nat
  BY StackTyped
<1>2. ASSUME NEW i \in 1 .. p
      PROVE  /\ i > 0 /\ entries[i].minor.owns = Held(i)
             /\ Deletable(entries[i].major) \/ Held(i) = {}
  <2>1. i \in 1 .. Len(yystack) /\ entries[i] = yystack[i]
    BY <1>1, <1>2
  <2>2. entries[i].minor.owns = Held(i)
    BY <2>1 DEF Held
  <2>3. yystack[i].major \in (0 .. 27) \cup (29 .. 32)
    BY <2>1 DEF StackInv
  <2>4. yystack[i].major \in {0, 31, 32} => Held(i) = {}
    BY <2>1 DEF HeldInv
  <2>5. Deletable(entries[i].major) \/ Held(i) = {}
    <3>1. \A major \in (0 .. 27) \cup (29 .. 32) : major \in {0, 31, 32} \/ Deletable(major)
      BY DEF Deletable, Terminal, expr, bool_expr
    <3> QED  BY <2>1, <2>3, <2>4, <3>1
  <2> QED  BY <2>2, <2>5
<1> DEFINE chosen == {entries[k] : k \in {j \in 1 .. p : Deletable(entries[j].major)}}
<1>3. Deleted(entries) = UNION {e.minor.owns : e \in chosen}
  BY DEF Deleted
<1>4. object \in Deleted(entries) <=> \E e \in chosen : object \in e.minor.owns
  BY <1>3
<1>5. (\E e \in chosen : object \in e.minor.owns)
        <=> \E i \in 1 .. p : Deletable(entries[i].major) /\ object \in entries[i].minor.owns
  OBVIOUS
<1> QED  BY <1>2, <1>4, <1>5

(* The stack is emptied, with an error, after one, or at the end.          *)
LEMMA Emptied ==
  ASSUME ParserInv, NEW D, heap' = heap \ D,
         \A object : object \in D <=> \E h \in 1 .. Len(yystack) : object \in Held(h),
         yystack' = <<>>, phase' # "parse", yymajor' = yymajor, parse_errors' \in Nat, parse_errors' >= parse_errors,
         UNCHANGED <<session, text, root, made>>
  PROVE  ParserInv'
<1>1. Len(yystack') = 0 /\ DOMAIN yystack' = {} /\ 1 .. Len(yystack') = {} /\ 2 .. Len(yystack') = {}
  OBVIOUS
<1>2. Holders' = {-1, 0}
  BY <1>1 DEF Holders
<1>3. Held(-1)' = {} /\ Held(0)' = Held(0)
  BY DEF Held
<1>4. Len(yystack) \in Nat /\ 0 \in Holders /\ \A h \in 1 .. Len(yystack) : h \in Holders /\ h # 0
  BY StackTyped DEF ParserInv, Holders
<1>5. Held(0) \cap D = {}
  BY <1>4 DEF ParserInv, HeldInv, HoldersApart
<1>6. StackInv'
  <2>1. yystack' \in Seq({})
    OBVIOUS
  <2> QED  BY <1>1, <2>1 DEF ParserInv, StackInv
<1>7. HeldInv'
  <2>1. made' \in Nat
    BY DEF ParserInv, HeldInv
  <2>2. \A object \in heap' : \/ \E i \in 1 .. Len(text') : object = <<"token", i>>
                              \/ \E i \in 1 .. made' : object = <<"node", i>>
    BY DEF ParserInv, HeldInv
  <2>3. \A h \in Holders' : Held(h)' \subseteq heap'
    BY <1>2, <1>3, <1>4, <1>5 DEF ParserInv, HeldInv
  <2>4. HoldersApart'
    BY <1>2, <1>3 DEF HoldersApart
  <2> QED  BY <1>1, <1>3, <2>1, <2>2, <2>3, <2>4 DEF HeldInv
<1>8. CallInv'
  <2>1. ~ IdentifierOnTop'
    BY DEF IdentifierOnTop
  <2> QED  BY <1>1, <2>1 DEF ParserInv, CallInv
<1>9. ForgetInv'
  <2> SUFFICES ASSUME parse_errors' = 0 \/ ~ HasCall', NEW object \in heap', object[1] = "node"
               PROVE  \E h \in Holders' : object \in Held(h)'
    BY DEF ForgetInv, NothingForgotten
  <2>1. HasCall' <=> HasCall
    BY DEF HasCall
  <2>2. parse_errors = 0 \/ ~ HasCall
    BY <2>1 DEF ParserInv, ForgetInv
  <2>3. PICK h \in Holders : object \in Held(h)
    BY <2>2 DEF ParserInv, ForgetInv, NothingForgotten
  <2>4. h # -1
    BY <2>3 DEF ParserInv, HeldInv
  <2>5. h \notin 1 .. Len(yystack)
    BY <2>3
  <2>6. h = 0
    BY <1>4, <2>4, <2>5 DEF Holders
  <2> QED  BY <1>2, <1>3, <2>3, <2>6
<1> QED  BY <1>6, <1>7, <1>8, <1>9 DEF ParserInv

(* What is handed on from holder to holder, each one's objects to one      *)
(* other, and made anew by one, has one holder again.                      *)
Hands(origin, fresh, maker) ==
  /\ \A h \in Holders : Held(h) \cap fresh = {}
  /\ \A g \in Holders' : \A object \in Held(g)' :
       (g = maker /\ object \in fresh) \/ \E h \in Holders : h \in origin[g] /\ object \in Held(h)
  /\ \A g, h \in Holders' : g # h => origin[g] \cap origin[h] = {}
LEMMA HandedOn ==
  ASSUME HoldersApart, NEW origin, NEW fresh, NEW maker, Hands(origin, fresh, maker)
  PROVE  HoldersApart'
<1> SUFFICES ASSUME NEW g \in Holders', NEW h \in Holders', g # h, NEW object \in Held(g)', object \in Held(h)'
             PROVE  FALSE
  BY DEF HoldersApart
<1>1. CASE object \in fresh
  <2>1. g = maker /\ h = maker
    BY <1>1 DEF Hands
  <2> QED  BY <2>1
<1>2. CASE object \notin fresh
  <2>1. PICK g0 \in Holders : g0 \in origin[g] /\ object \in Held(g0)
    BY <1>2 DEF Hands
  <2>2. PICK h0 \in Holders : h0 \in origin[h] /\ object \in Held(h0)
    BY <1>2 DEF Hands
  <2>3. g0 = h0
    BY <2>1, <2>2 DEF HoldersApart
  <2> QED  BY <2>1, <2>2, <2>3 DEF Hands
<1> QED  BY <1>1, <1>2

(* A token goes to the parser, or the end of the text does.                *)
LEMMA Called ==
  ASSUME ParserInv, phase = "scan", NEW major \in 0 .. 27, NEW minor, CallParse(major, minor),
         \/ major = 0 /\ minor.owns = {} /\ UNCHANGED text
         \/ /\ \A object \in minor.owns : object = <<"token", Len(text) + 1>>
            /\ \E lexeme \in STRING : text' = Append(text, lexeme) /\ Known(lexeme) /\ major = Major(lexeme)
  PROVE  ParserInv'
<1>1. /\ phase' = "parse" /\ yymajor' = major /\ yyminor' = minor /\ heap' = heap \cup minor.owns
      /\ yystack' = IF yystack = <<>> THEN <<Bottom>> ELSE yystack
      /\ UNCHANGED <<session, root, parse_errors, made>>
  BY DEF CallParse
<1>2. Len(yystack) \in Nat /\ DOMAIN yystack = 1 .. Len(yystack) /\ (yystack # <<>> => Len(yystack) > 0)
  BY StackTyped DEF ParserInv
<1>3. text \in Seq(STRING) /\ Len(text) \in Nat
  BY DEF ParserInv, CallInv
<1>4. text' \in Seq(STRING) /\ Len(text') >= Len(text) /\ Len(text') \in Nat
  BY <1>3
<1>5. yystack = <<>> => yystack' = <<Bottom>> /\ Len(yystack) = 0 /\ Len(yystack') = 1 /\ yystack'[1] = Bottom
  BY <1>1
<1>6. yystack # <<>> => yystack' = yystack
  BY <1>1
<1>7. \A g \in Holders' : g = -1 \/ (g \in Holders /\ Held(g)' = Held(g)) \/ (g = 1 /\ yystack = <<>> /\ Held(g)' = {})
  <2>1. CASE yystack = <<>>
    <3>1. Holders' = -1 .. 1 /\ Holders = -1 .. 0
      BY <1>5, <2>1 DEF Holders
    <3>2. Held(1)' = {}
      BY <1>5, <2>1 DEF Held, Bottom, Nothing
    <3>3. Held(0)' = Held(0)
      BY <1>1 DEF Held
    <3> QED  BY <2>1, <3>1, <3>2, <3>3
  <2>2. CASE yystack # <<>>
    BY <1>1, <1>6, <2>2 DEF Holders, Held
  <2> QED  BY <2>1, <2>2
<1>8. Held(-1)' = minor.owns /\ -1 \in Holders'
  BY <1>1, <1>2, <1>5, <1>6 DEF Held, Holders
<1>9. \A object \in minor.owns : object = <<"token", Len(text) + 1>> /\ Len(text') = Len(text) + 1 /\ major \in 1 .. 27
  <2> SUFFICES ASSUME NEW object \in minor.owns
               PROVE  object = <<"token", Len(text) + 1>> /\ Len(text') = Len(text) + 1 /\ major \in 1 .. 27
    OBVIOUS
  <2>1. PICK lexeme \in STRING : text' = Append(text, lexeme) /\ Known(lexeme) /\ major = Major(lexeme)
    OBVIOUS
  <2>2. Len(text') = Len(text) + 1
    BY <1>3, <2>1
  <2>3. Major(lexeme) \in 1 .. 27
    BY <2>1, LexemesAreTokens
  <2> QED  BY <2>1, <2>2, <2>3
<1>10. minor.owns \cap heap = {}
  <2> SUFFICES ASSUME NEW object \in heap PROVE object \notin minor.owns
    OBVIOUS
  <2>1. \/ \E i \in 1 .. Len(text) : object = <<"token", i>>
        \/ \E i \in 1 .. made : object = <<"node", i>>
    BY DEF ParserInv, HeldInv
  <2>2. object # <<"token", Len(text) + 1>>
    BY <1>3, <2>1
  <2> QED  BY <1>9, <2>2
<1>11. StackInv'
  <2>1. CASE yystack = <<>>
    <3>1. \A b : <<b>> \in Seq({b})
      OBVIOUS
    <3>2. Len(yystack') = 1 /\ yystack'[1] = Bottom /\ yystack' \in Seq({Bottom})
      BY <1>5, <2>1, <3>1
    <3>3. \A k \in 1 .. Len(yystack') : yystack'[k] = Bottom
      BY <3>2
    <3>4. 2 .. Len(yystack') = {}
      BY <3>2
    <3>5. yystack' # <<>> /\ 0 \in 0 .. YYNSTATE - 1
      BY <1>5, <2>1 DEF YYNSTATE
    <3>6. \A k \in 1 .. Len(yystack') :
            yystack'[k].stateno \in 0 .. YYNSTATE - 1 /\ yystack'[k].major \in (0 .. 27) \cup (29 .. 32)
      BY <3>3, <3>5, BottomIs
    <3>7. \E S : yystack' \in Seq(S)
      BY <3>2
    <3> QED  BY <1>1, <3>2, <3>4, <3>5, <3>6, <3>7 DEF StackInv
  <2>2. CASE yystack # <<>>
    BY <1>1, <1>6, <2>2 DEF ParserInv, StackInv
  <2> QED  BY <2>1, <2>2
<1>12. HeldInv'
  <2>1. made' \in Nat
    BY <1>1 DEF ParserInv, HeldInv
  <2>2. ASSUME NEW object \in heap'
        PROVE  \/ \E i \in 1 .. Len(text') : object = <<"token", i>>
               \/ \E i \in 1 .. made' : object = <<"node", i>>
    <3>1. CASE object \in minor.owns
      <4>1. Len(text) + 1 \in 1 .. Len(text')
        BY <1>3, <1>9, <3>1
      <4> QED  BY <1>9, <3>1, <4>1
    <3>2. CASE object \in heap
      <4>1. \A i \in 1 .. Len(text) : i \in 1 .. Len(text')
        BY <1>3, <1>4
      <4> QED  BY <1>1, <3>2, <4>1 DEF ParserInv, HeldInv
    <3> QED  BY <1>1, <3>1, <3>2
  <2>3. \A h \in Holders' : Held(h)' \subseteq heap'
    BY <1>1, <1>7, <1>8 DEF ParserInv, HeldInv
  <2>4. HoldersApart'
    <3> DEFINE origin == [g \in Holders' |-> IF g = -1 THEN {} ELSE {g}]
               fresh == minor.owns
               maker == -1
    <3>1. \A h \in Holders : Held(h) \cap fresh = {}
      BY <1>10 DEF ParserInv, HeldInv
    <3>2. \A g \in Holders' : \A object \in Held(g)' :
            (g = maker /\ object \in fresh) \/ \E h \in Holders : h \in origin[g] /\ object \in Held(h)
      BY <1>7, <1>8
    <3>3. \A g, h \in Holders' : g # h => origin[g] \cap origin[h] = {}
      OBVIOUS
    <3>4. HoldersApart
      BY DEF ParserInv, HeldInv
    <3> HIDE DEF origin, fresh, maker
    <3>5. Hands(origin, fresh, maker)
      BY <3>1, <3>2, <3>3 DEF Hands
    <3> QED  BY <3>4, <3>5, HandedOn
  <2>5. \A object \in Held(-1)' : object[1] = "token"
    BY <1>8, <1>9
  <2>6. yymajor' = 0 => Held(-1)' = {}
    BY <1>1, <1>8, <1>9
  <2>7. ASSUME NEW k \in 1 .. Len(yystack')
        PROVE  /\ Terminal(yystack[k].major)' => \A object \in Held(k)' : object[1] = "token"
               /\ yystack'[k].major \in {0, 31, 32} => Held(k)' = {}
    <3>1. k \in Holders' /\ k # -1
      BY <1>2, <1>5, <1>6 DEF Holders
    <3>2. CASE Held(k)' = {}
      BY <3>2
    <3>3. CASE Held(k)' # {}
      <4>1. k \in Holders /\ Held(k)' = Held(k)
        BY <1>7, <3>1, <3>3
      <4>2. yystack # <<>>
        BY <1>5, <4>1 DEF Holders
      <4> QED  BY <1>6, <4>1, <4>2 DEF ParserInv, HeldInv
    <3> QED  BY <3>2, <3>3
  <2> QED  BY <2>1, <2>2, <2>3, <2>4, <2>5, <2>6, <2>7 DEF HeldInv
<1>13. HasCall => HasCall'
  <2>1. UNCHANGED text => (HasCall => HasCall')
    BY DEF HasCall
  <2> QED  BY <1>3, <2>1, CallStays
<1>14. CallInv'
  <2>1. session' \in Sessions
    BY <1>1 DEF ParserInv, CallInv
  <2>2. yymajor' # 0 => \E lexeme \in STRING : text' = Append(text, lexeme) /\ Known(lexeme) /\ yymajor' = Major(lexeme)
    BY <1>1
  <2>3. yymajor' # 0 => text' # <<>> /\ Known(text[Len(text)])' /\ yymajor' = Major(text[Len(text)])'
    <3> SUFFICES ASSUME yymajor' # 0
                 PROVE  text' # <<>> /\ Known(text'[Len(text')]) /\ yymajor' = Major(text'[Len(text')])
      BY DEF Known, Major
    <3>1. PICK lexeme \in STRING : text' = Append(text, lexeme) /\ Known(lexeme) /\ yymajor' = Major(lexeme)
      BY <2>2
    <3>2. text' # <<>> /\ text'[Len(text')] = lexeme
      BY <1>3, <3>1
    <3> QED  BY <3>1, <3>2
  <2>4. IdentifierOnTop' => IdentifierOnTop
    <3>1. CASE yystack = <<>>
      <4>1. yystack'[Len(yystack')] = Bottom
        BY <1>5, <3>1
      <4> QED  BY <4>1, BottomIs DEF IdentifierOnTop
    <3>2. CASE yystack # <<>>
      BY <1>6, <3>2 DEF IdentifierOnTop
    <3> QED  BY <3>1, <3>2
  <2>5. yymajor' # 0 /\ IdentifierOnTop' => Len(text') > 1 /\ text'[Len(text') - 1] \in Identifiers
    <3> SUFFICES ASSUME yymajor' # 0, IdentifierOnTop'
                 PROVE  Len(text') > 1 /\ text'[Len(text') - 1] \in Identifiers
      OBVIOUS
    <3>1. text # <<>> /\ text[Len(text)] \in Identifiers
      BY <2>4 DEF ParserInv, CallInv
    <3>2. PICK lexeme \in STRING : text' = Append(text, lexeme)
      BY <2>2
    <3>3. Len(text) \in Nat \ {0} /\ Len(text') - 1 = Len(text) /\ text'[Len(text)] = text[Len(text)] /\ Len(text') > 1
      BY <1>3, <3>1, <3>2
    <3> QED  BY <3>1, <3>3
  <2>6. ASSUME NEW k \in 1 .. Len(yystack'), NEW item \in Within[yystack'[k].stateno + 1], item[1] \in Calls, item[2] > 1
        PROVE  HasCall'
    <3>1. CASE yystack = <<>>
      <4>1. Len(yystack') = 1
        BY <1>5, <3>1
      <4>3. k = 1
        BY <2>6, <4>1
      <4>2. item \in Within[Bottom.stateno + 1]
        BY <1>5, <2>6, <3>1, <4>3
      <4> QED  BY <4>2, BottomIs
    <3>2. CASE yystack # <<>>
      BY <1>6, <1>13, <2>6, <3>2 DEF ParserInv, CallInv
    <3> QED  BY <3>1, <3>2
  <2> QED  BY <1>1, <1>4, <2>1, <2>3, <2>5, <2>6 DEF CallInv
<1>15. ForgetInv'
  <2> SUFFICES ASSUME parse_errors' = 0 \/ ~ HasCall', NEW object \in heap', object[1] = "node"
               PROVE  \E h \in Holders' : object \in Held(h)'
    BY <1>1 DEF ParserInv, ForgetInv, NothingForgotten
  <2>1. object \in heap
    BY <1>1, <1>9
  <2>2. parse_errors = 0 \/ ~ HasCall
    BY <1>1, <1>13
  <2>3. PICK h \in Holders : object \in Held(h)
    BY <2>1, <2>2 DEF ParserInv, ForgetInv, NothingForgotten
  <2>4. h # -1
    BY <2>3 DEF ParserInv, HeldInv
  <2>5. h \in Holders' /\ Held(h)' = Held(h)
    BY <1>1, <1>2, <1>5, <1>6, <2>4 DEF Holders, Held
  <2> QED  BY <2>3, <2>5
<1> QED  BY <1>11, <1>12, <1>14, <1>15 DEF ParserInv

LEMMA FollowingAreStrings ==
  ASSUME CallInv
  PROVE  Following \subseteq STRING
<1>1. Len(text) \in Nat /\ session.given \in Seq(STRING) /\ session.free \subseteq STRING
  BY LexemeAssumption DEF CallInv
<1>2. CASE Len(text) < Len(session.given)
  <2>1. Len(text) + 1 \in 1 .. Len(session.given)
    BY <1>1, <1>2
  <2>2. session.given[Len(text) + 1] \in STRING
    BY <1>1, <2>1
  <2>3. Following = {session.given[Len(text) + 1]}
    BY <1>2 DEF Following
  <2> QED  BY <2>2, <2>3
<1>3. CASE ~ (Len(text) < Len(session.given))
  <2>1. Following = session.free \/ Following = {}
    BY <1>1, <1>3 DEF Following
  <2> QED  BY <1>1, <2>1
<1> QED  BY <1>2, <1>3

LEMMA ScanTokenKeeps == ParserInv /\ ScanToken => ParserInv'
<1> SUFFICES ASSUME ParserInv, ScanToken PROVE ParserInv'
  OBVIOUS
<1>1. PICK lexeme \in Following :
        Known(lexeme) /\ text' = Append(text, lexeme) /\ CallParse(Major(lexeme), Minor(lexeme, Len(text) + 1))
  BY DEF ScanToken
<1>2. phase = "scan" /\ lexeme \in STRING
  BY FollowingAreStrings DEF ScanToken, ParserInv
<1> DEFINE major == Major(lexeme)
           minor == Minor(lexeme, Len(text) + 1)
<1>3. major \in 0 .. 27 /\ \A object \in minor.owns : object = <<"token", Len(text) + 1>>
  BY <1>1, LexemesAreTokens
<1>4. \E l \in STRING : text' = Append(text, l) /\ Known(l) /\ major = Major(l)
  BY <1>1, <1>2
<1>5. CallParse(major, minor)
  BY <1>1
<1> HIDE DEF major, minor
<1> QED  BY <1>2, <1>3, <1>4, <1>5, Called

LEMMA ScanEndKeeps == ParserInv /\ ScanEnd => ParserInv'
<1> SUFFICES ASSUME ParserInv, ScanEnd PROVE ParserInv'
  OBVIOUS
<1>1. phase = "scan" /\ CallParse(0, Nothing) /\ UNCHANGED text
  BY DEF ScanEnd
<1>2. Nothing.owns = {} /\ 0 \in 0 .. 27
  BY DEF Nothing
<1> QED  BY <1>1, <1>2, Called

LEMMA ScanUnknownKeeps == ParserInv /\ ScanUnknown => ParserInv'
<1> SUFFICES ASSUME ParserInv, ScanUnknown PROVE ParserInv'
  OBVIOUS
<1>1. PICK lexeme \in STRING : text' = Append(text, lexeme)
  BY FollowingAreStrings DEF ScanUnknown, ParserInv
<1>2. phase = "scan" /\ phase' = "free"
      /\ UNCHANGED <<session, yymajor, yyminor, yystack, root, parse_errors, heap, made>>
  BY DEF ScanUnknown
<1>3. text \in Seq(STRING) /\ text' \in Seq(STRING) /\ Len(text') = Len(text) + 1 /\ Len(text) \in Nat
  BY <1>1 DEF ParserInv, CallInv
<1>4. Holders' = Holders /\ \A h \in Holders : Held(h)' = Held(h)
  BY <1>2 DEF Holders, Held
<1>5. HasCall => HasCall'
  BY <1>1, <1>3, CallStays
<1>6. StackInv'
  BY <1>2 DEF ParserInv, StackInv
<1>7. HeldInv'
  <2>1. \A i \in 1 .. Len(text) : i \in 1 .. Len(text')
    BY <1>3
  <2>2. \A object \in heap' : \/ \E i \in 1 .. Len(text') : object = <<"token", i>>
                              \/ \E i \in 1 .. made' : object = <<"node", i>>
    BY <1>2, <2>1 DEF ParserInv, HeldInv
  <2>3. HoldersApart'
    BY <1>4 DEF ParserInv, HeldInv, HoldersApart
  <2>4. -1 \in Holders /\ \A k \in 1 .. Len(yystack) : k \in Holders
    BY StackTyped DEF ParserInv, Holders
  <2> QED  BY <1>2, <1>4, <2>2, <2>3, <2>4 DEF ParserInv, HeldInv
<1>8. CallInv'
  BY <1>2, <1>3, <1>5 DEF ParserInv, CallInv
<1>9. ForgetInv'
  BY <1>2, <1>4, <1>5 DEF ParserInv, ForgetInv, NothingForgotten
<1> QED  BY <1>6, <1>7, <1>8, <1>9 DEF ParserInv

(* A token goes to the stack.                                              *)
LEMMA Pushes ==
  ASSUME ParserInv, phase = "parse", NEW s \in 0 .. YYNSTATE - 1, Continues(Top, yymajor, s),
         yystack' = Append(yystack, [stateno |-> s, major |-> yymajor, minor |-> yyminor]),
         phase' = Return, UNCHANGED <<session, text, yymajor, yyminor, root, parse_errors, heap, made>>
  PROVE  ParserInv'
<1>1. PICK n \in Nat \ {0} : n = Len(yystack) /\ DOMAIN yystack = 1 .. n /\ yymajor \in 0 .. 27
  BY StackTyped DEF ParserInv, StackInv
<1>2. /\ Len(yystack') = n + 1
      /\ yystack'[n + 1].stateno = s /\ yystack'[n + 1].major = yymajor /\ yystack'[n + 1].minor = yyminor
      /\ \A k \in 1 .. n : yystack'[k] = yystack[k]
      /\ \E S : yystack' \in Seq(S)
  <2>1. PICK S : yystack \in Seq(S)
    BY DEF ParserInv, StackInv
  <2> DEFINE new == [stateno |-> s, major |-> yymajor, minor |-> yyminor]
  <2>2. new.stateno = s /\ new.major = yymajor /\ new.minor = yyminor
    OBVIOUS
  <2> HIDE DEF new
  <2>3. yystack' = Append(yystack, new)
    BY DEF new
  <2>4. yystack \in Seq(S \cup {new}) /\ new \in S \cup {new}
    BY <2>1
  <2>5. yystack' \in Seq(S \cup {new})
    BY <2>3, <2>4
  <2>6. Len(yystack') = n + 1 /\ yystack'[n + 1] = new /\ \A k \in 1 .. n : yystack'[k] = yystack[k]
    BY <1>1, <2>1, <2>3
  <2> QED  BY <2>2, <2>5, <2>6
<1>3. phase' \in {"scan", "free"} /\ (phase' = "scan" => yymajor # 0)
  BY DEF Return
<1>4. /\ Holders' = -1 .. n + 1 /\ Holders = -1 .. n
      /\ Held(-1)' = {} /\ Held(n + 1)' = Held(-1)
      /\ \A h \in 0 .. n : Held(h)' = Held(h)
  <2>1. Holders' = -1 .. n + 1 /\ Holders = -1 .. n
    BY <1>1, <1>2 DEF Holders
  <2>2. Held(-1)' = {} /\ Held(-1) = yyminor.owns
    BY <1>3 DEF Held
  <2>3. Held(n + 1)' = yyminor.owns
    BY <1>1, <1>2 DEF Held
  <2>4. \A h \in 0 .. n : Held(h)' = Held(h)
    BY <1>1, <1>2 DEF Held
  <2> QED  BY <2>1, <2>2, <2>3, <2>4
<1>5. StackInv'
  <2>1. \A k \in 1 .. n + 1 : yystack'[k].stateno \in 0 .. YYNSTATE - 1 /\ yystack'[k].major \in (0 .. 27) \cup (29 .. 32)
    <3>1. \A k \in 1 .. n + 1 : k \in 1 .. n \/ k = n + 1
      BY <1>1
    <3> QED  BY <1>1, <1>2, <3>1 DEF ParserInv, StackInv
  <2>2. ASSUME NEW k \in 2 .. n + 1
        PROVE  Continues(yystack'[k - 1].stateno, yystack'[k].major, yystack'[k].stateno)
    <3>1. CASE k = n + 1
      <4>1. k - 1 = n /\ n \in 1 .. n
        BY <1>1, <3>1
      <4>2. yystack'[k - 1].stateno = Top
        BY <1>2, <4>1 DEF Top
      <4> QED  BY <1>2, <3>1, <4>2
    <3>2. CASE k # n + 1
      <4>1. k \in 2 .. n /\ k \in 1 .. n /\ k - 1 \in 1 .. n
        BY <1>1, <3>2
      <4> QED  BY <1>2, <4>1 DEF ParserInv, StackInv
    <3> QED  BY <3>1, <3>2
  <2>3. \A k \in 2 .. n + 1 : Continues(yystack[k - 1].stateno, yystack[k].major, yystack[k].stateno)'
    BY <2>2 DEF Continues, HasGoto
  <2>4. yystack' # <<>> /\ yystack'[1] = yystack[1] /\ yystack # <<>>
    BY <1>1, <1>2 DEF ParserInv, StackInv
  <2> QED  BY <1>1, <1>2, <1>3, <2>1, <2>3, <2>4 DEF ParserInv, StackInv
<1>6. HeldInv'
  <2>1. ASSUME NEW h \in Holders'
        PROVE  Held(h)' \subseteq heap'
    BY <1>1, <1>4 DEF ParserInv, HeldInv
  <2>2. HoldersApart'
    <3> DEFINE origin == [g \in Holders' |-> IF g = -1 THEN {} ELSE IF g = n + 1 THEN {-1} ELSE {g}]
               fresh == {}
               maker == -1
    <3>1. \A g \in Holders' : \A object \in Held(g)' : \E h \in Holders : h \in origin[g] /\ object \in Held(h)
      BY <1>1, <1>4
    <3>2. \A g, h \in Holders' : g # h => origin[g] \cap origin[h] = {}
      BY <1>1, <1>4
    <3>3. \A h \in Holders : Held(h) \cap fresh = {}
      OBVIOUS
    <3>4. HoldersApart
      BY DEF ParserInv, HeldInv
    <3> HIDE DEF origin, fresh, maker
    <3>5. Hands(origin, fresh, maker)
      BY <3>1, <3>2, <3>3 DEF Hands
    <3> QED  BY <3>4, <3>5, HandedOn
  <2>3. ASSUME NEW k \in 1 .. n + 1
        PROVE  /\ Terminal(yystack'[k].major) => \A object \in Held(k)' : object[1] = "token"
               /\ yystack'[k].major \in {0, 31, 32} => Held(k)' = {}
    <3>1. CASE k = n + 1
      BY <1>1, <1>2, <1>4, <3>1 DEF ParserInv, HeldInv
    <3>2. CASE k # n + 1
      <4>1. k \in 1 .. n /\ k \in 0 .. n
        BY <1>1, <3>2
      <4> QED  BY <1>2, <1>4, <4>1 DEF ParserInv, HeldInv
    <3> QED  BY <3>1, <3>2
  <2> QED  BY <1>2, <1>3, <1>4, <2>1, <2>2, <2>3 DEF ParserInv, HeldInv, Terminal
<1>7. CallInv'
  <2>1. HasCall' <=> HasCall
    BY DEF HasCall
  <2>2. ASSUME NEW r \in Calls, NEW d \in 1 .. 8, <<r, d>> \in Within[s + 1]
        PROVE  /\ RightHandSide[r + 1][d] = yymajor
               /\ d > 1 => <<r, d - 1>> \in Within[Top + 1]
    <3>1. <<r, d>>[1] = r /\ <<r, d>>[2] = d
      OBVIOUS
    <3> QED  BY <2>2, <3>1 DEF Continues
  <2>3. IdentifierOnTop' => yymajor = 20
    <3>1. IdentifierOnTop' => \E r \in Calls : <<r, 1>> \in Within[s + 1]
      BY <1>2 DEF IdentifierOnTop
    <3>2. ASSUME NEW r \in Calls, <<r, 1>> \in Within[s + 1]
          PROVE  yymajor = 20
      <4>1. 1 \in 1 .. 8
        OBVIOUS
      <4>2. RightHandSide[r + 1][1] = yymajor
        BY <2>2, <3>2, <4>1
      <4> QED  BY <4>2, CallsBegin
    <3> QED  BY <3>1, <3>2
  <2>4. phase' = "scan" /\ IdentifierOnTop' => text' # <<>> /\ text'[Len(text')] \in Identifiers
    BY <2>3, CallsAreWritten DEF ParserInv, CallInv
  <2>5. ASSUME NEW r \in Calls, <<r, 2>> \in Within[s + 1]
        PROVE  HasCall
    <3>1. yymajor = 21 /\ <<r, 1>> \in Within[Top + 1]
      <4>1. 2 \in 1 .. 8 /\ 2 > 1 /\ 2 - 1 = 1
        OBVIOUS
      <4>2. RightHandSide[r + 1][2] = yymajor /\ <<r, 2 - 1>> \in Within[Top + 1]
        BY <2>2, <2>5, <4>1
      <4> QED  BY <4>1, <4>2, CallsBegin
    <3>2. IdentifierOnTop
      BY <1>1, <3>1 DEF IdentifierOnTop, Top
    <3>3. Len(text) > 1 /\ text[Len(text) - 1] \in Identifiers /\ text[Len(text)] = "("
      BY <3>1, <3>2, CallsAreWritten DEF ParserInv, CallInv
    <3>4. Len(text) \in Nat /\ Len(text) - 1 \in 1 .. Len(text) - 1 /\ (Len(text) - 1) + 1 = Len(text)
      BY <3>3 DEF ParserInv, CallInv
    <3> QED  BY <3>3, <3>4 DEF HasCall
  <2>6. ASSUME NEW k \in 1 .. n + 1, NEW item \in Within[yystack'[k].stateno + 1], item[1] \in Calls, item[2] > 1
        PROVE  HasCall
    <3>1. CASE k = n + 1
      <4>1. item \in Within[s + 1]
        BY <1>2, <2>6, <3>1
      <4>2. item = <<item[1], item[2]>> /\ item[2] \in 1 .. 8
        BY <4>1, ItemsTyped
      <4> DEFINE r == item[1]
                 d == item[2]
      <4>3. CASE d = 2
        BY <2>5, <2>6, <4>1, <4>2, <4>3
      <4>4. CASE d > 2
        <5>1. <<r, d - 1>> \in Within[Top + 1]
          BY <2>2, <2>6, <4>1, <4>2
        <5>2. <<r, d - 1>>[1] \in Calls /\ <<r, d - 1>>[2] > 1
          BY <2>6, <4>2, <4>4
        <5>3. n \in 1 .. n /\ <<r, d - 1>> \in Within[yystack[n].stateno + 1]
          BY <1>1, <5>1 DEF Top
        <5> QED  BY <1>1, <5>2, <5>3 DEF ParserInv, CallInv
      <4> QED  BY <2>6, <4>2, <4>3, <4>4
    <3>2. CASE k # n + 1
      <4>1. k \in 1 .. n
        BY <1>1, <3>2
      <4> QED  BY <1>2, <2>6, <4>1 DEF ParserInv, CallInv
    <3> QED  BY <3>1, <3>2
  <2> QED  BY <1>2, <1>3, <2>1, <2>4, <2>6 DEF ParserInv, CallInv
<1>8. ForgetInv'
  <2> SUFFICES ASSUME parse_errors' = 0 \/ ~ HasCall', NEW object \in heap', object[1] = "node"
               PROVE  \E h \in Holders' : object \in Held(h)'
    BY DEF ParserInv, ForgetInv, NothingForgotten
  <2>1. HasCall' <=> HasCall
    BY DEF HasCall
  <2>2. PICK h \in Holders : object \in Held(h)
    BY <2>1 DEF ParserInv, ForgetInv, NothingForgotten
  <2>3. h # -1
    BY <2>2 DEF ParserInv, HeldInv
  <2>4. h \in 0 .. n /\ h \in Holders'
    BY <1>1, <1>4, <2>3
  <2> QED  BY <1>4, <2>2, <2>4
<1> QED  BY <1>5, <1>6, <1>7, <1>8 DEF ParserInv

(* The token is thrown away, or the program crashes on it.                 *)
LEMMA LetsGo ==
  ASSUME ParserInv, phase = "parse", phase' \in {"scan", "crashed"}, phase' = "scan" => ~ IdentifierOnTop,
         heap' = heap \/ heap' = heap \ yyminor.owns, parse_errors' \in Nat, parse_errors' >= parse_errors,
         UNCHANGED <<session, text, yymajor, yystack, root, made>>
  PROVE  ParserInv'
<1>1. Len(yystack) \in Nat /\ -1 \in Holders
  BY StackTyped DEF ParserInv, Holders
<1>2. Held(-1) = yyminor.owns /\ Held(-1)' = {}
  BY DEF Held
<1>3. Holders' = Holders /\ \A h \in Holders : h # -1 => Held(h)' = Held(h)
  BY <1>1 DEF Holders, Held
<1>4. StackInv'
  BY DEF ParserInv, StackInv
<1>5. HeldInv'
  <2>1. \A object \in heap' : \/ \E i \in 1 .. Len(text') : object = <<"token", i>>
                              \/ \E i \in 1 .. made' : object = <<"node", i>>
    BY DEF ParserInv, HeldInv
  <2>2. ASSUME NEW h \in Holders
        PROVE  Held(h)' \subseteq heap'
    <3>1. CASE h = -1
      BY <1>2, <3>1
    <3>2. CASE h # -1
      <4>1. Held(h)' \subseteq heap /\ Held(h)' \cap yyminor.owns = {}
        BY <1>1, <1>2, <1>3, <3>2 DEF ParserInv, HeldInv, HoldersApart
      <4> QED  BY <4>1
    <3> QED  BY <3>1, <3>2
  <2>3. HoldersApart'
    BY <1>2, <1>3 DEF ParserInv, HeldInv, HoldersApart
  <2>4. \A k \in 1 .. Len(yystack) : k \in Holders /\ k # -1
    BY <1>1 DEF Holders
  <2> QED  BY <1>2, <1>3, <2>1, <2>2, <2>3, <2>4 DEF ParserInv, HeldInv
<1>6. CallInv'
  <2>1. HasCall' <=> HasCall
    BY DEF HasCall
  <2>2. IdentifierOnTop' <=> IdentifierOnTop
    BY DEF IdentifierOnTop
  <2> QED  BY <2>1, <2>2 DEF ParserInv, CallInv
<1>7. ForgetInv'
  <2> SUFFICES ASSUME parse_errors' = 0 \/ ~ HasCall', NEW object \in heap', object[1] = "node"
               PROVE  \E h \in Holders' : object \in Held(h)'
    BY DEF ForgetInv, NothingForgotten
  <2>1. HasCall' <=> HasCall
    BY DEF HasCall
  <2>2. parse_errors = 0 \/ ~ HasCall
    BY <2>1 DEF ParserInv, ForgetInv
  <2>3. PICK h \in Holders : object \in Held(h)
    BY <2>2 DEF ParserInv, ForgetInv, NothingForgotten
  <2>4. h # -1
    BY <2>3 DEF ParserInv, HeldInv
  <2> QED  BY <1>3, <2>3, <2>4
<1> QED  BY <1>4, <1>5, <1>6, <1>7 DEF ParserInv

LEMMA StackDeleted ==
  ASSUME ParserInv, NEW object
  PROVE  object \in Deleted(yystack) <=> \E h \in 1 .. Len(yystack) : object \in Held(h)
<1>1. Len(yystack) \in 0 .. Len(yystack) /\ DOMAIN yystack = 1 .. Len(yystack)
  BY StackTyped DEF ParserInv
<1> QED  BY <1>1, DeletedIsHeld DEF ParserInv

LEMMA ShiftKeeps == ParserInv /\ Shift => ParserInv'
<1> SUFFICES ASSUME ParserInv, Shift PROVE ParserInv'
  OBVIOUS
<1>1. /\ phase = "parse" /\ yyact < YYNSTATE /\ phase' = Return
      /\ UNCHANGED <<session, text, yymajor, yyminor, root, parse_errors, made>>
  BY DEF Shift
<1>2. yyact \in 0 .. YYNSTATE - 1 /\ Continues(Top, yymajor, yyact)
  <2>1. ~ (yyact \in YYNSTATE .. YY_ERROR_ACTION - 1) /\ yyact # YY_ERROR_ACTION
    BY <1>1, ActionsApart
  <2> QED  BY <1>1, <2>1, TopAction DEF ParserInv
<1>3. CASE Len(yystack) < session.depth
  BY <1>1, <1>2, <1>3, Pushes DEF Shift
<1>4. CASE ~ (Len(yystack) < session.depth)
  <2>1. yystack' = <<>> /\ heap' = heap \ Deleted(yystack)
    BY <1>4 DEF Shift
  <2>2. phase' # "parse" /\ parse_errors' \in Nat /\ parse_errors' >= parse_errors
    BY <1>1 DEF Return, ParserInv, ForgetInv
  <2> QED  BY <1>1, <2>1, <2>2, StackDeleted, Emptied
<1> QED  BY <1>3, <1>4

LEMMA SyntaxErrorKeeps == ParserInv /\ SyntaxError => ParserInv'
<1> SUFFICES ASSUME ParserInv, SyntaxError PROVE ParserInv'
  OBVIOUS
<1>1. /\ phase = "parse" /\ yyact = YY_ERROR_ACTION /\ phase' = Return
      /\ UNCHANGED <<session, text, yymajor, yyminor, root, made>>
  BY DEF SyntaxError, AfterError
<1>2. parse_errors' \in Nat /\ parse_errors' >= parse_errors
  BY DEF SyntaxError, ParserInv, ForgetInv
<1>3. CASE yymajor = 0
  <2>1. yystack' = <<>> /\ heap' = heap \ Deleted(yystack) /\ phase' # "parse"
    BY <1>1, <1>3 DEF SyntaxError, Return
  <2> QED  BY <1>1, <1>2, <2>1, StackDeleted, Emptied
<1>4. CASE yymajor # 0
  <2>1. heap' = heap \ yyminor.owns /\ yystack' = yystack /\ phase' = "scan"
    BY <1>1, <1>4 DEF SyntaxError, Return
  <2>2. ~ IdentifierOnTop
    <3>1. \A r \in Calls : <<r, 1>> \notin Within[Top + 1]
      <4>1. yyact \notin 0 .. YYNSTATE - 1 /\ yyact \notin YYNSTATE .. YY_ERROR_ACTION - 1
        BY <1>1, ActionsApart
      <4> QED  BY <1>1, <4>1, TopAction DEF ParserInv
    <3> QED  BY <3>1 DEF IdentifierOnTop, Top
  <2> QED  BY <1>1, <1>2, <2>1, <2>2, LetsGo
<1> QED  BY <1>3, <1>4

LEMMA ParseFreeKeeps == ParserInv /\ ParseFree => ParserInv'
<1> SUFFICES ASSUME ParserInv, ParseFree PROVE ParserInv'
  OBVIOUS
<1>1. /\ yystack' = <<>> /\ heap' = heap \ Deleted(yystack) /\ phase' # "parse"
      /\ UNCHANGED <<session, text, yymajor, yyminor, root, parse_errors, made>>
  BY DEF ParseFree
<1>2. parse_errors' \in Nat /\ parse_errors' >= parse_errors
  BY <1>1 DEF ParserInv, ForgetInv
<1> QED  BY <1>1, <1>2, StackDeleted, Emptied

(* What stands on the left-hand side of a rule replaces its right-hand     *)
(* side.                                                                   *)
Replaced(r, m, p, goto, D) ==
  /\ Len(yystack') = p + 1
  /\ \E S : yystack' \in Seq(S)
  /\ \A k \in 1 .. p : yystack'[k] = yystack[k]
  /\ yystack'[p + 1].stateno = goto /\ yystack'[p + 1].major = Left(r)
  /\ yystack'[p + 1].minor = LeftHandSide(r, m)
  /\ heap' = (heap \ D) \cup NewNode(r, m)
  /\ made' = IF MakesNode(r, m) THEN made + 1 ELSE made
  /\ root' = IF r = 1 THEN m[1] ELSE root
  /\ parse_errors' = IF Undeclared(r, m) THEN parse_errors + 1 ELSE parse_errors
  /\ UNCHANGED <<session, text, phase, yymajor, yyminor>>

(* The right-hand side of rule r is above p.                               *)
OnTop(r, m, p) ==
  LET nrhs == yyRuleInfo[r + 1][2]
  IN  /\ nrhs \in 1 .. 8
      /\ Len(yystack) = p + nrhs
      /\ <<r, nrhs>> \in Within[Top + 1]
      /\ \A j \in 1 .. nrhs : yystack[p + j].major = RightHandSide[r + 1][j] /\ m[j] = yystack[p + j].minor

LEMMA Reduces ==
  ASSUME ParserInv, phase = "parse", NEW r \in Rules, NEW p \in Nat \ {0}, NEW m, OnTop(r, m, p),
         NEW goto \in 0 .. YYNSTATE - 1, Continues(yystack[p].stateno, Left(r), goto),
         NEW D, Replaced(r, m, p, goto, D),
         \A object \in D : \/ r = 1 /\ object \in Held(0)
                           \/ \E j \in 1 .. yyRuleInfo[r + 1][2] :
                                Terminal(RightHandSide[r + 1][j]) /\ object \in Held(p + j),
         r = 1 => Held(0) \subseteq D
  PROVE  ParserInv'
<1>1. PICK nrhs \in 1 .. 8 : nrhs = yyRuleInfo[r + 1][2]
  BY DEF OnTop
<1>2. /\ Len(yystack) = p + nrhs /\ <<r, nrhs>> \in Within[Top + 1]
      /\ \A j \in 1 .. nrhs : yystack[p + j].major = RightHandSide[r + 1][j] /\ m[j] = yystack[p + j].minor
  BY <1>1 DEF OnTop
<1>3. PICK left : left = LeftHandSide(r, m)
  OBVIOUS
<1>4. PICK fresh : fresh = NewNode(r, m)
  OBVIOUS
<1>5. /\ Len(yystack') = p + 1 /\ \A k \in 1 .. p : yystack'[k] = yystack[k]
      /\ yystack'[p + 1].stateno = goto /\ yystack'[p + 1].major = Left(r) /\ yystack'[p + 1].minor = left
      /\ heap' = (heap \ D) \cup fresh
      /\ root' = IF r = 1 THEN m[1] ELSE root
      /\ UNCHANGED <<session, text, phase, yymajor, yyminor>>
  BY <1>3, <1>4 DEF Replaced
<1>6. made' \in Nat /\ made' >= made /\ \A object \in fresh : object = <<"node", made + 1>> /\ made' = made + 1 /\ r > 1
  <2>1. made \in Nat
    BY DEF ParserInv, HeldInv
  <2>2. made' = IF MakesNode(r, m) THEN made + 1 ELSE made
    BY DEF Replaced
  <2>3. fresh = IF MakesNode(r, m) THEN {<<"node", made + 1>>} ELSE {}
    BY <1>4 DEF NewNode
  <2>4. MakesNode(r, m) => r > 1
    <3>1. DOMAIN BinaryRules = {3, 4, 5, 6, 7, 8, 17, 18, 19, 20, 21, 22, 24, 25}
      BY DEF BinaryRules
    <3> QED  BY <3>1 DEF MakesNode
  <2> QED  BY <2>1, <2>2, <2>3, <2>4
(* The rule.                                                               *)
<1>7. /\ Carried(r) \subseteq 1 .. nrhs
      /\ \A k \in 1 .. nrhs :
           IF k \in Carried(r) THEN RightHandSide[r + 1][k] \in {29, 30, 32} ELSE Terminal(RightHandSide[r + 1][k])
      /\ Left(r) \in IF r = 0 THEN {31} ELSE IF r = 1 THEN {32} ELSE {29, 30}
      /\ \A major \in 29 .. 32 : ~ Terminal(major)
      /\ r \in {0, 1} => Carried(r) = {1}
  BY <1>1, RulesFit DEF Terminal, Carried, expr, bool_expr
<1>8. Left(r) \in 29 .. 32 /\ r \in Nat
  BY <1>7 DEF Rules
(* The holders.                                                            *)
<1>9. /\ Holders = -1 .. p + nrhs /\ Holders' = -1 .. p + 1
      /\ Held(-1)' = Held(-1) /\ Held(p + 1)' = left.owns
      /\ \A k \in 1 .. p : Held(k)' = Held(k)
      /\ Held(0)' = IF r = 1 THEN Held(p + 1) ELSE Held(0)
      /\ \A j \in 1 .. nrhs : m[j].owns = Held(p + j)
  <2>1. Holders = -1 .. p + nrhs /\ Holders' = -1 .. p + 1
    BY <1>2, <1>5 DEF Holders
  <2>2. Held(-1)' = Held(-1)
    BY <1>5 DEF Held
  <2>3. Held(p + 1)' = left.owns
    BY <1>5 DEF Held
  <2>4. \A k \in 1 .. p : Held(k)' = Held(k)
    BY <1>5 DEF Held
  <2>5. \A j \in 1 .. nrhs : m[j].owns = Held(p + j)
    BY <1>2 DEF Held
  <2>6. Held(0)' = IF r = 1 THEN Held(p + 1) ELSE Held(0)
    <3>1. 1 \in 1 .. nrhs
      OBVIOUS
    <3>2. m[1].owns = Held(p + 1)
      BY <2>5, <3>1
    <3>3. Held(0)' = root'.owns /\ Held(0) = root.owns
      BY DEF Held
    <3> QED  BY <1>5, <3>2, <3>3
  <2> QED  BY <2>1, <2>2, <2>3, <2>4, <2>5, <2>6
<1>10. /\ \A object \in left.owns : object \in fresh \/ (r > 1 /\ \E k \in Carried(r) : object \in Held(p + k))
       /\ fresh \subseteq left.owns
       /\ r > 1 /\ ~ Undeclared(r, m) => \A k \in Carried(r) : Held(p + k) \subseteq left.owns
  <2>1. \A k \in Carried(r) : m[k].owns = Held(p + k)
    BY <1>7, <1>9
  <2> QED  BY <1>3, <1>4, <2>1, LeftHolds
<1>11. fresh \cap heap = {}
  <2> SUFFICES ASSUME NEW object \in fresh, object \in heap PROVE FALSE
    OBVIOUS
  <2>1. object = <<"node", made + 1>> /\ made \in Nat
    BY <1>6 DEF ParserInv, HeldInv
  <2>2. \/ \E i \in 1 .. Len(text) : object = <<"token", i>>
        \/ \E i \in 1 .. made : object = <<"node", i>>
    BY DEF ParserInv, HeldInv
  <2> QED  BY <2>1, <2>2
(* Where each one's objects come from, and whose are deleted.              *)
<1> DEFINE origin == [g \in Holders' |-> IF g = p + 1 THEN IF r > 1 THEN {p + k : k \in Carried(r)} ELSE {}
                                         ELSE IF g = 0 /\ r = 1 THEN {p + 1} ELSE {g}]
<1>12. \A g \in Holders' : \A object \in Held(g)' :
          (g = p + 1 /\ object \in fresh) \/ \E h \in Holders : h \in origin[g] /\ object \in Held(h)
  <2> SUFFICES ASSUME NEW g \in Holders', NEW object \in Held(g)', ~ (g = p + 1 /\ object \in fresh)
               PROVE  \E h \in Holders : h \in origin[g] /\ object \in Held(h)
    OBVIOUS
  <2>1. CASE g = p + 1
    <3>1. object \in left.owns /\ object \notin fresh
      BY <1>9, <2>1
    <3>2. r > 1
      BY <1>10, <3>1
    <3>3. PICK k \in Carried(r) : object \in Held(p + k)
      BY <1>10, <3>1
    <3>4. k \in 1 .. nrhs /\ p + k \in Holders
      BY <1>7, <1>9
    <3>5. p + k \in origin[g]
      BY <2>1, <3>2
    <3> QED  BY <3>3, <3>4, <3>5
  <2>2. CASE g # p + 1 /\ ~ (g = 0 /\ r = 1)
    <3>1. g \in -1 .. p
      BY <1>9, <2>2
    <3>2. g \in Holders /\ Held(g)' = Held(g)
      BY <1>9, <2>2, <3>1
    <3>3. g \in origin[g]
      BY <2>2
    <3> QED  BY <3>2, <3>3
  <2>3. CASE g = 0 /\ r = 1
    <3>1. Held(g)' = Held(p + 1) /\ p + 1 \in Holders
      BY <1>9, <2>3
    <3>2. g # p + 1
      BY <2>3
    <3>3. p + 1 \in origin[g]
      BY <2>3, <3>2
    <3> QED  BY <3>1, <3>3
  <2> QED  BY <2>1, <2>2, <2>3
<1>13. \A g \in Holders' : \A h \in origin[g] :
          IF g = p + 1 THEN r > 1 /\ \E k \in Carried(r) : h = p + k
          ELSE IF g = 0 /\ r = 1 THEN h = p + 1 ELSE h = g
  OBVIOUS
<1> HIDE DEF origin
<1>14. \A g \in Holders' : \A h \in origin[g] :
          \/ g \in -1 .. p /\ h = g /\ ~ (r = 1 /\ g = 0)
          \/ g = 0 /\ r = 1 /\ h = p + 1
          \/ g = p + 1 /\ r > 1 /\ \E k \in Carried(r) : h = p + k
  <2> SUFFICES ASSUME NEW g \in Holders', NEW h \in origin[g]
               PROVE  \/ g \in -1 .. p /\ h = g /\ ~ (r = 1 /\ g = 0)
                      \/ g = 0 /\ r = 1 /\ h = p + 1
                      \/ g = p + 1 /\ r > 1 /\ \E k \in Carried(r) : h = p + k
    OBVIOUS
  <2>1. g \in -1 .. p + 1
    BY <1>9
  <2>2. g = p + 1 \/ g \in -1 .. p
    BY <2>1
  <2>3. IF g = p + 1 THEN r > 1 /\ \E k \in Carried(r) : h = p + k
        ELSE IF g = 0 /\ r = 1 THEN h = p + 1 ELSE h = g
    BY <1>13
  <2> QED  BY <2>2, <2>3
<1>15. HoldersApart'
  <2>1. \A h \in Holders : Held(h) \cap fresh = {}
    BY <1>11 DEF ParserInv, HeldInv
  <2>2. ASSUME NEW g \in Holders', NEW h \in Holders', g # h, NEW k, k \in origin[g], k \in origin[h]
        PROVE  FALSE
    <3>1. \A c \in Carried(r) : p + c > p /\ p + c \in Int
      BY <1>7
    <3> QED  BY <1>14, <2>2, <3>1
  <2>3. \A g, h \in Holders' : g # h => origin[g] \cap origin[h] = {}
    BY <2>2
  <2>4. HoldersApart
    BY DEF ParserInv, HeldInv
  <2>5. Hands(origin, fresh, p + 1)
    BY <1>12, <2>1, <2>3 DEF Hands
  <2> QED  BY <2>4, <2>5, HandedOn
<1>16. ASSUME NEW g \in Holders'
       PROVE  Held(g)' \subseteq heap'
  <2> SUFFICES ASSUME NEW object \in Held(g)', object \notin fresh PROVE object \in heap /\ object \notin D
    BY <1>5
  <2>1. PICK h \in Holders : h \in origin[g] /\ object \in Held(h)
    BY <1>12
  <2>2. object \in heap
    BY <2>1 DEF ParserInv, HeldInv
  <2>3. \A c \in Carried(r) : c \in 1 .. nrhs /\ p + c > p /\ p + c \in Int /\ p + c \in Holders
    BY <1>7, <1>9
  <2>4. ASSUME object \in D PROVE FALSE
    <3>1. CASE r = 1 /\ object \in Held(0)
      <4>1. 0 \in Holders
        BY <1>9
      <4>2. h = 0
        BY <2>1, <3>1, <4>1 DEF ParserInv, HeldInv, HoldersApart
      <4> QED  BY <1>14, <2>1, <3>1, <4>2
    <3>2. CASE \E j \in 1 .. nrhs : Terminal(RightHandSide[r + 1][j]) /\ object \in Held(p + j)
      <4>1. PICK j \in 1 .. nrhs : Terminal(RightHandSide[r + 1][j]) /\ object \in Held(p + j)
        BY <3>2
      <4>2. j \notin Carried(r)
        <5>1. \A major \in {29, 30, 32} : ~ Terminal(major)
          BY <1>7
        <5> QED  BY <1>7, <4>1, <5>1
      <4>3. p + j \in Holders
        BY <1>9
      <4>4. h = p + j
        BY <2>1, <4>1, <4>3 DEF ParserInv, HeldInv, HoldersApart
      <4>5. \A c \in Carried(r) : p + c # p + j
        BY <2>3, <4>2
      <4>6. h # p + 1 \/ r # 1
        <5>1. r = 1 => 1 \in Carried(r)
          BY <1>7
        <5> QED  BY <4>4, <4>5, <5>1
      <4>7. h > p
        BY <4>4
      <4> QED  BY <1>14, <2>1, <4>4, <4>5, <4>6, <4>7
    <3> QED  BY <1>1, <2>4, <3>1, <3>2
  <2> QED  BY <2>2, <2>4
<1>17. Len(yystack) \in Nat /\ p \in 1 .. Len(yystack) /\ Len(yystack) \in 1 .. Len(yystack)
  BY <1>2
<1>18. StackInv'
  <2>1. \A k \in 1 .. p + 1 : yystack'[k].stateno \in 0 .. YYNSTATE - 1 /\ yystack'[k].major \in (0 .. 27) \cup (29 .. 32)
    <3>1. \A k \in 1 .. p + 1 : k = p + 1 \/ (k \in 1 .. p /\ k \in 1 .. Len(yystack))
      BY <1>2
    <3> QED  BY <1>5, <1>8, <3>1 DEF ParserInv, StackInv
  <2>2. ASSUME NEW k \in 2 .. p + 1
        PROVE  Continues(yystack'[k - 1].stateno, yystack'[k].major, yystack'[k].stateno)
    <3>1. CASE k = p + 1
      <4>1. k - 1 = p /\ p \in 1 .. p
        BY <3>1
      <4> QED  BY <1>5, <3>1, <4>1
    <3>2. CASE k # p + 1
      <4>1. k \in 2 .. Len(yystack) /\ k \in 1 .. p /\ k - 1 \in 1 .. p
        BY <1>2, <3>2
      <4> QED  BY <1>5, <4>1 DEF ParserInv, StackInv
    <3> QED  BY <3>1, <3>2
  <2>3. \A k \in 2 .. p + 1 : Continues(yystack[k - 1].stateno, yystack[k].major, yystack[k].stateno)'
    BY <2>2 DEF Continues, HasGoto
  <2>4. \E S : yystack' \in Seq(S)
    BY DEF Replaced
  <2>5. yystack' # <<>> /\ yystack # <<>> /\ yystack'[1] = yystack[1]
    BY <1>5, <1>17
  <2>6. yystack'[1] = Bottom
    BY <2>5 DEF ParserInv, StackInv
  <2> QED  BY <1>5, <2>1, <2>3, <2>4, <2>5, <2>6 DEF ParserInv, StackInv
<1>19. HeldInv'
  <2>1. ASSUME NEW object \in heap'
        PROVE  \/ \E i \in 1 .. Len(text') : object = <<"token", i>>
               \/ \E i \in 1 .. made' : object = <<"node", i>>
    <3>1. CASE object \in fresh
      <4>1. object = <<"node", made'>> /\ made' \in 1 .. made'
        BY <1>6, <3>1 DEF ParserInv, HeldInv
      <4> QED  BY <4>1
    <3>2. CASE object \in heap
      <4>1. \A i \in 1 .. made : i \in 1 .. made'
        BY <1>6 DEF ParserInv, HeldInv
      <4> QED  BY <1>5, <3>2, <4>1 DEF ParserInv, HeldInv
    <3> QED  BY <1>5, <3>1, <3>2
  <2>2. ASSUME NEW k \in 1 .. p + 1
        PROVE  /\ Terminal(yystack'[k].major) => \A object \in Held(k)' : object[1] = "token"
               /\ yystack'[k].major \in {0, 31, 32} => Held(k)' = {}
    <3>1. CASE k = p + 1
      <4>1. Left(r) \in {0, 31, 32} => ~ (r > 1)
        BY <1>7, <1>8
      <4>2. ~ (r > 1) => left.owns = {}
        BY <1>6, <1>10
      <4> QED  BY <1>5, <1>7, <1>8, <1>9, <3>1, <4>1, <4>2
    <3>2. CASE k # p + 1
      <4>1. k \in 1 .. p /\ k \in 1 .. Len(yystack)
        BY <1>2, <3>2
      <4> QED  BY <1>5, <1>9, <4>1 DEF ParserInv, HeldInv
    <3> QED  BY <3>1, <3>2
  <2>3. (\A object \in Held(-1)' : object[1] = "token") /\ (phase' = "parse" /\ yymajor' = 0 => Held(-1)' = {})
    BY <1>5, <1>9 DEF ParserInv, HeldInv
  <2> QED  BY <1>5, <1>6, <1>15, <1>16, <2>1, <2>2, <2>3 DEF HeldInv, Terminal
(* What goes on is no call that begins.                                    *)
<1>20. ASSUME NEW c \in Calls, NEW d \in 1 .. 8, <<c, d>> \in Within[goto + 1]
       PROVE  d > 2 /\ <<c, d - 1>> \in Within[yystack[p].stateno + 1]
  <2>1. <<c, d>>[1] = c /\ <<c, d>>[2] = d
    OBVIOUS
  <2>2. /\ RightHandSide[c + 1][d] = Left(r)
        /\ IF d = 1 THEN HasGoto(yystack[p].stateno, Left(c)) ELSE <<c, d - 1>> \in Within[yystack[p].stateno + 1]
    BY <1>20, <2>1 DEF Continues
  <2>3. d # 1 /\ d # 2
    BY <1>8, <2>2, CallsBegin
  <2> QED  BY <2>2, <2>3
<1>21. CallInv'
  <2>1. HasCall' <=> HasCall
    BY <1>5 DEF HasCall
  <2>2. ~ IdentifierOnTop'
    <3> SUFFICES ASSUME IdentifierOnTop' PROVE FALSE
      OBVIOUS
    <3>1. PICK c \in Calls : <<c, 1>> \in Within[goto + 1]
      BY <1>5 DEF IdentifierOnTop
    <3>2. 1 \in 1 .. 8 /\ ~ (1 > 2)
      OBVIOUS
    <3> QED  BY <1>20, <3>1, <3>2
  <2>3. ASSUME NEW k \in 1 .. p + 1, NEW item \in Within[yystack'[k].stateno + 1], item[1] \in Calls, item[2] > 1
        PROVE  HasCall
    <3>1. CASE k = p + 1
      <4>1. item \in Within[goto + 1]
        BY <1>5, <2>3, <3>1
      <4>2. item = <<item[1], item[2]>> /\ item[2] \in 1 .. 8
        BY <4>1, ItemsTyped
      <4> DEFINE c == item[1]
                 d == item[2]
      <4>3. d > 2 /\ <<c, d - 1>> \in Within[yystack[p].stateno + 1]
        BY <1>20, <2>3, <4>1, <4>2
      <4>4. <<c, d - 1>>[1] \in Calls /\ <<c, d - 1>>[2] > 1
        BY <2>3, <4>2, <4>3
      <4> QED  BY <1>17, <4>3, <4>4 DEF ParserInv, CallInv
    <3>2. CASE k # p + 1
      <4>1. k \in 1 .. p /\ k \in 1 .. Len(yystack)
        BY <1>2, <3>2
      <4> QED  BY <1>5, <2>3, <4>1 DEF ParserInv, CallInv
    <3> QED  BY <3>1, <3>2
  <2>4. /\ text' \in Seq(STRING) /\ session' \in Sessions /\ phase' = "parse"
        /\ yymajor' # 0 => text' # <<>> /\ Known(text[Len(text)])' /\ yymajor' = Major(text[Len(text)])'
    <3>1. UNCHANGED text => /\ Known(text[Len(text)])' <=> Known(text[Len(text)])
                            /\ Major(text[Len(text)])' = Major(text[Len(text)])
      BY DEF Known, Major
    <3> QED  BY <1>5, <3>1 DEF ParserInv, CallInv
  <2> QED  BY <1>5, <2>1, <2>2, <2>3, <2>4 DEF CallInv
<1>22. ForgetInv'
  <2>1. parse_errors' = (IF Undeclared(r, m) THEN parse_errors + 1 ELSE parse_errors) /\ parse_errors \in Nat
    BY DEF Replaced, ParserInv, ForgetInv
  <2>2. HasCall' <=> HasCall
    BY <1>5 DEF HasCall
  <2>3. Undeclared(r, m) => HasCall
    <3> SUFFICES ASSUME Undeclared(r, m) PROVE HasCall
      OBVIOUS
    <3>1. r \in Calls
      BY DEF Undeclared, Calls
    <3>2. nrhs > 1
      <4>1. yyRuleInfo[12] = <<expr, 6>> /\ yyRuleInfo[13] = <<expr, 4>>
        BY DEF yyRuleInfo
      <4>2. r = 11 \/ r = 12
        BY DEF Undeclared
      <4>3. CASE r = 11
        BY <1>1, <4>1, <4>3
      <4>4. CASE r = 12
        BY <1>1, <4>1, <4>4
      <4> QED  BY <4>2, <4>3, <4>4
    <3>3. <<r, nrhs>>[1] = r /\ <<r, nrhs>>[2] = nrhs
      OBVIOUS
    <3> QED  BY <1>2, <1>17, <3>1, <3>2, <3>3 DEF ParserInv, CallInv, Top
  <2> SUFFICES ASSUME parse_errors' = 0 \/ ~ HasCall', NEW object \in heap', object[1] = "node"
               PROVE  \E h \in Holders' : object \in Held(h)'
    BY <2>1 DEF ForgetInv, NothingForgotten
  <2>4. ~ Undeclared(r, m) /\ (parse_errors = 0 \/ ~ HasCall)
    BY <2>1, <2>2, <2>3
  <2>5. CASE object \in fresh
    <3>1. p + 1 \in Holders' /\ object \in Held(p + 1)'
      BY <1>9, <1>10, <2>5
    <3> QED  BY <3>1
  <2>6. CASE object \in heap /\ object \notin D
    <3>1. PICK h \in Holders : object \in Held(h)
      BY <2>4, <2>6 DEF ParserInv, ForgetInv, NothingForgotten
    <3>2. CASE h \in -1 .. p /\ ~ (h = 0 /\ r = 1)
      <4>1. h = -1 \/ h = 0 \/ h \in 1 .. p
        BY <3>2
      <4>2. h \in Holders' /\ Held(h)' = Held(h)
        BY <1>9, <3>2, <4>1
      <4> QED  BY <3>1, <4>2
    <3>3. CASE h = 0 /\ r = 1
      BY <2>6, <3>1, <3>3
    <3>4. CASE h > p
      <4>1. PICK j \in 1 .. nrhs : h = p + j
        <5>1. h - p \in 1 .. nrhs /\ h = p + (h - p)
          BY <1>9, <3>4
        <5> QED  BY <5>1
      <4>2. p + j \in 1 .. Len(yystack) /\ yystack[p + j].major = RightHandSide[r + 1][j]
        BY <1>2
      <4>3. j \in Carried(r)
        BY <1>7, <2>6, <3>1, <4>1, <4>2 DEF ParserInv, HeldInv
      <4>4. CASE r > 1
        <5>1. object \in left.owns
          BY <1>10, <2>4, <3>1, <4>1, <4>3, <4>4
        <5>2. p + 1 \in Holders'
          BY <1>9
        <5> QED  BY <1>9, <5>1, <5>2
      <4>5. CASE r = 1
        <5>1. j = 1 /\ 0 \in Holders'
          BY <1>7, <1>9, <4>3, <4>5
        <5> QED  BY <1>9, <3>1, <4>1, <4>5, <5>1
      <4>6. CASE r = 0
        <5>1. j = 1
          BY <1>7, <4>3, <4>6
        <5>2. RightHandSide[1] = <<32>>
          BY DEF RightHandSide
        <5>3. RightHandSide[r + 1][j] = 32
          BY <4>6, <5>1, <5>2
        <5>4. Held(p + j) = {}
          BY <4>2, <5>3 DEF ParserInv, HeldInv
        <5> QED  BY <3>1, <4>1, <5>4
      <4>7. r = 0 \/ r = 1 \/ r > 1
        BY <1>8
      <4> QED  BY <4>4, <4>5, <4>6, <4>7
    <3>5. (h \in -1 .. p /\ ~ (h = 0 /\ r = 1)) \/ (h = 0 /\ r = 1) \/ h > p
      BY <1>9
    <3> QED  BY <3>2, <3>3, <3>4, <3>5
  <2> QED  BY <1>5, <2>5, <2>6
<1> QED  BY <1>18, <1>19, <1>21, <1>22 DEF ParserInv

LEMMA ReduceKeeps == ParserInv /\ Reduce => ParserInv'
<1> SUFFICES ASSUME ParserInv, Reduce PROVE ParserInv'
  OBVIOUS
<1> DEFINE rule == yyact - YYNSTATE
<1>1. /\ phase = "parse" /\ yyact \in YYNSTATE .. YY_ERROR_ACTION - 1
      /\ UNCHANGED <<session, text, yymajor, yyminor>>
  BY DEF Reduce
<1>2. PICK r \in Rules : r = rule /\ <<r, yyRuleInfo[r + 1][2]>> \in Within[Top + 1]
  <2>1. yyact \notin 0 .. YYNSTATE - 1 /\ yyact # YY_ERROR_ACTION
    BY <1>1, ActionsApart
  <2> QED  BY <1>1, <2>1, TopAction DEF ParserInv
<1>3. PICK nrhs \in 1 .. 8 : nrhs = yyRuleInfo[r + 1][2]
  <2>1. yystack # <<>>
    BY <1>1 DEF ParserInv, StackInv
  <2> QED  BY <1>2, <2>1, RuleOnTop DEF ParserInv
<1>4. PICK p \in Nat \ {0} :
        /\ Len(yystack) = p + nrhs
        /\ \A j \in 1 .. nrhs : yystack[p + j].major = RightHandSide[r + 1][j]
        /\ HasGoto(yystack[p].stateno, Left(r))
  <2>1. yystack # <<>> /\ Len(yystack) \in Nat
    BY <1>1, StackTyped DEF ParserInv, StackInv
  <2>2. /\ Len(yystack) - nrhs \in 1 .. Len(yystack) - 1
        /\ \A j \in 1 .. nrhs : yystack[(Len(yystack) - nrhs) + j].major = RightHandSide[r + 1][j]
        /\ HasGoto(yystack[Len(yystack) - nrhs].stateno, Left(r))
    BY <1>2, <1>3, <2>1, RuleOnTop DEF ParserInv
  <2>3. Len(yystack) - nrhs \in Nat \ {0} /\ Len(yystack) = (Len(yystack) - nrhs) + nrhs
    BY <2>1, <2>2
  <2> QED  BY <2>2, <2>3
<1>5. PICK rest, rhs, m :
        /\ rest = SubSeq(yystack, 1, Len(yystack) - yyRuleInfo[r + 1][2])
        /\ rhs = SubSeq(yystack, Len(rest) + 1, Len(yystack))
        /\ m = [k \in DOMAIN rhs |-> rhs[k].minor]
  OBVIOUS
<1>6. PICK S : yystack \in Seq(S)
  BY DEF ParserInv, StackInv
<1>7. /\ Len(rest) = p /\ DOMAIN rest = 1 .. p /\ rest \in Seq(S) /\ \A k \in 1 .. p : rest[k] = yystack[k]
      /\ DOMAIN rhs = 1 .. nrhs /\ \A j \in 1 .. nrhs : rhs[j] = yystack[p + j] /\ m[j] = yystack[p + j].minor
  <2>1. p <= Len(yystack) /\ Len(yystack) - nrhs = p /\ Len(yystack) - p = nrhs
    BY <1>4
  <2>2. rest = SubSeq(yystack, 1, p)
    BY <1>3, <1>5, <2>1
  <2>3. Len(rest) = p /\ DOMAIN rest = 1 .. p /\ rest \in Seq(S) /\ \A k \in 1 .. p : rest[k] = yystack[k]
    BY <1>6, <2>1, <2>2
  <2>4. DOMAIN rhs = 1 .. nrhs /\ \A j \in 1 .. nrhs : rhs[j] = yystack[p + j]
    <3>1. rhs = SubSeq(yystack, p + 1, Len(yystack))
      BY <1>5, <2>3
    <3> QED  BY <1>6, <2>1, <3>1
  <2> QED  BY <1>5, <2>3, <2>4
<1>8. PICK goto : goto = yy_find_reduce_action(yystack[p].stateno, Left(r))
  OBVIOUS
<1>9. goto = yy_find_reduce_action(rest[Len(rest)].stateno, yyRuleInfo[r + 1][1])
  <2>1. p \in 1 .. p
    OBVIOUS
  <2> QED  BY <1>7, <1>8, <2>1 DEF Left
<1> DEFINE Crashes == phase' = "crashed" /\ UNCHANGED <<yystack, root, parse_errors, heap, made>>
           Goes ==
             /\ made' = IF MakesNode(r, m) THEN made + 1 ELSE made
             /\ root' = IF r = 1 THEN m[1] ELSE root
             /\ parse_errors' = IF Undeclared(r, m) THEN parse_errors + 1 ELSE parse_errors
             /\ IF goto < YYNSTATE
                THEN /\ yystack' = Append(rest, [stateno |-> goto, major |-> Left(r), minor |-> LeftHandSide(r, m)])
                     /\ heap' = (heap \ DeletedByRule(r, rhs)) \cup NewNode(r, m)
                     /\ UNCHANGED phase
                ELSE /\ goto = YY_ACCEPT_ACTION
                     /\ yystack' = <<>>
                     /\ heap' = heap \ Deleted(rest)
                     /\ phase' = Return
<1>10. Crashes \/ Goes
  BY <1>2, <1>5, <1>9 DEF Reduce, Left
<1>11. \/ goto \in 0 .. YYNSTATE - 1 /\ Continues(yystack[p].stateno, Left(r), goto)
       \/ goto = YY_ACCEPT_ACTION /\ Left(r) = 31
  <2>1. p \in 1 .. Len(yystack)
    BY <1>4
  <2>2. yystack[p].stateno \in 0 .. YYNSTATE - 1
    BY <2>1 DEF ParserInv, StackInv
  <2>3. Left(r) \in 29 .. 32
    BY RulesFit DEF expr, bool_expr
  <2> QED  BY <1>4, <1>8, <2>2, <2>3, TablesFit
<1>12. \A j \in 1 .. nrhs : Held(p + j) = yystack[p + j].minor.owns
  BY DEF Held
<1>13. CASE Crashes
  <2>1. parse_errors' \in Nat /\ parse_errors' >= parse_errors
    BY <1>13 DEF ParserInv, ForgetInv
  <2> QED  BY <1>1, <1>13, <2>1, LetsGo
<1>14. CASE Goes /\ goto \in 0 .. YYNSTATE - 1 /\ Continues(yystack[p].stateno, Left(r), goto)
  <2>1. goto < YYNSTATE
    BY <1>14, ActionsApart
  <2>2. PICK left : left = LeftHandSide(r, m)
    OBVIOUS
  <2>3. PICK new : new = [stateno |-> goto, major |-> Left(r), minor |-> left]
    OBVIOUS
  <2>4. new.stateno = goto /\ new.major = Left(r) /\ new.minor = left
    BY <2>3
  <2>5. yystack' = Append(rest, new)
    BY <1>14, <2>1, <2>2, <2>3
  <2>6. /\ Len(yystack') = p + 1 /\ yystack'[p + 1] = new /\ \A k \in 1 .. p : yystack'[k] = yystack[k]
        /\ yystack' \in Seq(S \cup {new})
    <3>1. rest \in Seq(S \cup {new}) /\ new \in S \cup {new}
      BY <1>7
    <3> QED  BY <1>7, <2>5, <3>1
  <2>7. Replaced(r, m, p, goto, DeletedByRule(r, rhs))
    BY <1>1, <1>14, <2>1, <2>2, <2>4, <2>6 DEF Replaced
  <2>8. OnTop(r, m, p)
    BY <1>2, <1>3, <1>4, <1>7 DEF OnTop
  <2>9. ASSUME NEW object \in DeletedByRule(r, rhs)
        PROVE  \/ r = 1 /\ object \in Held(0)
               \/ \E j \in 1 .. yyRuleInfo[r + 1][2] : Terminal(RightHandSide[r + 1][j]) /\ object \in Held(p + j)
    <3>1. CASE r = 1 /\ object \in root.owns
      BY <3>1 DEF Held
    <3>2. CASE \E k \in 1 .. nrhs : Terminal(rhs[k].major) /\ object \in rhs[k].minor.owns
      <4>1. PICK k \in 1 .. nrhs : Terminal(rhs[k].major) /\ object \in rhs[k].minor.owns
        BY <3>2
      <4>2. /\ rhs[k] = yystack[p + k] /\ yystack[p + k].major = RightHandSide[r + 1][k]
            /\ Held(p + k) = yystack[p + k].minor.owns
        BY <1>4, <1>7, <1>12
      <4>3. Terminal(RightHandSide[r + 1][k]) /\ object \in Held(p + k)
        BY <4>1, <4>2
      <4> QED  BY <1>3, <4>3
    <3>3. \/ r = 1 /\ object \in root.owns
          \/ \E k \in DOMAIN rhs : Terminal(rhs[k].major) /\ object \in rhs[k].minor.owns
      BY <2>9 DEF DeletedByRule
    <3> QED  BY <1>7, <3>1, <3>2, <3>3
  <2>10. r = 1 => Held(0) \subseteq DeletedByRule(r, rhs)
    BY DEF DeletedByRule, Held
  <2> QED  BY <1>1, <1>14, <2>7, <2>8, <2>9, <2>10, Reduces
<1>15. CASE Goes /\ goto = YY_ACCEPT_ACTION /\ Left(r) = 31
  <2>1. ~ (goto < YYNSTATE)
    BY <1>15, ActionsApart
  <2>2. r = 0
    BY <1>15, RulesFit DEF expr, bool_expr
  <2>3. nrhs = 1 /\ RightHandSide[r + 1][1] = 32
    <3>1. yyRuleInfo[1] = <<31, 1>> /\ RightHandSide[1] = <<32>>
      BY DEF yyRuleInfo, RightHandSide
    <3> QED  BY <1>3, <2>2, <3>1
  <2>4. Held(p + 1) = {}
    <3>1. p + 1 \in 1 .. Len(yystack) /\ yystack[p + 1].major = 32
      BY <1>4, <2>3
    <3> QED  BY <3>1 DEF ParserInv, HeldInv
  <2>5. ~ MakesNode(r, m) /\ ~ Undeclared(r, m)
    <3>1. DOMAIN BinaryRules = {3, 4, 5, 6, 7, 8, 17, 18, 19, 20, 21, 22, 24, 25}
      BY DEF BinaryRules
    <3> QED  BY <2>2, <3>1 DEF MakesNode, Undeclared
  <2>6. yystack' = <<>> /\ heap' = heap \ Deleted(rest) /\ phase' # "parse" /\ UNCHANGED <<root, made, parse_errors>>
    BY <1>15, <2>1, <2>2, <2>5 DEF Return
  <2>7. ASSUME NEW object
        PROVE  object \in Deleted(rest) <=> \E h \in 1 .. Len(yystack) : object \in Held(h)
    <3>1. p \in 0 .. Len(yystack)
      BY <1>4
    <3>2. object \in Deleted(rest) <=> \E h \in 1 .. p : object \in Held(h)
      BY <1>7, <3>1, DeletedIsHeld DEF ParserInv
    <3>3. \A h \in 1 .. Len(yystack) : h \in 1 .. p \/ h = p + 1
      BY <1>4, <2>3
    <3>4. \A h \in 1 .. p : h \in 1 .. Len(yystack)
      BY <1>4
    <3> QED  BY <2>4, <3>2, <3>3, <3>4
  <2>8. parse_errors' \in Nat /\ parse_errors' >= parse_errors
    BY <2>6 DEF ParserInv, ForgetInv
  <2> QED  BY <1>1, <2>6, <2>7, <2>8, Emptied
<1> QED  BY <1>10, <1>11, <1>13, <1>14, <1>15

LEMMA ParserInitially == ParserInit => ParserInv
<1> SUFFICES ASSUME ParserInit PROVE ParserInv
  OBVIOUS
<1>1. /\ session \in Sessions /\ text = <<>> /\ phase = "scan" /\ yymajor = 0 /\ yystack = <<>> /\ root = Nothing
      /\ parse_errors = 0 /\ heap = {} /\ made = 0
  BY DEF ParserInit
<1>2. Len(yystack) = 0 /\ 1 .. Len(yystack) = {} /\ 2 .. Len(yystack) = {} /\ Holders = {-1, 0}
  BY <1>1 DEF Holders
<1>3. \A h \in Holders : Held(h) = {}
  BY <1>1, <1>2 DEF Held, Nothing
<1>4. StackInv
  <2>1. yystack \in Seq({})
    BY <1>1
  <2> QED  BY <1>1, <1>2, <2>1 DEF StackInv
<1>5. HeldInv
  BY <1>1, <1>2, <1>3 DEF HeldInv, HoldersApart
<1>6. CallInv
  <2>1. text \in Seq(STRING)
    BY <1>1
  <2> QED  BY <1>1, <1>2, <2>1 DEF CallInv, IdentifierOnTop
<1>7. ForgetInv
  BY <1>1 DEF ForgetInv, NothingForgotten
<1> QED  BY <1>4, <1>5, <1>6, <1>7 DEF ParserInv

LEMMA ParserStep == ParserInv /\ [Construct]_parser_vars => ParserInv'
<1> SUFFICES ASSUME ParserInv, [Construct]_parser_vars PROVE ParserInv'
  OBVIOUS
<1>1. CASE ScanToken
  BY <1>1, ScanTokenKeeps
<1>2. CASE ScanEnd
  BY <1>2, ScanEndKeeps
<1>3. CASE ScanUnknown
  BY <1>3, ScanUnknownKeeps
<1>4. CASE Shift
  BY <1>4, ShiftKeeps
<1>5. CASE Reduce
  BY <1>5, ReduceKeeps
<1>6. CASE SyntaxError
  BY <1>6, SyntaxErrorKeeps
<1>7. CASE ParseFree
  BY <1>7, ParseFreeKeeps
<1>8. CASE UNCHANGED parser_vars
  <2>1. /\ UNCHANGED <<session, text, phase, yymajor, yyminor, yystack, root, parse_errors, heap, made>>
    BY <1>8 DEF parser_vars
  <2>2. Holders' = Holders /\ \A h : Held(h)' = Held(h)
    BY <2>1 DEF Holders, Held
  <2>3. HasCall' <=> HasCall
    BY <2>1 DEF HasCall
  <2>4. StackInv'
    BY <2>1 DEF ParserInv, StackInv
  <2>5. HeldInv'
    BY <2>1, <2>2 DEF ParserInv, HeldInv, HoldersApart
  <2>6. CallInv'
    BY <2>1, <2>3 DEF ParserInv, CallInv, IdentifierOnTop
  <2>7. ForgetInv'
    BY <2>1, <2>2, <2>3 DEF ParserInv, ForgetInv, NothingForgotten
  <2> QED  BY <2>4, <2>5, <2>6, <2>7 DEF ParserInv
<1> QED  BY <1>1, <1>2, <1>3, <1>4, <1>5, <1>6, <1>7, <1>8 DEF Construct

-----------------------------------------------------------------------------
(* What follows, and the theorems.                                         *)

LEMMA HeldApart == ParserInv => OwnedOnce
<1> SUFFICES ASSUME ParserInv, NEW object \in UNION Owners
             PROVE  object \in heap /\ OwnerCount(object) = 1
  BY DEF OwnedOnce
<1>1. Len(yystack) \in Nat /\ DOMAIN yystack = 1 .. Len(yystack)
  BY StackTyped DEF ParserInv
<1>2. /\ 0 \in Holders /\ -1 \in Holders /\ \A k \in 1 .. Len(yystack) : k \in Holders /\ k # 0 /\ k # -1
      /\ Held(0) = root.owns /\ (phase = "parse" => Held(-1) = yyminor.owns) /\ (phase # "parse" => Held(-1) = {})
      /\ \A k \in 1 .. Len(yystack) : Held(k) = yystack[k].minor.owns
  BY <1>1 DEF Holders, Held
<1> DEFINE K == {k \in DOMAIN yystack : Deletable(yystack[k].major) /\ object \in yystack[k].minor.owns}
<1>3. PICK h \in Holders :
        object \in Held(h) /\ (h \in 1 .. Len(yystack) => Deletable(yystack[h].major))
  <2>1. \/ \E k \in DOMAIN yystack : Deletable(yystack[k].major) /\ object \in yystack[k].minor.owns
        \/ phase = "parse" /\ object \in yyminor.owns
        \/ object \in root.owns
    BY DEF Owners
  <2>2. 0 \notin 1 .. Len(yystack) /\ -1 \notin 1 .. Len(yystack)
    BY <1>1
  <2> QED  BY <1>1, <1>2, <2>1, <2>2
<1>4. \A g \in Holders : g # h => object \notin Held(g)
  BY <1>3 DEF ParserInv, HeldInv, HoldersApart
<1>5. object \in heap
  BY <1>3 DEF ParserInv, HeldInv
<1>6. \A k \in K : k = h
  BY <1>1, <1>2, <1>4
<1>7. CASE h \in 1 .. Len(yystack)
  <2>1. h \in K
    BY <1>1, <1>2, <1>3, <1>7
  <2>2. K = {h}
    BY <1>6, <2>1
  <2>3. Cardinality(K) = 1
    BY <2>2, FS_Singleton
  <2>4. object \notin root.owns /\ ~ (phase = "parse" /\ object \in yyminor.owns)
    BY <1>2, <1>4, <1>7
  <2>5. OwnerCount(object) = 1 + 0 + 0
    BY <2>3, <2>4 DEF OwnerCount
  <2> QED  BY <1>5, <2>5
<1>8. CASE h \notin 1 .. Len(yystack)
  <2>1. K = {}
    BY <1>1, <1>6, <1>8
  <2>2. Cardinality(K) = 0
    BY <2>1, FS_EmptySet
  <2>3. h = 0 \/ h = -1
    BY <1>1, <1>8 DEF Holders
  <2>4. CASE h = 0
    <3>1. object \in root.owns /\ ~ (phase = "parse" /\ object \in yyminor.owns)
      BY <1>2, <1>3, <1>4, <2>4
    <3>2. OwnerCount(object) = 0 + 0 + 1
      BY <2>2, <3>1 DEF OwnerCount
    <3> QED  BY <1>5, <3>2
  <2>5. CASE h = -1
    <3>1. object \notin root.owns /\ phase = "parse" /\ object \in yyminor.owns
      BY <1>2, <1>3, <1>4, <2>5
    <3>2. OwnerCount(object) = 0 + 1 + 0
      BY <2>2, <3>1 DEF OwnerCount
    <3> QED  BY <1>5, <3>2
  <2> QED  BY <2>3, <2>4, <2>5
<1> QED  BY <1>7, <1>8

LEMMA RootOwnsTheRest == ParserInv => OnlyKnownLeaks
<1> SUFFICES ASSUME ParserInv, phase = "ready", parse_errors = 0 \/ ~ HasCall, NEW object \in heap, object[1] = "node"
             PROVE  object \in root.owns
  BY DEF OnlyKnownLeaks, Nodes
<1>1. PICK h \in Holders : object \in Held(h)
  BY DEF ParserInv, ForgetInv, NothingForgotten
<1>2. yystack = <<>>
  BY DEF ParserInv, StackInv
<1>3. Holders = {-1, 0}
  BY <1>2 DEF Holders
<1> QED  BY <1>1, <1>3 DEF Held

LEMMA DriverAsserts == ParserInv => AssertionsHold
<1> SUFFICES ASSUME ParserInv, phase = "parse", yyact \in YYNSTATE .. YY_ERROR_ACTION - 1
             PROVE  LiesOnTop(yyact - YYNSTATE)
  BY TopAction DEF AssertionsHold, ParserInv
<1>1. yystack # <<>> /\ Len(yystack) \in Nat
  BY StackTyped DEF ParserInv, StackInv
<1>2. PICK r \in Rules : r = yyact - YYNSTATE /\ <<r, yyRuleInfo[r + 1][2]>> \in Within[Top + 1]
  <2>1. yyact \notin 0 .. YYNSTATE - 1 /\ yyact # YY_ERROR_ACTION
    BY ActionsApart
  <2> QED  BY <2>1, TopAction DEF ParserInv
<1>3. PICK below : below = Len(yystack) - yyRuleInfo[r + 1][2]
  OBVIOUS
<1>4. /\ below \in 1 .. Len(yystack) - 1
      /\ \A j \in 1 .. yyRuleInfo[r + 1][2] : yystack[below + j].major = RightHandSide[r + 1][j]
      /\ HasGoto(yystack[below].stateno, Left(r))
  BY <1>1, <1>2, <1>3, RuleOnTop DEF ParserInv
<1>5. below >= 1 /\ below \in 1 .. Len(yystack)
  BY <1>1, <1>4
<1>6. yystack[below].stateno \in 0 .. YYNSTATE - 1
  BY <1>5 DEF ParserInv, StackInv
<1>7. Left(r) \in 29 .. 32
  BY RulesFit DEF expr, bool_expr
<1>8. PICK goto : goto = yy_find_reduce_action(yystack[below].stateno, Left(r))
  OBVIOUS
<1>9. goto \in 0 .. YYNSTATE - 1 \/ goto = YY_ACCEPT_ACTION
  BY <1>4, <1>6, <1>7, <1>8, TablesFit
<1> QED  BY <1>2, <1>3, <1>4, <1>5, <1>8, <1>9 DEF LiesOnTop

(* Whatever text is parsed, after whatever errors and overflows, none of   *)
(* the driver's assertions fails: no reduction takes more from the stack   *)
(* than is there, or anything but its own rule.                            *)
THEOREM DriverAssertionsHold == ParserSpec => []AssertionsHold
<1>1. ParserInit => ParserInv
  BY ParserInitially
<1>2. ParserInv /\ [Construct]_parser_vars => ParserInv'
  BY ParserStep
<1>3. ParserInv => AssertionsHold
  BY DriverAsserts
<1> QED  BY <1>1, <1>2, <1>3, PTL DEF ParserSpec

(* Whatever text is parsed, and however the parser recovers from its       *)
(* errors or overflows: no token or node is deleted twice or used after it *)
(* was deleted, since each that the stack, the token looked at or the root *)
(* would delete is on the heap and belongs to one of them alone.           *)
THEOREM EveryObjectOwnedOnce == ParserSpec => []OwnedOnce
<1>1. ParserInit => ParserInv
  BY ParserInitially
<1>2. ParserInv /\ [Construct]_parser_vars => ParserInv'
  BY ParserStep
<1>3. ParserInv => OwnedOnce
  BY HeldApart
<1> QED  BY <1>1, <1>2, <1>3, PTL DEF ParserSpec

(* When the constructor returns, the MiniCalc owns every tree node, unless *)
(* errors were recorded for a text with a call, whose arguments a refused  *)
(* call forgets.                                                           *)
THEOREM NothingElseForgotten == ParserSpec => []OnlyKnownLeaks
<1>1. ParserInit => ParserInv
  BY ParserInitially
<1>2. ParserInv /\ [Construct]_parser_vars => ParserInv'
  BY ParserStep
<1>3. ParserInv => OnlyKnownLeaks
  BY RootOwnsTheRest
<1> QED  BY <1>1, <1>2, <1>3, PTL DEF ParserSpec

=============================================================================
