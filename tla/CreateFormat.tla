---------------------------- MODULE CreateFormat ----------------------------
(***************************************************************************)
(* create_format: a format template, an image size and a chroma siting     *)
(* become a format.  The planes are laid out one after the other, each by  *)
(* evaluating the three expressions of its template, which may use the     *)
(* variables of the image and of the planes before it; the result is then  *)
(* validated, and either returned or refused with an exception.            *)
(*                                                                         *)
(* A variable is a pair: <<0, name>> for a global one, <<i, name>> for     *)
(* the source's plane[i-1].name.                                           *)
(***************************************************************************)
EXTENDS FormatValidator

CONSTANTS
  Requests,        \* inputs: [width, height, template, macro_px_w, macro_px_h]
  Evaluate(_, _)   \* minicalc_evaluate: expression, variables -> 0 .. DWord - 1,
                   \* or a negative number when a division trap ends the process

(* Templates have no zero where the code divides, and their samples name   *)
(* planes of theirs.                                                       *)
WellFormedTemplate(t) ==
  /\ t.macro_px_w \in Nat \ {0} /\ t.macro_px_h \in Nat \ {0}
  /\ \A i \in DOMAIN t.planes : t.planes[i].block_stride \in Nat /\ t.planes[i].interleave_mode \in InterleaveModes
  /\ t.planes \in Seq({t.planes[i] : i \in DOMAIN t.planes})
  /\ \A c \in Channels : WellFormedBlock(t.channel_blocks[c], DOMAIN t.planes)
ASSUME RequestAssumption ==
  \A r \in Requests : r.width \in Nat /\ r.height \in Nat /\ WellFormedTemplate(r.template)

VARIABLES
  req,        \* the arguments, with the subsampling of the chroma siting
  pc,         \* "check", "planes", "validate", "done"
  available,  \* the variables the next expression may use
  planes,     \* the planes laid out so far
  size,       \* the frame size so far
  outcome     \* "none", "assert", "valid" or the error thrown

vars == <<req, pc, available, planes, size, outcome>>

MaxOf(a, b) == IF a >= b THEN a ELSE b

(* utility.cpp's next_multiple, in uint32_t.                               *)
NextMultiple32(base, multiplier) ==
  ((((base + multiplier - 1) % Word) \div multiplier) * multiplier) % Word

(* A variable added to others, and those of the image.                     *)
Bind(name, value, others) == [n \in {name} \cup DOMAIN others |-> IF n = name THEN value ELSE others[n]]
Globals(w, h, others) ==
  Bind(<<0, "image_w">>, w, Bind(<<0, "image_h">>, h,
    Bind(<<0, "macro_px_w">>, req.template.macro_px_w, Bind(<<0, "macro_px_h">>, req.template.macro_px_h, others))))

(* The template's fields and the planes laid out so far, as a format.      *)
TheFormat ==
  [image_w |-> req.width, image_h |-> req.height,
   macro_px_w |-> req.macro_px_w, macro_px_h |-> req.macro_px_h,
   origin |-> req.template.origin, size |-> size, planes |-> planes,
   channel_blocks |-> req.template.channel_blocks]

-----------------------------------------------------------------------------
Init ==
  /\ req \in Requests
  /\ pc = "check"
  /\ available = <<>>
  /\ planes = <<>>
  /\ size = 0
  /\ outcome = "none"

(* The template's subsampling must be the siting's: an assertion.          *)
CheckSubsampling ==
  LET same == /\ req.template.macro_px_w = req.macro_px_w
              /\ req.template.macro_px_h = req.macro_px_h
  IN  /\ pc = "check"
      /\ \/ same /\ pc' = "planes" /\ available' = Globals(req.width, req.height, <<>>) /\ UNCHANGED outcome
         \/ ~ same /\ pc' = "done" /\ outcome' = "assert" /\ UNCHANGED available
      /\ UNCHANGED <<req, planes, size>>

(* The next plane of the template and the variables its expressions see:   *)
(* whole mega blocks are allocated by padding the image size.              *)
ThisPlane == req.template.planes[Len(planes) + 1]
Seen ==
  Globals(NextMultiple32(req.width, ThisPlane.block_order.mega_block_width),
          NextMultiple32(req.height, ThisPlane.block_order.mega_block_height), available)

BaseOffset == Evaluate(ThisPlane.base_offset, Seen)
LineStride64 == Evaluate(ThisPlane.line_stride, Seen)
LineStride == LineStride64 % Word
PlaneSize(stride) == Evaluate(ThisPlane.plane_size, Bind(<<0, "line_stride">>, stride, Seen))

MorePlanes == pc = "planes" /\ Len(planes) < Len(req.template.planes)

(* The variables left for the planes after plane i.                        *)
VariablesAfterMutant(i, base, stride, bytes) ==
  Bind(<<i, "base_offset">>, base, Bind(<<0, "line_stride">>, stride, Bind(<<i, "plane_size">>, bytes, Seen)))
VariablesAfter(i, base, stride, bytes) ==
  Bind(<<i, "base_offset">>, base, Bind(<<i, "line_stride">>, stride, Bind(<<i, "plane_size">>, bytes, Seen)))

(* One round of the loop over the template's planes.                       *)
AddPlane ==
  LET i      == Len(planes) + 1
      base   == BaseOffset
      stride == LineStride
      bytes  == PlaneSize(stride)
  IN  /\ MorePlanes
      /\ {base, LineStride64, bytes} \subseteq Nat
      /\ planes' = Append(planes, [base_offset |-> base, size |-> bytes, line_stride |-> stride,
                                   block_stride |-> ThisPlane.block_stride,
                                   interleave_mode |-> ThisPlane.interleave_mode,
                                   block_order |-> ThisPlane.block_order])
      /\ available' = VariablesAfter(i, base, stride, bytes)
      /\ size' = MaxOf(size, (base + bytes) % DWord)
      /\ UNCHANGED <<req, pc, outcome>>

(* An expression divides in a way the processor refuses.                   *)
TrapInExpression ==
  /\ MorePlanes
  /\ ~ ({BaseOffset, LineStride64, PlaneSize(LineStride)} \subseteq Nat)
  /\ pc' = "done"
  /\ outcome' = "trap"
  /\ UNCHANGED <<req, available, planes, size>>

Validate ==
  /\ pc = "planes"
  /\ Len(planes) = Len(req.template.planes)
  /\ outcome' = ValidateFormat(TheFormat)
  /\ pc' = "done"
  /\ UNCHANGED <<req, available, planes, size>>

Returned == pc = "done" /\ UNCHANGED vars

Next == CheckSubsampling \/ AddPlane \/ TrapInExpression \/ Validate \/ Returned

Spec == Init /\ [][Next]_vars

-----------------------------------------------------------------------------
Accepted == outcome = "valid"

(* No number left the range in which it is kept or checked.                *)
NothingWrapped ==
  /\ \A i \in DOMAIN planes : planes[i].base_offset + planes[i].size < DWord
  /\ Representable(TheFormat)

(* The places in a returned format are where the packer needs them: inside *)
(* their plane and the frame, and no two of them share a bit, provided the *)
(* image is a whole number of macro pixels, its numbers were representable *)
(* and, for the second part, the planes are laid out apart.  The           *)
(* expressions, the validator's arithmetic and the packer's loops are      *)
(* written independently of one another.                                   *)
SoundForWholeMacroPixels ==
  (Accepted /\ NothingWrapped /\ WholeMacroPixels(TheFormat)) =>
    /\ PlacesInPlane(TheFormat)
    /\ DisjointPlanes(TheFormat) => PlacesDisjoint(TheFormat)

(* An expression sees only finished planes and, for a plane's size only,   *)
(* its own line_stride: line_stride never outlives the plane it is of.     *)
OnlyEarlierPlanesVisible ==
  /\ <<0, "line_stride">> \notin DOMAIN available
  /\ \A v \in DOMAIN available : v[1] \in 0 .. Len(planes)

=============================================================================
