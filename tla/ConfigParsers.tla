---------------------------- MODULE ConfigParsers ---------------------------
(***************************************************************************)
(* The parsers of the configuration files: a format template, a chroma     *)
(* siting or a conversion matrix out of a JSON document, or why there is   *)
(* none.                                                                   *)
(*                                                                         *)
(* A JSON value is [type, value], its type the one the parsers ask for:    *)
(* an "Object" (a function from names to JSON values), an "Array" (a       *)
(* sequence of them), a "Uint", "Double", "String", "Bool" or "Null".      *)
(* Doubles count in quarters.  A text that is no JSON is "malformed", or   *)
(* "cut off" if the error is found at its end.                             *)
(***************************************************************************)
EXTENDS FormatValidator

(* The first of two checks that is not "fine" decides: "parse error" and   *)
(* "invalid" are exceptions; "assertion" ends the process; "undefined" is  *)
(* an index beyond a vector.                                               *)
first ?? second == IF first = "fine" THEN second ELSE first
Unless(condition, failure) == IF condition THEN "fine" ELSE failure
Each(list, Check(_)) ==
  LET bad == {i \in DOMAIN list : Check(list[i]) # "fine"}
  IN  IF bad = {} THEN "fine" ELSE Check(list[Min(bad)])

(* DECLARE_REQUIRED and DECLARE_OPTIONAL: rapidjson asserts that what is   *)
(* asked for a member is an object.                                        *)
Has(v, field) == field \in DOMAIN v.value
Of(v, field)  == v.value[field].value
Fields(v, required, optional) ==
  Unless(v.type = "Object", "assertion")
    ?? Unless(/\ \A f \in DOMAIN required : Has(v, f) /\ v.value[f].type = required[f]
              /\ \A f \in DOMAIN optional : Has(v, f) => v.value[f].type = optional[f], "parse error")

(* VALIDATE_RANGE, from 0 to the maximum of each field.                    *)
Ranges(v, maxima) == Unless(\A f \in DOMAIN maxima : Of(v, f) \in 0 .. maxima[f], "parse error")

NoFields == [f \in {} |-> ""]
MaxByte  == 255
MaxShort == 65535
Byte(n)  == n % (MaxByte + 1)
Short(n) == n % (MaxShort + 1)

(* A syntax error is reported with its line, which line_number_from_offset *)
(* finds only before the end of the text.                                  *)
SyntaxCheck(doc) ==
  Unless(doc.type # "malformed", "parse error") ?? Unless(doc.type # "cut off", "assertion")

-----------------------------------------------------------------------------
(* Format templates.                                                       *)

SampleCheck(v) ==
  Fields(v, [plane |-> "Uint", int_bits |-> "Uint", frac_bits |-> "Uint", offset |-> "Uint"],
            [has_continuation |-> "Bool"])
    ?? Ranges(v, [plane |-> MaxByte, int_bits |-> MaxByte, frac_bits |-> MaxByte, offset |-> MaxShort])

ParseSample(v) ==
  [plane |-> Byte(Of(v, "plane")) + 1, integer_bits |-> Byte(Of(v, "int_bits")),
   fractional_bits |-> Byte(Of(v, "frac_bits")), offset |-> Short(Of(v, "offset")),
   has_continuation |-> Has(v, "has_continuation") /\ Of(v, "has_continuation")]

BlockCheck(v) ==
  Fields(v, [block_w |-> "Uint", block_h |-> "Uint", samples |-> "Array"], NoFields)
    ?? Ranges(v, [block_w |-> MaxShort, block_h |-> MaxShort])
    ?? Each(Of(v, "samples"), SampleCheck)

ParseBlock(v) ==
  [w |-> Short(Of(v, "block_w")), h |-> Short(Of(v, "block_h")),
   samples |-> [i \in DOMAIN Of(v, "samples") |-> ParseSample(Of(v, "samples")[i])]]

(* A swizzle lists, for each bit of the offset, a bit of the coordinate or *)
(* "-" for none.  It is written with the highest bit first and stored with *)
(* the lowest first, NOT_USED beyond it (up to bit n here).                *)
SwizzleCheck(list) ==
  Each(list, LAMBDA v : Unless(\/ v.type = "String" /\ v.value = "-"
                               \/ v.type = "Uint" /\ v.value < NOT_USED, "parse error"))
    ?? Unless(Len(list) < 32, "parse error")

SwizzleEntry(v) == IF v.type = "Uint" THEN v.value ELSE NOT_USED
SwizzleAsWritten(list, n) ==
  [i \in 1 .. n |-> IF i <= Len(list) THEN SwizzleEntry(list[i]) ELSE NOT_USED]
Swizzle(list, n) ==
  [i \in 1 .. n |-> IF i <= Len(list) THEN SwizzleEntry(list[Len(list) + 1 - i]) ELSE NOT_USED]

BlockOrderCheck(v) ==
  Fields(v, [mega_block_width |-> "Uint", mega_block_height |-> "Uint", x_mask |-> "Array", y_mask |-> "Array"],
            NoFields)
    ?? SwizzleCheck(Of(v, "x_mask")) ?? SwizzleCheck(Of(v, "y_mask"))

ParseBlockOrder(v) ==
  LET n == Max({Len(Of(v, "x_mask")), Len(Of(v, "y_mask"))})
  IN  [mega_block_width |-> Of(v, "mega_block_width"), mega_block_height |-> Of(v, "mega_block_height"),
       x_mask |-> Swizzle(Of(v, "x_mask"), n), y_mask |-> Swizzle(Of(v, "y_mask"), n)]

NoBlockOrder == [mega_block_width |-> 1, mega_block_height |-> 1, x_mask |-> <<>>, y_mask |-> <<>>]

InterleavePattern ==
  [NO_INTERLEAVING |-> NO_INTERLEAVING, INTERLEAVE_1_3_5__0_2_4 |-> INTERLEAVE_1_3_5__0_2_4,
   INTERLEAVE_0_2_4__1_3_5 |-> INTERLEAVE_0_2_4__1_3_5]

PlaneCheck(v) ==
  Fields(v, [base_offset |-> "String", line_stride |-> "String", plane_size |-> "String", block_stride |-> "Uint"],
            [interleave_pattern |-> "String", block_order |-> "Object"])
    ?? Unless(Has(v, "interleave_pattern") => Of(v, "interleave_pattern") \in DOMAIN InterleavePattern, "parse error")
    ?? IF Has(v, "block_order") THEN BlockOrderCheck(v.value["block_order"]) ELSE "fine"

ParsePlane(v) ==
  [base_offset |-> Of(v, "base_offset"), line_stride |-> Of(v, "line_stride"), plane_size |-> Of(v, "plane_size"),
   block_stride |-> Of(v, "block_stride"),
   interleave_mode |-> IF Has(v, "interleave_pattern") THEN InterleavePattern[Of(v, "interleave_pattern")]
                       ELSE NO_INTERLEAVING,
   block_order |-> IF Has(v, "block_order") THEN ParseBlockOrder(v.value["block_order"]) ELSE NoBlockOrder]

ChannelFields == <<"y_block", "u_block", "v_block", "a_block">>

TemplateCheck(doc) ==
  Fields(doc, [origin |-> "String", subsampling_mode |-> "Object", y_block |-> "Object", u_block |-> "Object",
               v_block |-> "Object", a_block |-> "Object", planes |-> "Array"], [fourcc |-> "String"])
    ?? Unless(Of(doc, "origin") \in {"upper_left", "lower_left"}, "parse error")
    ?? Fields(doc.value["subsampling_mode"], [macro_px_w |-> "Uint", macro_px_h |-> "Uint"], NoFields)
    ?? Ranges(doc.value["subsampling_mode"], [macro_px_w |-> MaxByte, macro_px_h |-> MaxByte])
    ?? Each(ChannelFields, LAMBDA f : BlockCheck(doc.value[f]))
    ?? Each(Of(doc, "planes"), PlaneCheck)
    ?? Unless(Has(doc, "fourcc") => Len(Of(doc, "fourcc")) <= 4, "parse error")

ParseTemplate(doc) ==
  [fourcc |-> IF Has(doc, "fourcc") THEN Of(doc, "fourcc") ELSE "", origin |-> Of(doc, "origin"),
   macro_px_w |-> Byte(Of(doc.value["subsampling_mode"], "macro_px_w")),
   macro_px_h |-> Byte(Of(doc.value["subsampling_mode"], "macro_px_h")),
   channel_blocks |-> [c \in Channels |-> ParseBlock(doc.value[ChannelFields[c]])],
   planes |-> [i \in DOMAIN Of(doc, "planes") |-> ParsePlane(Of(doc, "planes")[i])]]

(* validate_format_template: its first check looks up planes by the        *)
(* numbers in the samples, which nothing has compared with their count.    *)
ValidateTemplate(t) ==
  Each([c \in Channels |-> t.channel_blocks[c].samples],
       LAMBDA samples :
         Each(samples, LAMBDA smp :
           Unless(smp.plane \in DOMAIN t.planes, "undefined")
             ?? Unless(smp.offset + SampleBits(smp) <= t.planes[smp.plane].block_stride, "invalid")))
    ?? Unless(~ SampleOverlap(t), "invalid")

-----------------------------------------------------------------------------
(* Chroma sitings.                                                         *)

Quarters == 4
PointCheck(v) ==
  Fields(v, [sample_x |-> "Double", sample_y |-> "Double"], NoFields)
    ?? Ranges(v, [sample_x |-> Quarters, sample_y |-> Quarters])

SitingCheck(doc) ==
  Fields(doc, [block_width |-> "Uint", block_height |-> "Uint", u_sample_point |-> "Object",
               v_sample_point |-> "Object"], NoFields)
    ?? Ranges(doc, [block_width |-> MaxByte, block_height |-> MaxByte])
    ?? PointCheck(doc.value["u_sample_point"]) ?? PointCheck(doc.value["v_sample_point"])

ParseSiting(doc) ==
  LET Point(f) == <<Of(doc.value[f], "sample_x"), Of(doc.value[f], "sample_y")>>
  IN  [macro_px_w |-> Byte(Of(doc, "block_width")), macro_px_h |-> Byte(Of(doc, "block_height")),
       u_sample_point |-> Point("u_sample_point"), v_sample_point |-> Point("v_sample_point")]

-----------------------------------------------------------------------------
(* Conversion matrices.                                                    *)

ThreeDoubles(list) == Len(list) = 3 /\ \A j \in 1 .. 3 : list[j].type = "Double"
MatrixCheck(rows) ==
  Unless(Len(rows) = 3 /\ \A i \in 1 .. 3 : rows[i].type = "Array" /\ ThreeDoubles(rows[i].value), "parse error")
RangeCheck(list) == Unless(Len(list) = 2 /\ \A i \in 1 .. 2 : list[i].type = "Double", "parse error")

Matrices   == {"to_yuv", "to_rgb"}
RangeNames == {"y_range", "u_range", "v_range", "y_packed_range", "u_packed_range", "v_packed_range"}

ConversionCheck(doc) ==
  Fields(doc, [f \in Matrices \cup RangeNames |-> "Array"], NoFields)
    ?? Unless(\A f \in Matrices : MatrixCheck(Of(doc, f)) = "fine", "parse error")
    ?? Unless(\A f \in RangeNames : RangeCheck(Of(doc, f)) = "fine", "parse error")

(* A range whose ends are the wrong way round is turned.                   *)
ParseConversion(doc) ==
  LET low(r)  == r[1].value
      high(r) == r[2].value
  IN  [f \in Matrices \cup RangeNames |->
         IF f \in Matrices
         THEN [k \in 1 .. 9 |-> Of(doc, f)[((k - 1) \div 3) + 1].value[((k - 1) % 3) + 1].value]
         ELSE LET r == Of(doc, f)
              IN  IF high(r) < low(r) THEN <<high(r), low(r)>> ELSE <<low(r), high(r)>>]

=============================================================================
