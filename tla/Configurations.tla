--------------------------- MODULE Configurations ---------------------------
(***************************************************************************)
(* The configuration manager over the files it reads: what its items are,  *)
(* and how a file fails, is what the parsers make of documents.            *)
(***************************************************************************)
EXTENDS ConfigManager, ConfigParsers
LOCAL INSTANCE SequencesExt
LOCAL INSTANCE Bitwise

CONSTANT Documents  \* kind -> the documents in files of that kind

Orelse(check, item) == IF check = "fine" THEN item ELSE Error(check)

LoadFormatTemplate(doc) ==
  Orelse(SyntaxCheck(doc) ?? TemplateCheck(doc) ?? ValidateTemplate(ParseTemplate(doc)), ParseTemplate(doc))
LoadChromaSiting(doc)     == Orelse(SyntaxCheck(doc) ?? SitingCheck(doc), ParseSiting(doc))
LoadConversionMatrix(doc) == Orelse(SyntaxCheck(doc) ?? ConversionCheck(doc), ParseConversion(doc))

Loaded(kind, doc) ==
  CASE kind = "px_fmt"         -> LoadFormatTemplate(doc)
    [] kind = "chroma_siting"  -> LoadChromaSiting(doc)
    [] kind = "rgb_conversion" -> LoadConversionMatrix(doc)

-----------------------------------------------------------------------------
(* What a document means, read off it without the structures it is parsed  *)
(* into: numbers are as large as written, and a swizzle gives the offset's *)
(* bits from left to right.                                                *)
CoordinateBit(v, coord) == IF v.type = "Uint" THEN (coord \div 2^v.value) % 2 ELSE 0
Spelled(list, coord) == FoldLeft(LAMBDA bits, v : 2 * bits + CoordinateBit(v, coord), 0, list)

MeansOrder(v, bo) ==
  /\ bo.mega_block_width = Of(v, "mega_block_width") /\ bo.mega_block_height = Of(v, "mega_block_height")
  /\ \A xy \in MegaCoords(bo) :
       OffsetAt(bo, xy) = Spelled(Of(v, "x_mask"), xy[1]) ^^ Spelled(Of(v, "y_mask"), xy[2])

MeansPlane(v, pl) ==
  /\ \A f \in {"base_offset", "line_stride", "plane_size", "block_stride"} : pl[f] = Of(v, f)
  /\ IF Has(v, "block_order") THEN MeansOrder(v.value["block_order"], pl.block_order)
     ELSE ~ HasMegaBlocks(pl)

MeansSample(v, smp) ==
  /\ smp.plane = Of(v, "plane") + 1 /\ smp.offset = Of(v, "offset")
  /\ smp.integer_bits = Of(v, "int_bits") /\ smp.fractional_bits = Of(v, "frac_bits")
  /\ smp.has_continuation <=> "has_continuation" \in DOMAIN v.value /\ Of(v, "has_continuation")

MeansBlock(v, blk) ==
  /\ blk.w = Of(v, "block_w") /\ blk.h = Of(v, "block_h")
  /\ DOMAIN blk.samples = DOMAIN Of(v, "samples")
  /\ \A i \in DOMAIN blk.samples : MeansSample(Of(v, "samples")[i], blk.samples[i])

MeansTemplate(doc, t) ==
  /\ \A c \in Channels : MeansBlock(doc.value[ChannelFields[c]], t.channel_blocks[c])
  /\ DOMAIN t.planes = DOMAIN Of(doc, "planes")
  /\ \A i \in DOMAIN t.planes : MeansPlane(Of(doc, "planes")[i], t.planes[i])

(* A format template in the map is what some document says: each number is *)
(* as large as there, and reordering sends each block where the swizzle's  *)
(* bits, from the highest to the lowest, say.  And it is usable: samples   *)
(* name planes, lie in a block and do not overlap.  Parser, validator and  *)
(* block_reorder each have a part in it, in widths of 8 and 16 bits.       *)
TemplatesMeanTheirFiles ==
  \A name \in Names :
    LET t == store["px_fmt"][name]
    IN  t # Missing =>
          /\ \E doc \in Documents["px_fmt"] : Loaded("px_fmt", doc) = t /\ MeansTemplate(doc, t)
          /\ \A ci \in AllSamples(t) : SampleAt(t, ci).plane \in DOMAIN t.planes
          /\ ~ BlockOverflow(t) /\ ~ SampleOverlap(t)

=============================================================================
