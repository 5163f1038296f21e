# Verification of libxyuv

TLA+ models of libxyuv, a C++ library that stores raw YUV images in any memory
layout a JSON description can express, and of the `.xyuv` file format, with TLC
configurations that check them and TLAPS proofs about them. Paths below are
relative to the repository; `src/` in `PROJECT.json` is its root.

## The system

The library and its programs are sequential: no thread, no lock, no callback. What is hard in it is
not interleaving but agreement. Six pieces of code written apart from one another
(expressions in templates, the code that lays out planes, the validator, the
packer's loops, the block iterator, the file reader) each compute where
something is, and nothing checks that they agree. Three parts have a life over
several calls: a stream, whose writer and reader are two processes when it is a
pipe or a connection, and which may break off; the configuration manager,
which is filled by loads that may fail half way; and the command line programs,
which are run one after the other on the same files and may fail at each of them.
Two keep memory by hand: the expression parser, a generated push-down automaton that
recovers from errors, and the PNG images, whose loading may be left at any step.

| component | state | operations | hard behaviour | what makes it correct |
|---|---|---|---|---|
| memory layout (`structures/*.h`) | a `format`: planes, blocks, samples, origin | address of a bit | interleaving of odd numbers of lines, lower-left origin, samples continued elsewhere | no two samples share a bit |
| pixel packer (`pixel_packer.cpp`) | loop counters, block iterator, value being shifted, frame buffer, surfaces | `encode_frame`, `decode_frame` | two sets of counters over the same pixels; images that end inside a block | decoding gives back what was encoded; every access in bounds |
| block reordering (`block_reorder.cpp`) | a temporary plane | `reorder_transform`, `reorder_inverse` | uninitialised temporary, copied back as a whole | inverse of one another; no indeterminate bit |
| validator (`format_validator.cpp`) | none | six checks | rounding, wrap-around, early exits | what it accepts can be packed |
| format creation (`format.cpp`) | available variables, planes so far, size | `create_format` | variables that must not outlive a plane, failing expressions | the frame holds its planes, planes hold their blocks |
| minicalc (`minicalc/*`) | the parser's stack, an expression tree | construction from a text, `evaluate` | generated tables, error recovery, stack overflow, who deletes what; int arithmetic, errors as -1, traps | the tree is the one the grammar says; nothing deleted twice; agrees with arithmetic where an int can |
| file format (`io/*`) | the stream, a frame object, counts announced by headers | `write_frame`, `read_frame` | short writes and reads, two versions, host byte order, foreign data | frames arrive whole, unaltered, in order; the reader ends |
| configuration manager and JSON parsers (`config_manager.cpp`, `utility.cpp`, `*_parser.cpp`, `parsing_helpers.h`) | three maps, index by subsampling; a parser keeps nothing | `add`, `load_configurations`, getters | exceptions half way, index kept beside the map, optional fields, widths, swizzles, assertions | the index misses no siting and names none that is not there; a complete load missed nothing; a template is what its file says |
| resampler (`subsampler.cpp`, `yuv_image.cpp`, `surface.h`) and the conversions of `encode_frame` and `convert_frame` | an image: its size, its siting, a surface per channel | `up_sample`, `down_sample`, `scale_yuv_image`, conversion in up to four steps | coordinates computed in other coordinate systems, weights, edges that cut through a macro pixel, conversions one after the other | surfaces fit size and siting; sampling stays in bounds; chroma stays where its luma is |
| command line programs (`utilities/xyuv_header_run.cpp`, `xyuv-encode.cpp`, `xyuv-decode.cpp`, `helpers_*_frame.cpp`) | files, the input under way, a stream to append to | a batch of `xyuv-header`, one conversion of `xyuv-encode`, one of `xyuv-decode` | inputs that fail in the middle of a batch, buffered output, two flags for concatenation | a failure touches nothing but its own output; what was written can be loaded |
| hex files (`hex_reader.cpp`) | the file, address and offset, the data so far | `WriteHexFile`, `LoadHexFile` | addresses, gaps, the last word, files somebody typed | what was written comes back; bytes land at their addresses |
| PNG images (`libpng_wrapper.cpp`) | per object a struct, row pointers and pixels on the heap | create, load, save, copy, move, from and to YUV, set a pixel | longjmps and exceptions at every step, images reused for smaller ones, 16 bits and palettes | each buffer has one owner; an object shows what was put into it |
| colour conversion, JSON writer, ImageMagick, options and console output | | | | not modelled, see below |

How they interact: `config_manager` loads templates, sitings and matrices;
`create_format` turns a template, a size and a siting into a format, evaluating
expressions with minicalc and ending in the validator; `encode_frame` brings an
image to the format's size and siting with the resampler, packs it
with the format and reorders the planes of the buffer; `write_frame` puts
format and buffer into a stream; `read_frame` takes them out, validates the format,
and `decode_frame` unpacks the buffer. The programs string these together: `xyuv-header`
adds formats to raw data, `xyuv-encode` converts a frame to a format, `xyuv-decode` takes
a frame's data out of an `.xyuv` file or puts it into another kind of file.

## The modules

| module | models | remarks |
|---|---|---|
| `FormatLayout` | the layout's address arithmetic | pure operators |
| `BlockReorder` | `block_reorder.cpp` | pure operators; extends `FormatLayout` |
| `PixelPacker` | `internal_encode_frame` and `decode_frame`, one action per sample written or read, per pixel loaded or stored, per plane reordered | extends `BlockReorder` |
| `ImageTransfer` | what packing and unpacking promise | `PixelPacker` is shown to implement it |
| `FormatValidator` | `validate_format`, and what the packer needs of a layout | extends `BlockReorder` |
| `LayoutProofs` | theorem about accepted formats, lemmas about layouts and block orders | proved by tlapm; extends `FormatValidator` |
| `PixelPackerProofs` | theorems about `PixelPacker` | proved by tlapm; extends `PixelPacker` and `LayoutProofs` |
| `IntegerWidths` | how many values the code's integers have | constants; extended by what computes with them |
| `MinicalcInt` | the int of the expressions | |
| `MinicalcParser` | the scanner's lexemes, lemon's tables and driver, its error recovery and stack overflow, one action for the construction | owns and deletes as `yy_reduce` and `yy_destructor` do |
| `MinicalcOwners` | who owns the tokens and nodes on the heap, and what lemon's tables promise its driver | extends `MinicalcParser`; `ParserSpec` is the parser alone |
| `MinicalcGrammar` | what `parser.ypp` says a text means | recursive reference, compared with the tables |
| `MiniCalc` | evaluation of an expression tree | recursive, hence only model-checked |
| `CalcSession` | a `MiniCalc` object built from a text and evaluated again and again | extends the modules above |
| `CreateFormat` | `create_format`, one action per plane | extends `FormatValidator`; evaluation is the constant operator `Evaluate`, which `MCCreateFormat` gives as `MiniCalc!MinicalcEvaluate` |
| `CreateFormatProofs` | theorems about `CreateFormat`, and about `MinicalcOwners`, whose parser reads the templates' expressions | proved by tlapm; extends both and `LayoutProofs` |
| `FrameStream` | `write_frame` and `read_frame` as two processes on one stream, one action per struct | extends `FormatValidator` |
| `FrameFifo` | what a stream of frames promises | `FrameStream` is shown to implement it |
| `FrameStreamProofs` | theorems about `FrameStream` | proved by tlapm; extends `FrameStream` and `LayoutProofs` |
| `ConfigManager` | additions, and loads with one action per folder listed and per file | what parsing gives is a constant |
| `ConfigParsers` | the parsers of templates, sitings and matrices, and `validate_format_template` | pure operators; extends `FormatValidator` |
| `Configurations` | the manager over documents: what its items are and how files fail is what the parsers make of them | extends `ConfigManager` and `ConfigParsers` |
| `ConfigManagerProofs` | theorems about `ConfigManager` | proved by tlapm |
| `Resampler` | `up_sample`, `down_sample`, `surface::scale` and `scale_yuv_image` | pure operators; extends `FormatLayout` |
| `Conversion` | the conversions of `encode_frame`, one action per call it makes, and a program's own calls of the resampler between them | extends `Resampler`; packing and unpacking are one step here |
| `ConversionProofs` | theorems about `Conversion` | proved by tlapm |
| `Tools` | the three programs run on one set of files, one action per check of the arguments, input and output | `create_format`, `convert_frame` and the file format are one step each here; what the file format loses of a frame, the points of its siting, it loses here too |
| `HexFile` | `WriteHexFile` line by line and `LoadHexFile` word by word | what `Tools` takes a hex file for |
| `ToolsProofs` | theorems about `Tools` and `HexFile` | proved by tlapm; extends both |
| `PngImage` | objects of `libpng_wrapper`, loading and saving step by step | |
| `PngImageProofs` | theorems about `PngImage` | proved by tlapm |
| `SmallFormats`, `MC*` | inputs and constants of the runs | |

A name is that of the source wherever TLA+ allows. Vectors become sequences, so
plane numbers count from 1. What is abstracted:

- *Pixel values.* A pixel's bits are the triples (channel, pixel, bit); the packer
  never looks at them, so what holds for these holds for all values. The floating
  point of `to_unorm`/`from_unorm` is left out: a value is as many bits as its
  sample has.
- *Pixel values in conversions.* Resampling is linear, so a value is a bag: how much
  of it comes from which pixel of the source image, `ONE` in all. Down-sampling
  multiplies by quarters, so `ONE` is 4 to the number of calls and all weights are
  integers. Points of a siting are in half pixels. The quotients of
  `surface::sample` are exact; the code's are floats, whose rounding decides
  only where a coordinate falls exactly between two pixels, and the sizes of the run
  (5, 4, 3, 2) are chosen so that it does not.
- *Structs in a stream* are records with a kind, a size in bytes and the fields the
  reader uses; a failing write leaves one with `whole = FALSE`. The checksum (never
  compared) is left out.
- *Files and folders* are what loading them results in: an item, one of six ways to
  fail, or nothing. Two of these end the process: an assertion, and an index beyond a
  vector. In `Configurations` they are what the parsers give for a document.
- *JSON documents* are trees of values with a type; rapidjson's part, from text to
  values, is left out but for where a syntax error is found. Names, types, ranges, narrowing and
  the order of the checks are the code's. Doubles are in quarters, and a swizzle has
  as many places as it needs instead of 32.
- *Files of the programs* are sequences of frames, or data of some length from some
  place; converted data records the formats it went through. A frame in an `.xyuv`
  file has lost its siting in the way the code loses it: the point of u is that of v, and that of v
  has no known value (two such count as equal). What is in a file of
  one kind read as another counts as no data at all. Two paths are one file only if
  they are equal, as in the code's own check. The programs are built with assertions
  and without libpng and ImageMagick. Where the code indexes past a vector, the
  outcome is `undefined` and the model stops.
- *Texts of expressions* are sequences of lexemes; how re2c cuts characters into lexemes
  is left out. For `create_format` they are trees, and text that does not parse is the
  tree `bad`.
- *Heap objects* (tokens and nodes of the parser, buffers of an image) are identifiers:
  an object is allocated, owned and deleted, and the set of those alive is a variable.
- *Samples of a PNG* are levels: one byte of 8 bits, or two of 16 that show a level only
  in the right order (level 0 is two zeros, in any order). A palette or grey image of less than 8 bits has its own depth in
  the struct and bytes in memory, as the code has it.
- *Words of a hex file* are a number, a length and whether they end in a colon.
- *Integer widths* are constants, of `IntegerWidths`: `Word` values of `uint32_t` and `int`, `DWord` of
  `uint64_t`. Wrapping is modelled where a check or a count depends on it: in the validator, in
  `create_format`, in the expressions, in the counts of a stream's headers, and in the size that
  `xyuv-header` compares. Elsewhere (addresses in the packer, block orders, sizes of PNG images and hex
  files) the models compute with unbounded numbers, and the properties that carry over what one part
  computed to another say so: `NothingWrapped` and `Representable` are among their premises.

## What is checked

TLC runs; `Y`/`N` says whether the property holds.

| run | states | shows |
|---|---|---|
| `PixelPacker` | 1 482 | Y: for twelve layouts whose images are whole blocks: iterator and loops in step, every access in bounds, no bit overwritten, no indeterminate bit, decoding delivers exactly the image (`ImplementsTransfer`, with its liveness) |
| `PixelPackerIrregular` | 300 | Y: for layouts that do not come out even (an image that ends inside a block, stray bytes behind the mega blocks, a mega block line of half bytes): a pixel may be left out, but what arrives of one is what was packed of it. Layouts that put places over one another, as those with cut macro pixels may, are not among them: for these it does not hold |
| `CreateFormat` | 1 140 | Y: for all sizes up to 4x4 of 14 templates, good and bad: what is accepted for an image of whole macro pixels is inside planes and frame and, where planes are apart, overlaps nowhere; no variable outlives its plane |
| `FrameStream` | 11 120 | Y: two frames in mixed versions, a write failing anywhere, reading while writing: the reader never takes one struct for another and `FrameFifo` is implemented, with its liveness |
| `FrameStreamFailures` | 11 304 | Y: foreign and truncated streams, unknown versions, invalid and unwritable frames, both byte orders: what is returned is a prefix of what was sent; if it is whole macro pixels, its planes are inside the frame and its numbers do not wrap, every place of it can be read, and no two share a bit where planes are apart; a frame of cut macro pixels and one whose planes meet are among the inputs, and are returned; the reader always ends |
| `FrameStreamSiting` | | N: the chroma siting does not survive |
| `ConfigManager` | 57 676 | Y: a template in the map is what some document says, number by number and block by block, and its samples lie in its planes' blocks without overlap; the index misses no siting and names none that is not there; complete loads miss nothing |
| `CalcSession` | 386 828 | Y: all texts of a few lexemes and well-formed expressions: the tables and the driver build the tree the grammar says or record an error; the assertions in lemon's driver hold; no object is deleted twice or used after deletion; no node is forgotten but the arguments of refused calls; the constructor ends; gcd, lcm, next_multiple, division, comparison and `if` agree with reference definitions for small, negative and extreme ints |
| `Conversion` | 9 925 | Y: nine images, eleven target formats, any two conversions or resamplings in a row: the packer finds surfaces of the size the format calls for; values are averages; nothing is read beyond a surface unless scaling doubles a side; chroma lies at its sample point, survives full resolution unchanged, and stays with its luma |
| `Tools` | 7 295 | Y: any two of 41 command lines one after the other: every output is what its input alone would have given, or untouched, or the one that failed; concatenation appends whole frames in order and loses one only to an assertion or a full disk; nothing but outputs changes; what was written can be loaded again: from `.xyuv` files all but the siting, from the others the data |
| `HexFile` | 3 271 041 | Y: what `WriteHexFile` writes `LoadHexFile` gives back, but for the padding of the last word (as `Tools` says, see `ProgramsAndHexFilesAgree`); in a sorted file that somebody typed every byte lands at its address and gaps are zeros |
| `PngImage` | 175 162 | Y: three calls on two objects and one file, failing at every step: every buffer has exactly one owner and nothing is left open between calls; moves, loads and conversions from YUV show the picture they should, and so do copies of images whose lines are where they were made; images of 8 bits are saved and turned into YUV as they show; no call touches another object |

`FrameStreamSiting` is a violation on purpose; `PROJECT.json` quotes, under `findings`, the
comment that says otherwise. `Tools` loses the siting in the same way.

**Seen while modelling, without a run of their own.** The models do what the code
does in all of these, and no property promises anything else: the properties either leave the case out
by a premise, which is named here, or do not speak of it:

- chroma lines one block too short are accepted for odd widths: `check_line_overflow`
  rounds the subsampled width down (`format_validator.cpp:203`), `create_yuv_image` rounds it up and
  `encode_channel` packs all of it (templates that divide `image_w` by `macro_px_w` do the
  same), so the last block of a line goes to the next one. Such layouts are accepted, written and
  read; with `OddYV12Frame` (3x3, YV12) `NoClobber` is violated. The premise elsewhere is that images
  are whole macro pixels (`SoundForWholeMacroPixels`, `ReturnedAreReadable`);
- `scale` to twice the width or height reads beyond the surface: `sample()` clamps to
  `width` instead of `width - 1` (`surface.h:190`), which
  `OutsideOnlyWhenDoubling` excludes by name;
- the pixels of a last, partial block are not encoded (`pixel_packer.cpp:182`);
- a channel block that is not square differs from itself: `operator==` compares the left
  width with the right height (`comparison_operators.cpp:73`);
- reordering leaves uninitialised memory in bytes that belong to no mega block
  (`block_reorder.cpp:111`): with `StrayBytes` `PaddingDeterministic` is violated. And it
  ends the process, with assertions, if a line of a mega block is no whole bytes, which nothing before
  it has checked (`block_reorder.cpp:97`);
- an expression that fails becomes 2^64-1 and is accepted as an offset (`format.cpp:83`);
- a block order that is no bijection is accepted after a plane without a block order
  (`format_validator.cpp:143`), and so is one whose offsets have the sum of a bijection
  (`AcceptedFormatsArrive` supposes bijections);
- a reordered plane that overlaps another is accepted if neither of them is the lowest:
  `prev` is never advanced, though the comment above says that comparing
  with the next plane is enough (`format_validator.cpp:182`); the premise is that planes are apart;
- version 0 files of a big-endian host are read as version 1 (`io/versions/0/io_structs.cpp:53`);
- reading into a frame object that was used before mixes two frames
  (`io/versions/1/entry_point.cpp:101`);
- `offset_to_data` adds where it should multiply (`io/versions/1/io_structs.cpp:44`);
- a name is listed under the subsampling of a siting that was refused
  (`config_manager.cpp:126`), so `get_chroma_sitings` may name one with another subsampling, though
  `config_manager.h:112` says that it returns those "corresponding to a given subsampling": `IndexUsable`
  asks only that the siting is there. And `add` does not overwrite (`config_manager.cpp:121`),
  though `config_manager.h:92` says that it does; no property says which of the two is right;
- a configuration file with a syntax error at its end (an empty one, or one cut off) ends the process by an
  assertion, because `line_number_from_offset` has no line for it (`parse_helpers.cpp:32`), and so does a
  value that is no object where one is expected (`parsing_helpers.h:42`): it costs all other files.
  `CompleteLoadMissesNothing` speaks of loads that come to their end, and holds of this one for no other reason;
- a sample's plane number is compared with 255 and never with the number of planes, which
  `validate_format_template` then indexes with it (`format_validator.cpp:67`); macro pixels and blocks
  of zero are accepted, and so is a last sample that announces another one;
- `format_to_json` writes the width of a block as its height (`format_json.cpp:200`), and the entries
  of a swizzle as strings, which the parser does not accept;
- `next_multiple` of a negative base may be one multiple too high (`operations.cpp:70`);
- `down_sample` with points in different rows of a macro pixel of three or more
  lines multiplies by a negative weight (`subsampler.cpp:143`), and with a point beyond
  the macro pixel loses part of the value; the parser accepts both and the comment
  at `subsampler.cpp:137` calls the result a weighted average. `Tall` and `Beyond`
  are inputs of the run, which `WellPlaced` excludes from `ValuesAreAverages`;
- encoding an image without chroma into a format with chroma leaves the poison
  `0xDEADBEEF` in the frame (`pixel_packer.cpp:301`);
- `xyuv-header` with one `-o`, several inputs and no `--cat` indexes past the names at
  the second input, though `XYUVHeader.h:60` says that one output name implies
  concatenation; with `--cat` and `--no-writeout` it indexes an empty list
  (`xyuv_header_run.cpp:213`);
- `xyuv-header` checks `image_w * image_h` modulo 2^32 (`xyuv_header_run.cpp:207`), and
  leaves an `.xyuv` input in the format it has (`helpers_read_frame.cpp:44`);
- raw input that is too short ends the program by the assertion in
  `read_large_buffer`, which comes before the exception that would have said so
  (`helpers_read_frame.cpp:67`), and takes the frames still in a concatenation's buffer
  with it;
- `xyuv-header` does not look whether the description of an output is one of its inputs or
  another output (`xyuv_header_run.cpp:252`), and overwrites it;
- the description of a frame is written before the frame, and stays when the frame
  cannot be written (`xyuv_header_run.cpp:253`);
- what is lost when the last buffer of an output is flushed is lost without a word;
- an expression that overflows the parser's stack (depth 100, about as many nested prefixes)
  loses the token under way, records no error and goes on with an empty stack, so its
  rest may be accepted with a value of its own (`parser.cpp:715`);
- an unknown character ends the scan without an error and may leave no tree, which `evaluate`
  then dereferences (`minicalc.re`); the bare keyword `int` where a number may stand
  dereferences a null token;
- the token of a refused rule and the arguments of undeclared functions are never
  deleted; `OnlyKnownLeaks` is about the nodes and names the calls;
- the precedences of parentheses in `parser.ypp` name tokens that do not exist (`LPARENS`); a
  boolean at top level, `a && b && c` and conditions in arithmetic are syntax errors; `5(true)`
  is accepted;
- the addresses of a hex file are compared with the first one only, so an unsorted
  file is accepted and its bytes are appended where they do not belong
  (`hex_reader.cpp:122`); a blank line repeats the last word, a blank first line is undefined,
  words of more than 16 digits read beyond the number, and a colon in the middle of a
  line is the digit 0;
- `get_pixel`, and `to_yuv_image_444` of 16 bits, advance the channel twice and give
  the first two samples they find as red and blue (`libpng_wrapper.cpp:455`, `:463`, `:410`), though `libpng_wrapper.h:66`
  promises the colour at the coordinate; with 16 bits column x even gets samples 2x and 2x+1 of the line,
  that is, of another pixel. The model reads so (`TwoByTwo`, `GetPixel`), and `PicturesTravel` promises only
  `to_yuv_image_444` of 8 bits;
- `save_png_to_file` swallows every error (`libpng_wrapper.cpp:285`), and writes 16 bits
  in the host's byte order, which loading then turns around; `PicturesTravel` promises saves of 8 bits;
- a copy of an image that holds a narrower picture than it was made for is garbled, and
  so is one of a palette image of less than 8 bits, which gets part of the memory
  (`libpng_wrapper.cpp:102`; `PicturesTravel` promises copies of `WholeLines`, which are neither), and with three lines or more rows overlap that its memory does hold, so that
  not even pixels written into the copy stay what they were set to (`LinesApart`); when an allocation fails the half-made copy deletes the
  buffers of the original (`libpng_wrapper.cpp:104`).

**Bounds.** Frames of one to ten bytes, samples of one to three bits, images up to
5 lines: the smallest that have an odd number of interleaved lines, two blocks per
line and two block lines, groups of three samples over two planes, two mega blocks
side by side. Sizes for `create_format` run over all residues modulo the macro
pixels and blocks of the templates (1..4). `Word` is 1024 and `DWord` 2^20 there,
so that failed expressions (`DWord - 1`) wrap and nothing else does; 128 and 1024
for minicalc, whose arguments include both ends of the int; 2^16 for streams, where
nothing wraps except the 16-bit offset and the 8-bit plane count. Two frames in a
stream suffice: the reader keeps nothing but the object between frames. Two names,
two templates, two sitings and a matrix, and 37 trees of the configuration manager include every kind of file in
a first and a later folder, repeated loads, and additions before and after them. Of the
documents 34 fail, at least one at every check of the parsers; numbers are on both sides of
8 bits, and the mega blocks of 4x2 have swizzles of different lengths with an unused
place in them, so that turned ones differ.
Images to convert are 2x2 to 5x3, with the sitings 444, 420, 422, 411, 410, one with
points in different lines, and the two ill-placed ones: one and several macro pixels
per line, whole and cut ones, up- and down-scaling, absent channels. Two calls are
enough for every pair of conversions, the second on what the first left. Two programs
are run, for what the first leaves behind is all the second can meet; batches have
up to four inputs, so that one fails at the first, in the middle and at the last; sizes
of data are 2 to 12 bytes, on both sides of every frame's size and of a whole
word of a hex file; `Word` is 16 there, so that 4x4 wraps. Texts of expressions are all
sequences of 3 to 8 lexemes over alphabets chosen for precedence, conditions, calls,
scanner errors and recovery (a rule has at most eight symbols, and a recovery is over after
three shifted ones), with a stack of 7 so that it overflows, and whole expressions with
the stack's real depth. Buffers of hex files have up to 42 bytes, two lines and every
length of a third up to its last words; typed files three lines and five words.
PNG images are up to 2x2, which has a line and a row that are not the first, but for one
of 4 bits with three lines, the fewest that overlap in a copy, and
three calls are enough for a load, a picture written over it, and a copy or a
save.

**Fairness.** `PixelPacker` is a straight-line computation: weak fairness of `Next`.
`FrameStream` has it for the writer and for the reader separately: both are straight
code that never waits for one another except that a read blocks until its struct
has come or can no longer come, which is the reader's guard. `CalcSession` has it for
`Construction`, the whole constructor: a loop over the text on one thread.
`ConfigManager`, `CreateFormat`, `Conversion`, `Tools`, `HexFile` and `PngImage` are checked for safety only and assume none.

**Mutants.** Every property of a run that passes has a definition named for it in
the module it belongs to (`GetLineMutant`, `PutReplacesNames`, `SkipRest`, ...): a
plausible mistake in the code, under which the property fails. `PROJECT.json` lists
the pairs. No specification uses them.

## What is proved

`ConfigManagerProofs`, for every set of names, items and trees that satisfies
`ConfigAssumption` (the sentinel and the errors are not items, a siting's
subsampling is a subsampling, trees are trees):

- `TypeCorrect`: `Spec => []TypeOK`.
- `IndexAlwaysUsable`: `Spec => []IndexUsable`, of `IndexComplete` and `IndexNamesResolve`. The
  conjunction is inductive with `TypeOK`: `Put` is the only change to either side
  (lemma `OnlyPuts`), it stores before it indexes, and never removes
  (`PutKeepsIndex`).
- `NothingMissed`: `Spec => []CompleteLoadMissesNothing`. The property is not
  inductive: that nothing is missed when the last folder ends depends on what was
  done in every folder before. `LoadProgress` says it for each moment of a load:
  folders before the current one are done; of the current one every item is stored
  or still to do; nothing is complete while a load runs. `DoneStaysDone` and
  `UnderWayStays` carry the parts over a step that stores something, and
  `ProgressKept` has one case per action. TLC checked `LoadProgress` before.

`ConversionProofs`, for all sets of images and targets that satisfy
`ConversionAssumption` (sizes and macro pixels are positive, the points of a siting are pairs of
whole numbers, channels are channels, the markers differ), and for the last three
`PrecisionAssumption` as well (`ONE` can be cut into four once for each call: the model's
weights are whole numbers and have to stay exact where the code's are floats), without any
bound on sizes:

- `TypeCorrect`: `Spec => []TypeOK`, whose last conjunct is that an image's surfaces
  fit its size and siting.
- `PackerFindsItsSize`: `Spec => []SurfacesFitTarget`, for every number and order of
  conversions.
- `NothingFromOutside`: `Spec => OutsideOnlyWhenDoubling`. It is about exact quotients;
  it does not bound the rounding of floats.
- `ChromaStaysWithLuma`: `Spec => []ChromaFollowsLuma`, for any number of calls.
- `EveryValueIsAnAverage`: `Spec => []ValuesAreAverages`.
- `NothingIsLost`: `Spec => []FullResolutionKeepsAll`.
- `ChromaIsCentred`: `Spec => []SampledAtPoint`.

The first three follow from `Inv`: the image is `WellFormed`, and `StageInv` says what
`encode_frame` has achieved at each stage (from "siting" on the size is the target's; at
"pack" the siting is too, or both are 444, which differ only in points nobody
uses). Without `StageInv` the property at "pack" is not inductive. `MacroPixelInside`
and `NearestInside` bound the coordinates, `GetInside` turns bounded coordinates into
a pixel of the surface, and `UpSampleKeeps`, `DownSampleKeeps` and `ScaleKeeps`
say of each operation that it keeps an image well formed and where its pixels come
from.

For the fourth, `ChromaInv` adds what the property leaves open: as long as every image
returned was at full resolution, the image is either one at full resolution whose chroma
and luma have met in every pixel (`Aligned`), or still the original, for an original that is
subsampled has nothing aligned yet and `up_sample` must find each pixel's macro pixel
in it; or `encode_frame` has just sampled it down, and then the image it returns ends the
promise. `GetExact` says that an index leads to its own coordinates, so that up-sampling
takes macro pixel and down-sampling to another 444 siting the pixel itself
(`UpSampledAligned`, `DownSampledInPlace`); `GetAlike` that surfaces of one size
are read at one place or beyond both, which is all that scaling needs, also
where it reads outside (`ScaledAligned`); and what unpacking fills in is no source pixel
(`UnpackedValue`).

The last three are about sums over the pixels a value is made of (`MapThenSumSet`, a fold).
The library's induction over finite sets takes a predicate and cannot be used;
`SubsetInduction` takes the set of the subsets for which something is already known, and finds a smallest
one that is missing by `WFMin`. With it a sum becomes something that can be calculated with
(`Tally`, `SumIsLinear`: the sum of a blend is the blend of the sums).

- `AveragesInv`, for the fifth: after each call the weights of every value add up to `ONE`, and each is a
  multiple of 4 to the power of the calls that are left (`Parts`), so that the division
  in the next blend leaves no remainder. Up-sampling and scaling copy values, and
  `down_sample` takes, of well placed points, a mean of four pixels whose shares add up to one
  (`DownSampledIsMean`); this is where `WellPlaced` is needed.
- `KeptInv`, for the sixth: the image is what each image returned before promises, at every stage of
  `encode_frame` (`StillThere`, `Keeps`). `ThereAndBack` says that down-sampling gives back
  what was up-sampled from the same siting, also for macro pixels that are cut off at the edge, where the last
  line stands in for what is missing; `InItsMacroPixel` that the pixels read
  belong to the macro pixel.
- `SampledInv`, for the seventh: as long as all before it had full resolution and one size, an image is
  `Tracked`: at full resolution its values are the original's own pixels or made up, otherwise each is
  centred on its point, as the mean of the four pixels it was taken from (`MeanMoment`).
  It holds together with `KeptInv`, from which it is known which image the stages of `encode_frame` started from.

`LayoutProofs`, for every format whatever its size:

- `AcceptedFormatsAreSound`: if `validate_format` accepts a format, its image is a whole
  number of macro pixels and no product of the checks wraps (`Representable`), then every
  place the loops of `encode_channel` touch is inside its plane, and in planes that are
  apart no two places share a bit. The validator counts blocks, rounding down
  where the packer rounds up; the packer addresses lines, interleaved or from below. The
  argument follows a place down: lines are permuted (`GetLineInjective`) and lie side by side
  (`LinesApart`), blocks lie side by side in a line because the line check counted as
  many (`BlocksFit`), and samples are apart in a block because the sample check compared
  them. Whole macro pixels are needed: for cut ones it is false, as listed
  above. That blocks have no zero sizes and samples name planes there are
  (`WellFormedBlock`) is a premise: the validator divides and indexes by them.

`PixelPackerProofs`, for every set of formats whose images are whole blocks in every
channel, blocks whose samples end as many groups as they have pixels (`WholeBlocks`):

- `LoopsAndIteratorAgree`: `Spec => []IteratorInStep`. `StepInv` adds to the property that
  while a group is written the iterator is already at the next pixel of the channel, and
  where in a group the samples are. `GroupIsOnePixel` counts the ends of groups, `Corner`
  says that the last of them is the last pixel of the block, and `AdvanceKeepsStep`
  that the iterator, which looks at the surface's width, goes on to the next block, or
  line of blocks, just when the loops do, which look at the counts (`NextPosIs`).
- `NothingOutside`: `Spec => []InBounds`, if places are in their planes and reordering does not
  overrun its temporary (`Fits`). `BoundsInv` adds the sizes of the buffers.
- `NothingWrittenTwice`: `Spec => NoClobber`, if no two places share a bit. `PaintInv` says
  that a bit that is not poison belongs to a place the loops have passed, or to a later
  sample of the current group, which is written last to first; the place about to be
  written is neither (`FreshPlace`), and moving on passes the whole group
  (`GroupIsDone`).
- `AcceptedFormatsPack`: both hold of what the validator accepts, by
  `AcceptedFormatsAreSound`.
- `EveryPixelArrives`: `Spec => Transfer!Init /\ [][Transfer!Next]_(Transfer!vars)`, the
  safety of the refinement `ImplementsTransfer`, if moreover the planes with a block order consist of whole mega
  blocks that it permutes, and do not overlap one another (`Reorderable`). `DeliveryInv`
  follows the image through the frame: while packing, the places the loops have passed
  hold their pixels' bits and the value being shifted out is the rest of its pixel
  (`Packed`, `ValueIs`); between, the planes up to the current one are
  reordered and the others not (`PlanesReordered`); while unpacking, all of it is back in place
  (`AllPacked`) and the value being collected is the part of a pixel read so far.
  That an inverse undoes its transform rests on each copy going to a block
  of its own and the copies covering the plane, which `LayoutProofs` shows of whole mega blocks
  by taking numbers apart into digits (`TwoDigits`, `BlockOfCopy`, `Tiles`).
- `PaddingIsDeterministic`: `Spec => []PaddingDeterministic` under the same premises: the temporary
  that reordering leaves uninitialised is covered by the copies.
- `AcceptedFormatsArrive`: these two hold of what the validator accepts, given whole mega
  blocks and a permutation, which it checks only for some planes (see above).

All formats of the run `PixelPacker`, the two with mega blocks among them, satisfy the
premises of `EveryPixelArrives` and so of the first four; all but the one with overlapping planes
those of the theorems about accepted formats.

`CreateFormatProofs`, for all templates and sizes that satisfy `RequestAssumption` (no zeros
to divide by, samples name planes), and any meaning of expressions:

- `EarlierPlanesOnly`: `Spec => []OnlyEarlierPlanesVisible`, inductive once it is known
  that planes are only appended (`VisibleInv`).
- `ReturnedFormatsAreSound`: `Spec => []SoundForWholeMacroPixels`. `LayoutInv` says that
  each plane so far has numbers that make sense and, unless it wrapped, ends inside
  the frame, and that a valid outcome is what the validator says of the format there is;
  the rest is `AcceptedFormatsAreSound`.

Of the parser the same module proves, for all sessions, identifiers and literals that satisfy `LexemeAssumption`
(lexemes are strings, and each is a symbol, a number or a name, not two of these), texts of any
length and a stack of any depth:

- `DriverAssertionsHold`: `ParserSpec => []AssertionsHold`.
- `EveryObjectOwnedOnce`: `ParserSpec => []OwnedOnce`.
- `NothingElseForgotten`: `ParserSpec => []OnlyKnownLeaks`.

Every step of `CalcSession` is one of `ParserSpec` or leaves the parser alone. The invariant `ParserInv`
has four parts. `StackInv`: the stack is a path of the automaton, each state within the rules (`Within`)
that its symbol continues from the state below it. So a rule at its end lies on the stack as a whole
(`RuleOnTop`, which goes down the stack symbol by symbol), which is what makes popping its right-hand side safe after
any error, for errors and overflows leave the bottom of a path, or nothing. `HeldInv`: of stack entries, root and the token looked
at no two hold the same object, what they hold is alive, and terminals hold only tokens. A reduction
hands on the objects of the nonterminals and deletes those of terminals; `HandedOn` says that this keeps
holders apart. `CallInv`: where the stack is behind the parenthesis of a call the text has one. It needs to
know that no token is refused between a name and its parenthesis, so that the two are next to each
other in the text. `ForgetInv`: as long as no error was recorded, or the text has no call, every node has a
holder. What the tables and the rules are has no parameter; what the proofs take from them (`RulesFit`, `TablesFit`)
is evaluated by TLC in the run `CalcSession`, entry by entry. A crash at the keyword `int` keeps the
invariant.

`FrameStreamProofs`, for all scripts, preambles and hosts that satisfy `StreamAssumptions`: the layouts
written are layouts whose counts have room in the fields of the file (fewer than 256 planes and
2^16 samples, `CountsFit`), a plane without mega blocks has no masks that version 0 could lose, and a
preamble does not itself start like a frame. The lengths of the scripts, the number of planes, blocks and
samples, and where the writer fails are not bounded:

- `ReaderFollowsWriter`: `Spec => []StreamInv`. There is a history: for each frame begun, the call,
  the structs it lays out, where they start in the stream and which version the headers show. The writer
  is between two frames, within the last, or broken off in it (`WriterAt`); whatever
  arrived in one piece is what was laid out (`Tells`); and the reader is at the
  struct of the first frame not yet returned that its own counters say, with an object that has just
  the fields of the structs before it (`AtPlane`, `AtBlock`, `AtSample`, ...). Reader and
  writer share nothing but the stream, so each step of the one has to leave the place of the other
  intact (`StillTells`, `WriterStays`). A stream that starts with
  something else is `Lost`: the reader stops at its first struct.
- `NothingGarbled`: `Spec => []ReaderInStep`, if the writing hosts are little-endian or nothing is
  written in version 0 (`NoVersion0`); without this it is false, as listed above.
- `OnlySentIsReceived`: `Spec => []ReceivedInOrder`.
- `ReturnedFramesReadable`: `Spec => []ReturnedAreReadable`, whatever layouts `write_frame` is given, as long as the
  validator can be run on them at all (`CheckableCalls`: they are layouts, with numbers where numbers belong).
  `read_frame` validates the layout before it returns the frame, and `AcceptedFormatsAreSound` says
  what that is worth: the premises of the property (whole macro pixels, planes inside the frame, numbers that do not
  wrap) are those the validator does not see to; the run returns a frame of cut macro pixels and one whose planes
  meet, which would violate the property without them.
- `StreamIsQueue`: `Spec => Fifo!Init /\ [][Fifo!Next]_(Fifo!vars)`: a `write_frame` that returns is a
  put and a `read_frame` that returns a get, of the frame at the head; every other step leaves the queue alone.

The scripts and preambles of both passing runs satisfy `StreamAssumptions` and `CheckableCalls`.

`PngImageProofs`, for all sets of objects and any number of calls and buffers
that satisfy `PngAssumption`, and for the second theorem `LevelsAssumption` (pictures have
four levels per pixel, files the bytes of four samples):

- `EveryBufferOwned`: `Spec => []BuffersOwned`. The invariant `OwnershipInv` says besides
  which step of which call has opened the file, made libpng's structs or allocated
  the half-built image (`Progress`), that every owner's buffers are alive, and that
  no buffer has two owners (`Sound`). `FreshIsNew` finds an unused buffer by
  counting; `ReplaceKeeps`, `AdoptKeeps` and `MoveKeeps` carry ownership over a destructor
  run for the old buffers, over a finished load and over a move. States after a copy
  that ran out of memory are excluded, as in the property.
- `EveryPictureTravels`: `Spec => PicturesTravel`. `PicturesInv` adds to the ownership that
  every object's row pointers are offsets, that every file has the samples its header
  promises, and how far a load has come: its rows lie one behind the other in its image
  (`Plain`) before the pixels are read, and they are the file's afterwards. The steps
  rest on what memory shows (`SameBuffers`: only its own buffers matter to an object;
  `OneChanges`: so a call changes what one object shows) and on what
  writing samples does (`SamplesApart`, `PaintedBytes`: if no two lines share a byte, no two samples
  do, and then the memory shows what was written). This is where `LinesApart` came
  from: the property used to promise it for every image, TLC had seen only two lines, and the proof
  asked for a third. What the property leaves out is left out of the theorem: copies that are not of
  `WholeLines`, and answers and saves of 16 bits.

`ToolsProofs`, for all files, formats and command lines that satisfy three assumptions. `ToolsAssumption`:
names are lists, and the description of an output of `xyuv-header` is no input of the same call.
`DescriptionsAssumption`: nor is it another output; the code checks neither. `FilesAssumption`: frames and
data are what they are in the model, with sizes that are numbers, and a frame has as
many bytes as its format says. Batches may have any length:

- `OnlyOutputs`: `Spec => []OnlyOutputsChange`. `ScopeInv` says which files can have changed
  by the time the arguments are checked, the concatenation is opened, and input
  number `file` is handled.
- `WrittenIsReadable`: `Spec => []WrittenCanBeLoaded`. `FineInv` says that all files ever consist
  of items that are what they should be, what `CheckArguments` has found out by the time a file is loaded,
  and that the frame under way is one that loading returns: what is in a file after writing
  is then known to be read as this frame (`WrittenLoads`), to the last field from data and hex files
  and, from an `.xyuv` file, with the siting the file has of it (`AsKept`).
- `BatchIsOneByOne`: `Spec => []OutputsMatchInputs`. `BatchInv` says what the property
  says of a batch that ended for one that is under way: the outputs before the current one
  are `Settled`, those after it untouched, and the frame is what the input alone would give
  (`Alone`). The names are different, which `CheckArguments` made sure of.
- `ConcatenationAppends`: `Spec => []CatAppends`. `CatInv`: while the stream is good
  the file is what it was with the frames so far behind it (`Grown`); afterwards some
  of these remain, in order, and nothing follows the first that is not whole (`Remains`).

And for all buffers and typed lines that satisfy `HexFileAssumption` (buffers are of bytes; a word has a value, at least
one digit and perhaps a colon), whatever their lengths:

- `WrittenLoadsAgainCorrect`: `HexSpec => []WrittenLoadsAgain`. `WrittenInv` says that each line of the file
  so far is the buffer's (`FileWritten`, `LineMade`), and that the data loaded are the words passed (`WordsPassed`), of which
  `BufferWord` and `BytesOfBytes` say that their bytes are the buffer's again.
- `BytesInPlaceCorrect`: `HexSpec => []BytesInPlace`. `TypedInv` says, of a sorted file, that the words passed
  are in place, that everything else is zero and that loading ends early only at
  an address that comes twice (`SoFar`).
- `ProgramsAndHexFilesAgree`: for any buffer, what `Tools` takes a hex file's content for is what
  loading makes of what was written (`HexDataAsWritten`).

What words and lines have in them are functions of numbers, for which `Climb` and `Recursion` give
their equations: the library's induction takes a predicate, so `Climb` finds by `WFMin` the smallest number that is missing in
a set.

TLC checked the invariants `OwnershipInv`, `PicturesInv`, `ScopeInv`, `LayoutInv`, `PaintInv`, `ChromaInv`,
`AveragesInv`, `KeptInv`, `SampledInv`, `WrittenInv`, `TypedInv`, `StackInv`, `HeldInv`, `CallInv` and `ForgetInv` on the runs' instances as well.

**Only model-checked**, and why:

- liveness, and with it the fairness conjuncts of `ImplementsTransfer` and of `FrameFifo`: fairness and
  ENABLED are beyond the prover;
- that a text is parsed as it is written and evaluated as arithmetic says (`ParsedAsWritten`, `AgreesWithArithmetic`): what a text
  means, and evaluating a tree, are recursive operators on data;
- `TemplatesMeanTheirFiles` of `Configurations`: it compares two translations of a document,
  and the proof would be both of them written again; where blocks go is an exclusive or, a
  recursive operator of `Bitwise`.

## What is not modelled

rapidjson turns text into values, and `format_to_json` a format into text, without a
decision of its own. Colour conversion is a matrix
product per pixel. The ImageMagick adapter copies into an image whose memory is
ImageMagick's; what libpng does to samples is modelled from how the code uses it. The
comparison operators are single expressions. Options are parsed by
getopt, and the console helpers wrap help texts. A sample whose plane number names no
plane ends loading a template as `undefined`; in a file's format, like a channel block
whose last sample announces a continuation, it makes the code read outside its vectors
and is not among the inputs. Chunks larger than a `streamsize` cannot be reached on any machine.

Nine tenths of the lines under `src/` are other projects' code: gtest, rapidjson, lemon,
makeheaders. The library and its programs are some 8300 lines with their headers, and that
is what a share of modelled lines should be read against. `parser.cpp` is generated by lemon and is
modelled all the same, for what the tables do is what the program does.

## Plan

`Configurations` composed with `CreateFormat`: the templates it loads as the requests there, with
expressions as texts for `CalcSession`; and `format_to_json`.
