------------------------------ MODULE PngImage ------------------------------
(***************************************************************************)
(* Objects of class libpng_wrapper: images that are created, loaded from   *)
(* and saved to PNG files, copied, moved, and filled from and turned into  *)
(* YUV images.  Loading and saving are the steps between which libpng or   *)
(* the memory allocator may give up, by a longjmp or an exception.         *)
(*                                                                         *)
(* Each object has its struct, its row pointers and its pixels in memory   *)
(* of its own.  A colour is four levels, and a yuv image is the colours    *)
(* that its own convert to.  A sample of 8 bits is one byte, its level; of *)
(* 16 bits it is two, the low byte 100 + level and the high byte level or, *)
(* for level 0, two zeros, in the order of the host in memory and high     *)
(* byte first in a file.                                                   *)
(***************************************************************************)
EXTENDS Integers, Sequences, FiniteSets

CONSTANTS
  Objects,      \* variables of the class
  Names,        \* file names
  InitialFiles, \* what the files hold at first: NoFile, Other (no PNG) or
                \* [w, h, bit_depth, px]
  Pictures,     \* yuv images: [w, h, px]
  Colors,       \* what pixels are set to
  MaxCalls      \* how many calls the program makes

ASSUME PngAssumption ==
  /\ \A picture \in Pictures : picture.w \in Nat /\ picture.h \in Nat
  /\ \A contents \in InitialFiles :
       /\ DOMAIN contents = Names
       /\ \A f \in Names : contents[f].w \in Nat /\ contents[f].h \in Nat /\ contents[f].bit_depth \in Int

VARIABLES
  data,     \* what each object's pointer points to, or NoData
  heap,     \* what is allocated: identifiers to contents
  files,
  pc,       \* "idle", or where in a load or save the program is
  object, name,   \* the arguments of that call
  fp,       \* is its file open?
  structs,  \* do the structs of libpng exist?
  internal, \* what its local pointer points to
  answer,   \* the picture or pixel that was read last
  done,     \* the last call that has ended
  calls,
  poisoned  \* has memory been used that was freed or never was the object's?

locals == <<pc, object, name, fp, structs, internal>>
vars == <<data, heap, files, locals, answer, done, calls, poisoned>>

NoData == [self |-> 0, rows |-> 0, image |-> 0, width |-> 0, height |-> 0, bit_depth |-> 0]
NoPicture == [w |-> 0, h |-> 0, px |-> <<>>]
NoFile == [w |-> 0, h |-> 0, bit_depth |-> 0, px |-> <<>>]
Other  == [w |-> 0, h |-> 0, bit_depth |-> -1, px |-> <<>>]
Garbled == -1

channels == 4
SampleBytes(bit_depth) == IF bit_depth = 16 THEN 2 ELSE 1
(* The bytes of a line as the class computes them: of fewer bits than are  *)
(* in memory if the file had fewer.                                        *)
row_bytes(d) == (channels * d.width * d.bit_depth) \div 8

Places(w, h) == (0 .. w - 1) \X (0 .. h - 1)
InMemory(level, bit_depth) ==
  CASE bit_depth = 16 /\ level = 0 -> <<0, 0>>
    [] bit_depth = 16 /\ level # 0 -> <<100 + level, level>>
    [] OTHER -> <<level>>
FromMemory(bytes) ==
  CASE Len(bytes) = 1 -> bytes[1]
    [] Len(bytes) = 2 /\ bytes = InMemory(bytes[2], 16) -> bytes[2]
    [] OTHER -> Garbled
Swapped(bytes) == IF Len(bytes) = 2 THEN <<bytes[2], bytes[1]>> ELSE bytes

(* The bytes of a sample of pixel <<x, y>>, by way of the row pointers.    *)
Row(d, y) == heap[d.rows][y + 1]
Offset(d, p, c) == Row(d, p[2]).offset + (p[1] * channels + c - 1) * SampleBytes(d.bit_depth)
Sample(d, p, c) == [k \in 1 .. SampleBytes(d.bit_depth) |-> heap[Row(d, p[2]).image][Offset(d, p, c) + k - 1]]

(* Does an object's own memory hold all of its rows?                       *)
RowsInImage(d) ==
  /\ d.height <= Len(heap[d.rows])
  /\ \A y \in 0 .. d.height - 1 :
       /\ Row(d, y).image = d.image
       /\ \A i \in 0 .. d.width * channels * SampleBytes(d.bit_depth) - 1 : Row(d, y).offset + i \in DOMAIN heap[d.image]
Usable(o) == data[o] # NoData /\ RowsInImage(data[o])

Shown(o) ==
  IF data[o] = NoData THEN NoPicture
  ELSE LET d == data[o]
       IN  [w |-> d.width, h |-> d.height,
            px |-> [p \in Places(d.width, d.height) |-> [c \in 1 .. channels |-> FromMemory(Sample(d, p, c))]]]

-----------------------------------------------------------------------------
(* Memory.                                                                 *)

Fresh(used) == CHOOSE i \in 1 .. Cardinality(used) + 1 : i \notin used
With(h, i, content) == [j \in DOMAIN h \cup {i} |-> IF j = i THEN content ELSE h[j]]
Without(h, ids) == [j \in DOMAIN h \ ids |-> h[j]]

(* destroy_internal_data: what is deleted along with a struct.             *)
OwnedButRows(d) == {d.self, d.image} \ {0}
Owned(d) == {d.self, d.rows, d.image} \ {0}

(* The three allocations of a new object, with contents.                   *)
Struct(h) == Fresh(DOMAIN h)
RowsIn(h) == Fresh(DOMAIN h \cup {Struct(h)})
ImageIn(h) == Fresh(DOMAIN h \cup {Struct(h), RowsIn(h)})
New(h, w, hgt, depth) ==
  [self |-> Struct(h), rows |-> RowsIn(h), image |-> ImageIn(h), width |-> w, height |-> hgt, bit_depth |-> depth]
Pointers(image, hgt, bytes) == [y \in 1 .. hgt |-> [image |-> image, offset |-> (y - 1) * bytes]]
Allocated(h, d, pointers, content) ==
  With(With(With(h, d.self, <<>>), d.rows, pointers), d.image, content)

Zeros(n) == [i \in 0 .. n - 1 |-> 0]

(* An image with the samples of some pixels written over it.               *)
Painted(content, d, pointers, px) ==
  LET At(p, c) == pointers[p[2] + 1].offset + (p[1] * channels + c - 1) * SampleBytes(d.bit_depth)
      Of(i) == {q \in (DOMAIN px) \X (1 .. channels) : i - At(q[1], q[2]) \in 0 .. SampleBytes(d.bit_depth) - 1}
  IN  [i \in DOMAIN content |->
         IF Of(i) = {} THEN content[i]
         ELSE LET q == CHOOSE q \in Of(i) : TRUE
              IN  px[q[1]][q[2]][i - At(q[1], q[2]) + 1]]
Samples(px, bit_depth) == [p \in DOMAIN px |-> [c \in 1 .. channels |-> InMemory(px[p][c], bit_depth)]]

(* Pictures and colours consist of levels, files of the bytes of samples.  *)
ASSUME LevelsAssumption ==
  /\ \A picture \in Pictures :
       picture \in [w : Nat, h : Nat, px : [Places(picture.w, picture.h) -> [1 .. channels -> Nat]]]
  /\ Colors \subseteq [1 .. channels -> Nat]
  /\ \A contents \in InitialFiles, f \in Names :
       contents[f].px \in [Places(contents[f].w, contents[f].h) ->
                             [1 .. channels -> [1 .. SampleBytes(contents[f].bit_depth) -> Nat]]]

Init ==
  /\ data = [o \in Objects |-> NoData]
  /\ heap = <<>>
  /\ files \in InitialFiles
  /\ pc = "idle" /\ object \in Objects /\ name \in Names
  /\ fp = FALSE /\ structs = FALSE /\ internal = NoData
  /\ answer = NoPicture
  /\ done = [op |-> "none"]
  /\ calls = 0
  /\ poisoned = FALSE

Ready == pc = "idle" /\ calls < MaxCalls /\ ~ poisoned
Ended(call) == done' = call /\ calls' = calls + 1
AtOnce == Ready /\ UNCHANGED <<files, locals>>

-----------------------------------------------------------------------------
(* Calls that are one step.  A call that runs out of memory gives back     *)
(* what it has and throws.                                                 *)

Create(o, w, h, bits) ==
  LET d == New(heap, w, h, bits)
      pointers == Pointers(d.image, h, row_bytes(d))
  IN  /\ AtOnce
      /\ heap' = Without(Allocated(heap, d, pointers, Zeros(row_bytes(d) * h)), Owned(data[o]))
      /\ data' = [data EXCEPT ![o] = d]
      /\ Ended([op |-> "create", to |-> o])
      /\ UNCHANGED <<answer, poisoned>>

CopiedPointersShared(d, other) == heap[other.rows]
CopiedPointers(d, other) == Pointers(d.image, d.height, row_bytes(d))

(* Assignment of a copy.                                                   *)
Copy(o, from) ==
  LET other == data[from]
      d == New(heap, other.width, other.height, other.bit_depth)
  IN  /\ AtOnce
      /\ IF other = NoData
         THEN /\ heap' = Without(heap, Owned(data[o]))
              /\ data' = [data EXCEPT ![o] = NoData]
         ELSE /\ heap' = Without(Allocated(heap, d, CopiedPointers(d, other),
                                           [i \in 0 .. row_bytes(d) * d.height - 1 |-> heap[other.image][i]]),
                                 Owned(data[o]))
              /\ data' = [data EXCEPT ![o] = d]
      /\ Ended([op |-> "copy", to |-> o, from |-> from])
      /\ UNCHANGED <<answer, poisoned>>

(* Out of memory.  Once the struct is a copy of the other's, what it does  *)
(* not yet have of its own is deleted from under the other.                *)
CopyRunsOut(o, from) ==
  /\ AtOnce
  /\ data[from] # NoData
  /\ \E lost \in {{}, {data[from].rows}, {data[from].rows, data[from].image}} :
       heap' = Without(heap, lost) /\ poisoned' = (lost # {})
  /\ Ended([op |-> "copy failed", to |-> o])
  /\ UNCHANGED <<data, answer>>

Move(o, from) ==
  /\ AtOnce
  /\ data' = [data EXCEPT ![o] = data[from], ![from] = data[o]]
  /\ Ended([op |-> "move", to |-> o, from |-> from])
  /\ UNCHANGED <<heap, answer, poisoned>>

(* A smaller picture is written into the image there is, whose rows stay   *)
(* where they are.                                                         *)
Fits(d, picture) == d # NoData /\ picture.h <= d.height /\ picture.w <= d.width
FromYuv(o, picture) ==
  LET depth == IF data[o].bit_depth = 16 THEN 16 ELSE 8
      fits == Fits(data[o], picture)
      d == IF fits THEN [data[o] EXCEPT !.width = picture.w, !.height = picture.h]
           ELSE New(heap, picture.w, picture.h, depth)
      pointers == IF fits THEN heap[d.rows] ELSE Pointers(d.image, d.height, row_bytes(d))
      before == IF fits THEN heap[d.image] ELSE Zeros(row_bytes(d) * d.height)
  IN  /\ AtOnce
      /\ IF fits /\ ~ RowsInImage(d)
         THEN poisoned' = TRUE /\ UNCHANGED <<data, heap>>
         ELSE /\ heap' = LET all == Allocated(heap, d, pointers, Painted(before, d, pointers, Samples(picture.px, d.bit_depth)))
                         IN  IF fits THEN all ELSE Without(all, Owned(data[o]))
              /\ data' = [data EXCEPT ![o] = d]
              /\ UNCHANGED poisoned
      /\ Ended([op |-> "from yuv", to |-> o, picture |-> picture])
      /\ UNCHANGED answer

(* A loop over the channels that advances twice takes two samples, as the  *)
(* first and the third of a pixel; the others keep their 0.  Read so with  *)
(* 16 bits, column x has samples 2x and 2x + 1 of its line.                *)
EveryOther(first, second) == <<first, 0, second, 0>>
SampleOfLine(px, y, j) == px[<<j \div channels, y>>][(j % channels) + 1]
TwoByTwo(px) ==
  [p \in DOMAIN px |-> EveryOther(SampleOfLine(px, p[2], 2 * p[1]), SampleOfLine(px, p[2], 2 * p[1] + 1))]

(* A depth of less than 8 bits is an assertion, no image an exception.     *)
ToYuv(o) ==
  /\ AtOnce
  /\ data[o].bit_depth \in {8, 16}
  /\ IF ~ RowsInImage(data[o]) THEN poisoned' = TRUE /\ UNCHANGED answer
     ELSE /\ answer' = IF data[o].bit_depth = 8 THEN Shown(o)
                       ELSE [Shown(o) EXCEPT !.px = TwoByTwo(@)]
          /\ UNCHANGED poisoned
  /\ Ended([op |-> "to yuv", from |-> o])
  /\ UNCHANGED <<data, heap>>

(* One pixel, read two by two whatever its depth.                          *)
OnePixel(color) == [w |-> 1, h |-> 1, px |-> [q \in {<<0, 0>>} |-> color]]
GetPixel(o, p) ==
  /\ AtOnce
  /\ data[o] # NoData /\ p \in Places(data[o].width, data[o].height)
  /\ IF ~ RowsInImage(data[o]) THEN poisoned' = TRUE /\ UNCHANGED answer
     ELSE /\ answer' = OnePixel(EveryOther(Shown(o).px[p][1], Shown(o).px[p][2]))
          /\ UNCHANGED poisoned
  /\ Ended([op |-> "get pixel", from |-> o, at |-> p])
  /\ UNCHANGED <<data, heap>>

SetPixel(o, p, color) ==
  LET d == data[o]
  IN  /\ AtOnce
      /\ d # NoData /\ p \in Places(d.width, d.height)
      /\ IF ~ RowsInImage(d) THEN poisoned' = TRUE /\ UNCHANGED heap
         ELSE /\ heap' = [heap EXCEPT ![d.image] =
                            Painted(@, d, heap[d.rows], Samples([q \in {p} |-> color], d.bit_depth))]
              /\ UNCHANGED poisoned
      /\ Ended([op |-> "set pixel", to |-> o, at |-> p, color |-> color])
      /\ UNCHANGED <<data, answer>>

-----------------------------------------------------------------------------
(* load_png_from_file.  Whatever is thrown goes to the catch block.        *)

Goto(label) == pc' = label
Within == UNCHANGED <<data, files, object, name, answer, done, calls, poisoned>>

StartLoad(o, f) ==
  /\ Ready
  /\ Goto("load open") /\ object' = o /\ name' = f
  /\ UNCHANGED <<data, heap, files, fp, structs, internal, answer, done, calls, poisoned>>

LoadOpen ==
  /\ pc = "load open"
  /\ \/ files[name] = NoFile /\ Goto("load catch") /\ UNCHANGED fp
     \/ files[name] # NoFile /\ Goto("load structs") /\ fp' = TRUE
  /\ Within /\ UNCHANGED <<heap, structs, internal>>

LoadStructs ==
  /\ pc = "load structs"
  /\ \/ Goto("load catch") /\ UNCHANGED <<heap, structs, internal>>
     \/ /\ files[name] # Other
        /\ internal' = [NoData EXCEPT !.self = Fresh(DOMAIN heap)]
        /\ heap' = With(heap, internal'.self, <<>>)
        /\ structs' \in BOOLEAN
        /\ (Goto("load catch") \/ (structs' /\ Goto("load info")))
  /\ Within /\ UNCHANGED fp

LoadInfo ==
  /\ pc = "load info"
  /\ \/ Goto("load catch") /\ UNCHANGED <<heap, internal>>
     \/ LET png == files[name]
            rows == Fresh(DOMAIN heap)
        IN  /\ internal' = [internal EXCEPT !.rows = rows, !.width = png.w, !.height = png.h, !.bit_depth = png.bit_depth]
            /\ heap' = With(heap, rows, <<>>)
            /\ Goto("load image")
  /\ Within /\ UNCHANGED <<fp, structs>>

(* libpng tells the length of a line, in the depth it has in memory.       *)
LoadImage ==
  /\ pc = "load image"
  /\ \/ Goto("load catch") /\ UNCHANGED <<heap, internal>>
     \/ LET image == Fresh(DOMAIN heap)
            bytes == channels * internal.width * SampleBytes(internal.bit_depth)
        IN  /\ internal' = [internal EXCEPT !.image = image]
            /\ heap' = With(With(heap, image, Zeros(bytes * internal.height)),
                            internal.rows, Pointers(image, internal.height, bytes))
            /\ Goto("load pixels")
  /\ Within /\ UNCHANGED <<fp, structs>>

(* png_set_swap turns samples of 16 bits around.                           *)
LoadPixels ==
  /\ pc = "load pixels"
  /\ \/ Goto("load catch") /\ UNCHANGED <<heap, fp>>
     \/ LET px == [p \in DOMAIN files[name].px |-> [c \in 1 .. channels |-> Swapped(files[name].px[p][c])]]
        IN  /\ heap' = With(heap, internal.image,
                            Painted(heap[internal.image], internal, heap[internal.rows], px))
            /\ fp' = FALSE
            /\ Goto("load swap")
  /\ Within /\ UNCHANGED <<structs, internal>>

LoadSwap ==
  /\ pc = "load swap"
  /\ heap' = Without(heap, Owned(data[object]))
  /\ data' = [data EXCEPT ![object] = internal]
  /\ internal' = NoData
  /\ structs' = FALSE
  /\ Goto("idle")
  /\ Ended([op |-> "load", to |-> object, file |-> name])
  /\ UNCHANGED <<files, object, name, fp, answer, poisoned>>

LoadCatch ==
  /\ pc = "load catch"
  /\ heap' = Without(heap, Owned(internal))
  /\ internal' = NoData
  /\ structs' = FALSE
  /\ fp' = FALSE
  /\ Goto("idle")
  /\ Ended([op |-> "load failed", to |-> object])
  /\ UNCHANGED <<data, files, object, name, answer, poisoned>>

-----------------------------------------------------------------------------
(* save_png_to_file.  Nothing is thrown out of it.                         *)

StartSave(o, f) ==
  /\ Ready
  /\ data[o] # NoData
  /\ Goto("save open") /\ object' = o /\ name' = f
  /\ UNCHANGED <<data, heap, files, fp, structs, internal, answer, done, calls, poisoned>>

SaveOpen ==
  /\ pc = "save open"
  /\ \/ Goto("save catch") /\ UNCHANGED <<files, fp>>
     \/ Goto("save structs") /\ fp' = TRUE /\ files' = [files EXCEPT ![name] = Other]
  /\ UNCHANGED <<data, heap, object, name, structs, internal, answer, done, calls, poisoned>>

SaveStructs ==
  /\ pc = "save structs"
  /\ structs' \in BOOLEAN
  /\ (Goto("save catch") \/ (structs' /\ Goto("save image")))
  /\ Within /\ UNCHANGED <<heap, fp, internal>>

(* An RGBA image has 8 or 16 bits.  The samples go to the file in the      *)
(* order of the memory.                                                    *)
SaveImage ==
  LET d == data[object]
  IN  /\ pc = "save image"
      /\ \/ Goto("save catch") /\ UNCHANGED <<files, fp, structs, done, calls, poisoned>>
         \/ /\ d.bit_depth \in {8, 16}
            /\ IF RowsInImage(d)
               THEN /\ files' = [files EXCEPT ![name] = [w |-> d.width, h |-> d.height, bit_depth |-> d.bit_depth,
                        px |-> [p \in Places(d.width, d.height) |-> [c \in 1 .. channels |-> Sample(d, p, c)]]]]
                    /\ UNCHANGED poisoned
               ELSE poisoned' = TRUE /\ UNCHANGED files
            /\ structs' = FALSE /\ fp' = FALSE
            /\ Goto("idle")
            /\ Ended([op |-> "save", from |-> object, file |-> name])
      /\ UNCHANGED <<data, heap, object, name, internal, answer>>

SaveCatch ==
  /\ pc = "save catch"
  /\ structs' = FALSE
  /\ fp' = FALSE
  /\ Goto("idle")
  /\ Ended([op |-> "save failed"])
  /\ UNCHANGED <<data, heap, files, object, name, internal, answer, poisoned>>

-----------------------------------------------------------------------------
Stopped == pc = "idle" /\ (calls = MaxCalls \/ poisoned) /\ UNCHANGED vars

Next ==
  \/ \E o \in Objects :
       \/ \E picture \in Pictures : Create(o, picture.w, picture.h, 8) \/ Create(o, picture.w, picture.h, 16)
       \/ \E from \in Objects : Copy(o, from) \/ CopyRunsOut(o, from) \/ Move(o, from)
       \/ \E picture \in Pictures : FromYuv(o, picture)
       \/ ToYuv(o)
       \/ \E p \in Places(data[o].width, data[o].height) : GetPixel(o, p)
       \/ \E p \in Places(data[o].width, data[o].height), color \in Colors : SetPixel(o, p, color)
       \/ \E f \in Names : StartLoad(o, f) \/ StartSave(o, f)
  \/ LoadOpen \/ LoadStructs \/ LoadInfo \/ LoadImage \/ LoadPixels \/ LoadSwap \/ LoadCatch
  \/ SaveOpen \/ SaveStructs \/ SaveImage \/ SaveCatch
  \/ Stopped

Spec == Init /\ [][Next]_vars

-----------------------------------------------------------------------------
(* Every allocation belongs to exactly one object or to the load under     *)
(* way, and between two calls no file is open and nothing of libpng is     *)
(* left, whichever step failed in whichever call: nothing leaks, and no    *)
(* destructor deletes what another object uses.  (Unless copying ran out   *)
(* of memory.)                                                             *)
Buffers(d) == {d.self, d.rows, d.image} \ {0}
Distinct(d) ==
  /\ d.self = 0 => d = NoData
  /\ d.self # d.rows \/ d.self = 0
  /\ d.self # d.image \/ d.self = 0
  /\ d.rows # d.image \/ d.rows = 0
NothingLeaks == DOMAIN heap = (UNION {Buffers(data[o]) : o \in Objects}) \cup Buffers(internal)
NothingShared ==
  /\ \A o \in Objects : Distinct(data[o]) /\ Buffers(data[o]) \cap Buffers(internal) = {}
  /\ \A o, p \in Objects : o # p => Buffers(data[o]) \cap Buffers(data[p]) = {}
  /\ Distinct(internal)
NothingLeftOpen == pc = "idle" => ~ fp /\ ~ structs /\ internal = NoData
BuffersOwned == ~ poisoned => NothingLeaks /\ NothingShared /\ NothingLeftOpen

(* What each call promises about what the objects show.                    *)
FilePicture(f) ==
  [w |-> files[f].w, h |-> files[f].h,
   px |-> [p \in DOMAIN files[f].px |-> [c \in 1 .. channels |-> FromMemory(Swapped(files[f].px[p][c]))]]]
(* Lines are where memcpy takes them from: not so after a narrower image   *)
(* was written over a wider one, or with less than 8 bits.                 *)
WholeLines(d) ==
  /\ row_bytes(d) = channels * d.width * SampleBytes(d.bit_depth)
  /\ \A y \in 0 .. d.height - 1 : Row(d, y).offset = y * row_bytes(d)
(* No two lines share a byte: they do in the copy of an image of less than *)
(* 8 bits, whose lines are moved together.                                 *)
LinesApart(d) ==
  \A y, z \in 0 .. d.height - 1 :
    y < z => Row(d, y).offset + channels * d.width * SampleBytes(d.bit_depth) <= Row(d, z).offset

Changes(call) ==
  CASE call.op = "move" -> {call.to, call.from}
    [] call.op \in {"create", "copy", "from yuv", "set pixel", "load"} -> {call.to}
    [] OTHER -> {}
Keeps(o, before) == Usable(o)' /\ Shown(o)' = before
Promised(call) ==
  CASE call.op = "copy" /\ Usable(call.from) /\ WholeLines(data[call.from]) -> Keeps(call.to, Shown(call.from))
    [] call.op = "move" -> /\ Usable(call.from) => Keeps(call.to, Shown(call.from))
                           /\ Usable(call.to) => Keeps(call.from, Shown(call.to))
    [] call.op = "load" -> Keeps(call.to, FilePicture(call.file))
    [] call.op = "from yuv" /\ LinesApart(data[call.to])' -> Keeps(call.to, call.picture)
    [] call.op = "set pixel" /\ LinesApart(data[call.to]) -> Keeps(call.to, [Shown(call.to) EXCEPT !.px[call.at] = call.color])
    [] call.op = "to yuv" /\ data[call.from].bit_depth = 8 -> answer' = Shown(call.from)
    [] call.op = "save" /\ data[call.from].bit_depth = 8 -> FilePicture(call.file)' = Shown(call.from)
    [] OTHER -> TRUE

(* An object shows what was moved, loaded or written into it: also when it *)
(* has 16 bits or takes a smaller picture, unless its lines share memory.  *)
(* It shows what it was copied from if that one's lines lie where memcpy   *)
(* expects them (not those of a palette, nor of a narrowed image), and an  *)
(* object of 8 bits is turned into YUV and saved as it shows.  A call      *)
(* changes no other object, and one that fails changes none.  Left out     *)
(* are the other copies, which the code garbles; reading 16 bits and       *)
(* getting a pixel, which take every other sample; and saving 16 bits,     *)
(* which turns their bytes around.                                         *)
Travels ==
  ~ poisoned' =>
    /\ \A o \in Objects \ (IF calls' = calls THEN {} ELSE Changes(done')) :
         Usable(o) => Keeps(o, Shown(o))
    /\ \A call \in {done'} : calls' # calls => Promised(call)
PicturesTravel == [][Travels]_vars

=============================================================================
