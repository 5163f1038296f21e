------------------------------- MODULE HexFile ------------------------------
(***************************************************************************)
(* Hex files: lines of an optional address and words of hexadecimal        *)
(* digits.  One is written by WriteHexFile or typed by somebody, and then  *)
(* loaded by LoadHexFile.                                                  *)
(*                                                                         *)
(* A word is [value, size, colon]: its digits as a number, how many        *)
(* characters it has, and whether the last one is a colon.                 *)
(***************************************************************************)
EXTENDS Integers, Sequences

CONSTANTS
  Buffers,    \* what may be written
  Words,      \* what may be typed
  MaxWords,   \* how many words somebody types at most
  MaxLines    \* and how many lines

(* Buffers are made of bytes, and words have at least one character.       *)
ASSUME HexFileAssumption ==
  /\ Buffers \subseteq Seq(0 .. 255)
  /\ Words \subseteq [value : Nat, size : Nat \ {0}, colon : BOOLEAN]

VARIABLES
  hex_file,          \* the lines, each a sequence of words
  written,           \* the buffer the file was written from, Typed if it was not
  bytes_written,
  phase,             \* "write", "type", "load", "loaded", "aborted" or "undefined"
  line, place,       \* the line being loaded, and how many of its words are done
  word,              \* what the variable holds, NoWord at first
  starting_address,
  current_offset,
  data               \* what has been loaded

loader_vars == <<line, place, word, starting_address, current_offset, data>>
hex_vars == <<hex_file, written, bytes_written, phase, loader_vars>>

Typed == <<-1>>
NoWord == [value |-> 0, size |-> 0, colon |-> FALSE]

sizeof_uint32_t == 4
words_per_line == 4
bytes_per_line == sizeof_uint32_t * words_per_line

(* The low bytes of a number, in little endian order, and back.            *)
Bytes(value, n) ==
  LET rest[i \in 1 .. n] == IF i = 1 THEN value ELSE rest[i - 1] \div 256
  IN  [i \in 1 .. n |-> rest[i] % 256]
FromBytes(bytes) ==
  LET number[i \in 0 .. Len(bytes)] ==
        IF i = 0 THEN 0 ELSE 256 * number[i - 1] + bytes[Len(bytes) - i + 1]
  IN  number[Len(bytes)]
Zeros(n) == [i \in 1 .. n |-> 0]

HexInit ==
  /\ hex_file = <<>>
  /\ \/ phase = "write" /\ written \in Buffers
     \/ phase = "type" /\ written = Typed
  /\ bytes_written = 0
  /\ line = 1 /\ place = 0
  /\ word = NoWord
  /\ starting_address = 0
  /\ current_offset = 0
  /\ data = <<>>

-----------------------------------------------------------------------------
(* WriteHexFile.                                                           *)

Address(a) == [value |-> a, size |-> 17, colon |-> TRUE]
WordOf(bytes) == [value |-> FromBytes(bytes), size |-> 8, colon |-> FALSE]
(* The k-th word of a line; the last one of all may have fewer bytes.      *)
WordAt(k) ==
  LET first == bytes_written + sizeof_uint32_t * (k - 1) + 1
      last  == bytes_written + sizeof_uint32_t * k
  IN  WordOf(SubSeq(written, first, IF last < Len(written) THEN last ELSE Len(written)))
WordsLeft == (Len(written) - bytes_written + sizeof_uint32_t - 1) \div sizeof_uint32_t

WriteLine ==
  /\ phase = "write"
  /\ bytes_written + bytes_per_line <= Len(written)
  /\ hex_file' = Append(hex_file, <<Address(bytes_written)>> \o [k \in 1 .. words_per_line |-> WordAt(k)])
  /\ bytes_written' = bytes_written + bytes_per_line
  /\ UNCHANGED <<written, phase, loader_vars>>

LastLineOfWholeWords == <<Address(bytes_written)>> \o [k \in 1 .. (Len(written) - bytes_written) \div sizeof_uint32_t |-> WordAt(k)]
LastLine == <<Address(bytes_written)>> \o [k \in 1 .. WordsLeft |-> WordAt(k)]

WriteLastLine ==
  /\ phase = "write"
  /\ bytes_written + bytes_per_line > Len(written)
  /\ hex_file' = IF bytes_written < Len(written) THEN Append(hex_file, LastLine) ELSE hex_file
  /\ bytes_written' = Len(written)
  /\ phase' = "load"
  /\ UNCHANGED <<written, loader_vars>>

(* Somebody types a file.                                                  *)
Typing == phase = "type" /\ UNCHANGED <<written, bytes_written, loader_vars>>
CountWords(lines) ==
  LET count[l \in 0 .. Len(lines)] == IF l = 0 THEN 0 ELSE count[l - 1] + Len(lines[l])
  IN  count[Len(lines)]

TypeLine == Typing /\ Len(hex_file) < MaxLines /\ hex_file' = Append(hex_file, <<>>) /\ UNCHANGED phase
TypeWord ==
  /\ Typing /\ hex_file # <<>> /\ CountWords(hex_file) < MaxWords
  /\ \E w \in Words : hex_file' = [hex_file EXCEPT ![Len(hex_file)] = Append(@, w)]
  /\ UNCHANGED phase
Save == Typing /\ phase' = "load" /\ UNCHANGED hex_file

-----------------------------------------------------------------------------
(* LoadHexFile.                                                            *)

(* What is pushed goes to the end, behind zeros if that is before the      *)
(* offset.  Beyond the eight bytes of the number lies something else.      *)
PushBack(value, n) ==
  IF current_offset > Len(data)
  THEN data \o Zeros(current_offset - Len(data)) \o Bytes(value, n)
  ELSE data \o Bytes(value, n)
Push(value, size) ==
  IF size \div 2 <= 8
  THEN /\ data' = PushBack(value, size \div 2)
       /\ current_offset' = current_offset + size \div 2
       /\ UNCHANGED phase
  ELSE phase' = "undefined" /\ UNCHANGED <<data, current_offset>>

(* The first word of a line is what the line has, or the word before it if *)
(* the line is blank.  The colon of an address is gone when it is looked   *)
(* at again.                                                               *)
FirstWord == IF hex_file[line] = <<>> THEN word ELSE hex_file[line][1]
Loading == phase = "load" /\ UNCHANGED <<hex_file, written, bytes_written>>
AtLineStart == Loading /\ line <= Len(hex_file) /\ place = 0

(* An address is where the file begins, or how far after that it goes on.  *)
OffsetOfAbsolute(address) == address
OffsetOf(address) == address - starting_address

ReadAddress ==
  /\ AtLineStart
  /\ FirstWord.colon
  /\ word' = [FirstWord EXCEPT !.colon = FALSE]
  /\ place' = 1
  /\ CASE line = 1 -> starting_address' = FirstWord.value /\ UNCHANGED <<phase, current_offset>>
       [] line > 1 /\ starting_address < FirstWord.value
            -> current_offset' = OffsetOf(FirstWord.value) /\ UNCHANGED <<phase, starting_address>>
       [] OTHER -> phase' = "aborted" /\ UNCHANGED <<starting_address, current_offset>>
  /\ UNCHANGED <<line, data>>

ReadFirstWord ==
  /\ AtLineStart
  /\ FirstWord # NoWord /\ ~ FirstWord.colon
  /\ Push(FirstWord.value, FirstWord.size)
  /\ word' = FirstWord
  /\ place' = 1
  /\ UNCHANGED <<line, starting_address>>

(* word.back() of an empty word.                                           *)
ReadNothing ==
  /\ AtLineStart
  /\ FirstWord = NoWord
  /\ phase' = "undefined"
  /\ UNCHANGED loader_vars

(* Behind the first word there are no addresses: a colon is read as the    *)
(* digit 0.                                                                *)
ReadWord ==
  /\ Loading
  /\ line <= Len(hex_file)
  /\ place \in 1 .. Len(hex_file[line]) - 1
  /\ LET w == hex_file[line][place + 1]
     IN  Push(IF w.colon THEN 16 * w.value ELSE w.value, w.size) /\ word' = w
  /\ place' = place + 1
  /\ UNCHANGED <<line, starting_address>>

EndLine ==
  /\ Loading
  /\ line <= Len(hex_file)
  /\ place > 0 /\ place >= Len(hex_file[line])
  /\ line' = line + 1 /\ place' = 0
  /\ UNCHANGED <<phase, word, starting_address, current_offset, data>>

Return == Loading /\ line > Len(hex_file) /\ phase' = "loaded" /\ UNCHANGED loader_vars

Done == phase \in {"loaded", "aborted", "undefined"} /\ UNCHANGED hex_vars

HexNext ==
  \/ WriteLine \/ WriteLastLine \/ TypeLine \/ TypeWord \/ Save
  \/ ReadAddress \/ ReadFirstWord \/ ReadNothing \/ ReadWord \/ EndLine \/ Return \/ Done

HexSpec == HexInit /\ [][HexNext]_hex_vars

-----------------------------------------------------------------------------
(* A buffer that was written as a hex file is loaded as it was, but for    *)
(* zeros that fill up its last word.                                       *)
WrittenLoadsAgain ==
  (written # Typed /\ phase \in {"loaded", "aborted", "undefined"}) =>
    /\ phase = "loaded"
    /\ Len(data) % sizeof_uint32_t = 0
    /\ Len(data) - Len(written) \in 0 .. sizeof_uint32_t - 1
    /\ data = written \o Zeros(Len(data) - Len(written))

(* What the comment above LoadHexFile allows, lines of an address and      *)
(* words, as far as it has a meaning: no line is empty, and every word is  *)
(* whole bytes (an even number of digits) and fits a number of 64 bits.    *)
WellFormed ==
  \A l \in DOMAIN hex_file :
    /\ hex_file[l] # <<>>
    /\ \A k \in DOMAIN hex_file[l] :
         IF hex_file[l][k].colon THEN k = 1 ELSE hex_file[l][k].size % 2 = 0 /\ hex_file[l][k].size <= 16

(* How many bytes the words of a line are, up to each of them.             *)
BytesOf(w) == IF w.colon THEN 0 ELSE w.size \div 2
Lengths(words) ==
  LET length[k \in 0 .. Len(words)] == IF k = 0 THEN 0 ELSE length[k - 1] + BytesOf(words[k])
  IN  length
LengthOf(words) == Lengths(words)[Len(words)]

(* The address of the word k of line l, if each word follows the one       *)
(* before and a line follows the line before unless it has an address.     *)
LineAddresses ==
  LET address[l \in DOMAIN hex_file] ==
        CASE hex_file[l][1].colon -> hex_file[l][1].value
          [] ~ hex_file[l][1].colon /\ l = 1 -> 0
          [] OTHER -> address[l - 1] + LengthOf(hex_file[l - 1])
  IN  address
AddressOf(l, k) == LineAddresses[l] + Lengths(hex_file[l])[k - 1]
Places == UNION {{l} \X DOMAIN hex_file[l] : l \in DOMAIN hex_file}

Sorted ==
  \A l \in DOMAIN hex_file \ {1} : LineAddresses[l] >= LineAddresses[l - 1] + LengthOf(hex_file[l - 1])

(* The memory a sorted file describes is what it is loaded as, from the    *)
(* first address on and with zeros in the gaps, however it is divided into *)
(* lines and words; or the second address is the first one.                *)
BytesInPlace ==
  (written = Typed /\ phase \in {"loaded", "aborted", "undefined"} /\ hex_file # <<>> /\ WellFormed /\ Sorted) =>
    \/ /\ phase = "loaded"
       /\ \A i \in DOMAIN data :
            LET here == {p \in Places : LineAddresses[1] + i - 1 - AddressOf(p[1], p[2]) \in
                                          0 .. BytesOf(hex_file[p[1]][p[2]]) - 1}
            IN  \/ here = {} /\ data[i] = 0
                \/ \E p \in here :
                     data[i] = Bytes(hex_file[p[1]][p[2]].value, 8)[LineAddresses[1] + i - AddressOf(p[1], p[2])]
       /\ \A l \in DOMAIN hex_file : LengthOf(hex_file[l]) > 0 => Len(data) >= LineAddresses[l] + LengthOf(hex_file[l]) - LineAddresses[1]
    \/ phase = "aborted" /\ \E l \in 2 .. Len(hex_file) : hex_file[l][1].colon /\ LineAddresses[l] = LineAddresses[1]

=============================================================================
