# A TLA+ model of hwzip

hwzip (`src/toZip`) is a ZIP archiver in C with its own LZ77 matcher, Huffman
coder, Deflate compressor and decompressor; `src/converter` holds a script that
converts between ZIP and 7z with external tools. Everything is sequential. What
is hard about it is not concurrency but long chains of cheap bookkeeping, where
one step that is off by one is paid for thousands of bytes later: a hash chain
in a ring that is reused, a match held back over loop turns, copies in 8-byte
chunks, blocks flushed in the middle of a callback, buffers that may run out at
any write, and 16-bit integers at the edge of their range.

## The system

| component | state | operations | interacts with |
|---|---|---|---|
| string matcher, `lz77.c` | hash heads, ring of chain links, rolling hash, position, pending match | `lz77_compress`, `find_match`, `cmp`, `update_hash`, `insert_hash` | calls back its user for each literal and reference; stops at the first refusal |
| compressor, `deflate.c` | current block (symbols, frequencies, start), output stream | `lit_callback`, `backref_callback`, `write_block` and the three block writers, `hwdeflate` | is called back by the matcher; calls the Huffman encoder and the output stream |
| decompressor, `deflate.c` | input position, output buffer | `hwinflate`, `inf_block`, `inf_noncomp_block`, `init_dyn_decoders`, `output_backref64` | calls the input stream and the Huffman decoder |
| Huffman code, `huffman.c/h` | decoder tables, codewords | `huffman_decoder_init`, `huffman_decode`, `compute_canonical_code`, `compute_huffman_lengths` | used by both |
| bit streams, `bitstream.h` | bit position, end | read, advance, align, write | used by both |
| ZIP container, `zip.c` | archive bytes, member iterator | `zip_read`, `zip_member`, `zip_write`, `zip_max_size` | calls `hwdeflate`, `crc32`; calls back with progress |
| dynamic block header, `deflate.c` | run-length symbols, numbers of lengths | `encode_lens`, `count_codelen_lens`, `dyn_block_len`, `write_dynamic_block`, `init_dyn_decoders` | between compressor and decompressor |
| tables and CRC-32, `tables.c`, `crc32.c` | none | lookup | used by the others |
| program, `hwzip.c` | files | list, extract, create | reads and writes whole files, exits at the first error |
| converter, `convert.py` | files, a directory | unpack, pack again, remove the directory | runs `unzip`, `zip`, `7za` |

What makes each part correct:

- **matcher**: the calls describe the source exactly; references stay in the
  window; the index holds what it should, so that the search finds the longest
  and most recent match; the function returns.
- **compressor**: each call ends up in exactly one block, in order; a block
  respects the array, the 16-bit stored length and the 16-bit frequencies; what
  is measured is what is written; it fails only for want of room.
- **decompressor**: nothing outside the two buffers is touched or decides
  anything; a reference becomes the repetition it stands for whichever copy
  runs; FULL means that the next symbol does not fit; it returns on any input.
- **Huffman code**: exactly the lengths of prefix codes are accepted; decoding
  undoes encoding through the lookup table and through the sentinels.
- **Huffman lengths**: the lengths are an optimal code when the limit
  does not bind and a prefix code always; the retries end.
- **block header**: the lengths that were chosen are the lengths that are read,
  whatever runs they form; no stream makes the reader leave its array.
- **bit streams**: what is read is what was written, through whichever path.
- **tables**: both directions agree on every length and every distance.
- **ZIP container**: `zip_read` of what `zip_write` wrote gives the members back;
  the size bound holds; what `zip_read` has accepted `zip_member` can read.
- **program**: which files have which content after a failure at any point.
- **converter**: no file is lost that the packing tool did not take.

## Modules

| module | models |
|---|---|
| `LzStream` | abstract: what `lz77_compress` promises its callbacks |
| `Lz77` | `lz77.c`, one action per statement group of the loop |
| `Lz77Proofs` | theorems about `Lz77`, its index, its search and its parse, and about `Codec` |
| `Decompressor` | abstract: what `hwinflate` promises about its output |
| `Inflate` | the decompressor of `deflate.c`, copies of `lz77.h`, input position of `bitstream.h` |
| `InflateProofs` | theorems about `Inflate` |
| `Huffman` | decoder tables, decoding and canonical codewords of `huffman.c/h` |
| `HuffmanProofs` | theorems about `Huffman` |
| `HuffmanLengths` | `compute_huffman_lengths` and the heap of `huffman.c` |
| `DeflateStream` | abstract: what `hwdeflate` promises about its blocks |
| `Deflate` | the compressor of `deflate.c`, output position of `bitstream.h` |
| `DeflateProofs` | theorems about `Deflate` and about `HuffmanLengths` |
| `Sums` | what the proofs use of sums over functions and of powers of two |
| `Codec` | `Lz77` composed with the output functions of `lz77.h` |
| `CodeLengths` | the header of a dynamic block, written and read back |
| `Bitstream` | every function of `bitstream.h`, with the loads and stores of `bits.h` |
| `RoundTripProofs` | theorems about `CodeLengths` and `Bitstream`: what is written is read back |
| `Tables` | the tables with their real values, the symbols of a reference, `reverse16`, `crc32` |
| `ZipFormat` | the headers of an archive and their sizes |
| `ZipWrite` | `zip_max_size` and `zip_write` |
| `ZipRead` | `zip_read`, and the loop over `zip_member` of its users |
| `Zip` | `ZipWrite`, a file, then `ZipRead`; or `ZipRead` alone |
| `ZipProofs` | theorems about `ZipWrite`, `ZipRead` and `Zip` |
| `Hwzip` | `main`, `create_zip`, `extract_zip` and `list_zip` over a file system |
| `Converter` | `convert.py` with the tools it runs |
| `ProgramProofs` | theorems about `Hwzip` and `Converter` |
| `MCLz77`, `MCCodec`, `MCInflate`, `MCDeflate`, `MCCodeLengths`, `MCZip`, `MCHwzip` | small instances for TLC |

Matcher, compressor and decompressor meet in the abstract modules. `Lz77` implements `LzStream`
(a literal is the next byte, a reference repeats bytes already described);
`Deflate` takes any sequence of such calls and implements `DeflateStream` (the
calls, in order, cut into blocks); `Inflate` implements `Decompressor` (symbols
in order become bytes). `Codec` composes the matcher with the byte-wise output
functions; `Zip` composes writer and reader through a file. The other modules
stand below these (`Huffman`, `HuffmanLengths`, `CodeLengths`, `Bitstream`,
`Tables`: how what the upper modules pass on becomes bits and comes back) or
above them (`Hwzip` takes an archive for its members).

**Lz77.** `src` and `len` are chosen in `Init` and never change. `head`, `prev`,
`h`, `i`, `j`, `match_*` and `prev_match_*` are the variables of the function;
`best`, `cand`, `steps` and `found` are `prev_match_len`, `i`, `max_match_steps`
and `found` of `find_match`. `pc` is the place in the loop: `SearchStart` is the
loop head and the start of `find_match`, `WalkStep` one candidate, `SearchEnd`
its return, `InsertCurrent` the insertion, `OutputPrevious`/`OutputLiteral`/
`Defer` the three ways a turn goes on, `SkipInsert`/`SkipEnd` the skip loop,
`OutputLast`, `TailLiteral` and `Return` what follows the loop.
`CallbackRefuses` is a callback returning false wherever one is called. Bytes
and hashes are sets of bits, so the hash keeps its shift, exclusive or and mask
and has real collisions. `covered`, `token` and `result` record what the
callbacks have been told. `prev` starts as `UNINIT` because the C array does.

**Inflate.** The input is what reading it returns: a symbol takes some number of
bits, any symbol may come, and a read past the end fails. That keeps each place
where the code decides (room, distance, overlap, end of input) and leaves out
which bits mean which symbol, which is `Huffman`'s subject. A wide copy is one
chunk per `CopyWide` step on a real buffer, so what it leaves past the end of a
reference, and bytes nobody wrote, are there.

**Huffman.** Codewords and words are numbers with the first bit on top; the C
code keeps them reversed and calls `reverse16` where it compares. The integers
wrap at `WORD`, which is one bit wider than the longest codeword, as 65536 is
for 15 bits.

**HuffmanLengths.** `freqs` and `max_len` are the arguments, chosen in
`LengthsInit`; `nodes`, `h`, `freq_cap`, `p` and `l` are the variables of the
function. An element of `nodes` is one integer, a frequency times `UNIT` plus an
index, as in the code, and wraps at `UNIT * UNIT`. `MoveDown` is one turn of the
loop of `minheap_down`, `i` its argument, and `phase` says which of its three
callers goes on. `next` is the index of the two counting loops. Of a call it
assumes what the code asserts or its header asks: `2^max_len` is at least the
number of symbols and the frequencies add up to a 16-bit number. Besides,
`max_len` is at least 1 (the callers pass 7 and 15), since a single symbol gets
one bit. Names differ from those of `Deflate` so that one module can
prove about both.

**Deflate.** A codeword is its length. The fixed code's lengths are constants;
the codes of a dynamic block, and the size of its header, are any of a set.
A block is written symbol by symbol and each write may find no room. `calls`
and `stream` record the calls made and the blocks completed. After the write
that fails nothing but the `false` is observable, so a header that the code
writes in several pieces is one write here.

**CodeLengths.** Each function is an action, and each loop of the reader is a
step per symbol (`pc`, with `k` and `total` as in `init_dyn_decoders`). The
lengths of the two codes are chosen in `Init`; a symbol of the third code is
itself, because `Huffman` is about codewords, but its length counts for
`dyn_block_len`. `any` says that the stream is one of another compressor, whose
symbols are chosen as they are read. `code_lengths` starts as `UNINIT`.

**Bitstream.** Memory and words are functions from bit numbers to bits. `dst`
starts with any content. `given` records the bits that were written, and those
an alignment skipped; `length` is set when the output ends and the input stream
begins, over exactly the bytes `ostream_bytes_written` reports. Each access goes
through the word or byte by byte by the condition in the code.

**Tables.** No state, so no run of its own: constant definitions with the real
tables, and what must hold of them as assumptions, which TLC evaluates whenever
it runs `MCInflate`. `ReferencesReadBack`: every length and every distance is
read back by `inf_block` from the symbols and extra bits that
`write_huffman_block` takes for it. `ReadsInRange`: the asserts of `inf_block`
hold for any bits. `FixedCodesComplete`, `ReversesLowBits` and
`CrcDividesByThePolynomial` (bit by bit, and the check value of `crc32_test.c`)
are about the rest. The module follows `generate_tables.c`, whose output is
`tables.c` exactly.

**Zip.** A cell of memory is a byte or stands for some fields of a header, so a
header has the size its constant says, headers can overlap or lie inside file
data and comments, and what was never written is `UNINIT`. `w` and `r` are the
places in the writer and in the reader; a failed `assert` is the place
`"assert"`. `hwdeflate` is external to the module: it accepts or refuses, and
leaves anything behind where it wrote. An archive from elsewhere is known by the
headers that there may be at each offset (`eocdrs`, `cfhs`, `lfhs`), a set each:
looking at one takes one of the set, which is then all that is left of it. The
file that `zip_write` made has one in each set from the beginning.

**Hwzip.** `fs` maps names to contents; `PARTIAL` is a file opened for writing and
not completely written. Each call that can fail (`SystemError`, `OpenOutput`,
`WriteOutput`, a missing or damaged member) is a choice, and every failure ends
the program with status 1, leaving the files as they are. `MaxCommands` commands
follow one another on the same file system, so an archive made by one is read by
the next. The number of files wraps at `UINT16`, sizes are checked against
`UINT32_MAX`.

**Converter.** `content`, `target` and `members` are what the directory, the
archive that is made and the one that is read hold of each file. The two tools
are external: missing, successful, or stopped at any point with any part of
their work done; `run` ignores how they end, as the code does.

## Runs

| run | instance | shows |
|---|---|---|
| `lz77` | two byte values that share hashes, sources up to 10 bytes, window 4, longest match 5 | index, search, lazy parse, description of the source, termination |
| `lz77_budget` | `Codec`: two byte values, a hash of two bits, sources up to 12, window 7, a budget of 4 steps that a match held back cuts to 1 | searches that end in the middle of a chain return the best of what they tried; what is decoded is the source |
| `inflate` | input up to 6 bytes, capacity up to 7, chunks of 2 bytes, references of 2 to 4 bytes | bounds, copies, statuses, termination |
| `huffman` | up to 6 symbols with lengths 0 to 4, a 2-bit table | acceptance, sentinels, decoding of every word |
| `huffman_lengths` | five symbols, frequencies up to 5 and sums up to 12, limits of 3 and 4 bits | the shared array, completeness, optimality, the retries |
| `deflate` | sources up to 7 bytes, blocks of 3 | block limits, measuring, failure, the stream of blocks |
| `code_lengths` | nine and three symbols with lengths 0 to 2 that change at most twice, runs of 2 and more; other streams of five symbols | round trip of the header, its measured size, the reader's array |
| `bitstream` | bytes of 3 bits, words of 2 bytes, buffers up to 3 bytes with any content | what is read is what was written, on both paths |
| `zip` | up to two members, headers of 2 cells, 16-bit fields up to 4; other archives of 1, 6 and 8 cells | size bound, round trip, agreement of the two directory walks |
| `hwzip` | two commands over three names, two contents and an archive of another program | the files after any failure |
| `converter` | three files | what may be removed |
| `converter_temp` | the same; expected to fail | the directory that is removed may be the user's own |

Why the bounds are enough. A window of 4 with 10 bytes makes every ring slot be
reused at least twice, puts matches at distance exactly 4 and 5, and lets a
match end at, before and beyond the place where hashing stops; a longest match
of 5 lets a match be deferred, beaten, cut at the limit and cut at the end of
the source. The budget of `lz77` is large enough never to bind, which `LazyParse`
needs; `lz77_budget` is where it binds: with a window of 7 and at most four hashes, the
full budget of 4 and the quartered one of 1 both end searches in the middle of a
chain, with something found and with nothing, and both miss longer matches further
back, which the sources are long enough to hold. For `inflate`, chunks of 2 with lengths
2 to 4 give references that fill the last chunk and that do not, and capacities
up to 7 put the end of the buffer at each offset. For `huffman`, 6 symbols of up
to 4 bits include empty, incomplete, complete and over-subscribed sets, with the
excess at each length. For `huffman_lengths`, 12 is the sum of 1, 1, 2, 3 and 5, whose
code is as long as five symbols can make it: a limit of 3 lowers the cap from 12
to 6, 3 and 1, a limit of 4 never does; `UNIT` is one more than the largest sum,
as 65536 is, and the links, up to 10, fit below it. For `deflate`, 7 bytes in blocks of 3 make three blocks,
with the block limit hit exactly and crossed by a reference; the capacities end
in a header, in the length of a stored block, in symbols and after everything.
For `code_lengths`, nine symbols allow runs one shorter than, equal to and longer
than each limit, a run across the border of the two codes, and trailing zeros
that are cut down to the minimum; the order of the third code's lengths permutes
them. For `bitstream`, three bytes are one more than a word, so a buffer has room
for the word path, for the byte path only and for a switch between them, and a
write may need one bit more than a word (3 + 4 bits in 6). For `zip`, two members
let the second header be wrong because of the first; the contents include one
that shrinks, one that does not, an empty one and one that is itself an end
record; the comments include end records with a matching and with another
length; 24 as the largest size is passed by two members and not by one; the times are the last
second of 2107 and one of 2108, a year the format has no bits for. The other
archives put the directory at the beginning, at 1 and behind the end, and their
members overlap each other and the end. For `hwzip`, three arguments with a
16-bit number that wraps at 3 include the empty list it wraps to; the archive
that is created can be one of its inputs, and a member can have the name of its
archive. `CHECK_DEADLOCK FALSE` everywhere: each model is one call or one run of
the program, which ends.

`converter_temp` states what a comment of `convert.py` says, that what it removes
is a temporary directory. TLC shows that it is not: the directory is whichever
has the archive's name, with what the user had in it, also when the packing tool
failed.

Fairness. `Lz77`, `Inflate` and `HuffmanLengths` have weak fairness of their next step: a sequential
function that can take its next step takes it. Nothing more is assumed; which
callback refuses and which symbol comes stays free. The other modules are
checked for safety only and state none: the loops of `zip.c`, `hwzip.c` and
`bitstream.h` are bounded by a count, and the converter waits for its user.

Each safety property is about one of the hazards in `PROJECT.json`. The main ones:

- `IndexExact` (`Lz77`): at each point each hash chain holds, inside the window,
  exactly the earlier positions with that hash, newest first. It fails if one
  skipped position is hashed with a stale hash, which costs only compression and
  which no test of the repository would notice.
- `FindsLongestMostRecent`: the comment of `find_match`, against a search by
  definition, where the budget lasts. `FindsBestTried`: the same where it does not, against
  the newest candidates there were steps for, and nothing older. `LazyParse`: what
  deferring is for.
- `OutputsSymbols` (`Inflate`): the fast copy, the byte copy and the overlapping
  copy are the same repetition; a reference is refused exactly when it reaches
  before the output (`TooFar` of `Decompressor`), and FULL is not ERR.
- `DecodesTheCode` (`Huffman`): table and sentinels against the codewords the
  encoder assigns, for every word, incomplete codes included.
- `ForestIntact` (`HuffmanLengths`): an element that leaves the heap becomes a link
  only when nothing else lives there; the frequencies at the roots are exact.
- `Optimal`: Huffman's theorem for this array, and `CompleteCode` for the lengths
  that lowering the cap produces, which the code's comments do not claim.
- `WritesStream` (`Deflate`): no call is lost, doubled or moved when a block
  fills up, and a stored block names the same bytes as its symbols.
- `WrittenAsMeasured`: the three asserts of `write_block`.
- `DecodedIsSource` (`Codec`): matcher and output functions together, with
  references that overlap themselves.
- `HeaderRoundTrip` (`CodeLengths`): run-length encoding across the border of the
  two codes, against a reader that knows only how many lengths to expect.
- `StreamIsExact` (`Bitstream`): the last bytes of a buffer take another path, and
  a byte that is partly used must keep its bits and have zeros behind them.
- `RoundTrip` (`Zip`): the directory is made from the local headers, which are
  read back from the buffer; the end record is found from behind. One archive is
  excepted: if the comment itself ends like an end record for the rest of it,
  `find_eocdr` takes that for the archive's.
- `MembersReadable` (`ZipRead`): the asserts of `zip_member`, and those of
  `zip_fuzzer.c` on its name, comment and data, on any archive.
- `FitsMaxSize` (`ZipWrite`): the function that allocates and the one that writes
  agree, whatever `hwdeflate` leaves behind.
- `ExtractsInOrder`, `CreatesFromInputs` (`Hwzip`): what every file holds at each
  point, when the archive, its members and the inputs share names.

## Proofs

The proofs hold for every value of the constants that the named assumptions
allow: any window of at least one slot, any longest match of at least 3, any
hash whose three shifts push a byte out, any budget; any chunk width, any bit
counts; any alphabet, longest codeword and lookup table; any number of symbols
below half the range of an index, with any frequencies; any width of a byte and
of a word; any sizes of headers. The real sizes are instances.

*Lz77.* The inductive invariant is `TypeOK /\ PendingInv /\ SearchInv /\ IndexInv
/\ SkipInv /\ EndInv`. `PendingInv`: a match held back really repeats the bytes at
`i - 1`, and `covered` is the position of the first byte not yet described, which
is `i` or `i - 1`. `SearchInv`: a match found so far repeats the bytes at `i` and
is longer than the pending one. `IndexInv` is why `find_match` is safe: each head
is the end of a chain or an inserted position, and each slot that a position
inside the window owns was written and points further back; `TypeOK` alone says
nothing about a ring that is never initialised. Inserting a position overwrites
the slot of the one that leaves the window just then, and no other (`SlotsDiffer`:
two positions less than a window apart have different slots). `SkipInv` relates
`j` to the match being skipped. From it follow `TypeCorrect`, `WalkIsSafe` and
`Refinement`: each step maps to a step of `LzStream` or a stutter.

*The index and the search* (`IndexIsExact`, `FindsTheBest`). `ExactInv` strengthens
`IndexInv` from "older" to "the newest older one with the same hash"
(`IsNewest`), which one more position keeps, so no induction over positions is
needed. It also says that the hash kept so far `Knows` the next two bytes:
`ThreeBytes` shows, bit by bit, that `HASH_SHIFT` pushes out the rest. `WalkInv`
follows one search: no string newer than the next candidate is longer than the
best so far, because strings that repeat have the same hash and the chain skips
none of these.

*The budget* (`FindsTheBestTried`). A search that ends in the middle of a chain
cannot be compared with the whole window, but with the candidates it had steps
for: `Tried`, the newest `Budget` of the earlier positions in the window with the
hash at `i`. `TriedInv` counts: the steps used are the number of candidates newer
than the next one, each visited and in `Tried`. That the next one of the chain is
the next of the set (`NextCandidate`) is `ExactInv` again, and that counting them
goes up by one is about cardinalities only.

*Inflate.* The inductive invariant is `TypeOK /\ BufferInv /\ CopyInv /\ WideInv /\
StatusInv /\ WithinInput`. `BufferInv`: the bytes below `dst_pos` are decoded
ones. `CopyInv`: the first `i` bytes of the running copy equal those `dist`
before them. `WideInv`: the chunks still to come stay inside the buffer, and the
reference does not overlap itself, which is why reading a whole chunk before
writing it is the same as copying bytes. From it follow the five theorems,
among them that `Inflate` implements `Decompressor`.

*The lazy parse* (`ParsesLazily`, `FewCandidatesAreEnough`). The hypothesis is
`[]BudgetLasts`: no search gave up while candidates were left in the window;
without it the claim is false (`lz77_budget` is the run whose searches give up).
`LazyInv` remembers what the code forgets: with a match held back, that nothing
at `i - 1` is longer than it, and after a search, that `match_len` is the longest
length at `i` that beats it. A search that ends has seen the window
(`SearchComplete`, from `WalkInv`), and near the end nothing can match any more
(`NoMatchAtEnd`), so each call is the choice `LazyChoice` asks for. The second
theorem replaces the hypothesis, which is about a behaviour, by one about the
source alone: no position has more earlier ones with its hash in the window than
a quarter of `MAX_MATCH_STEPS`, at the real sizes 1024 of 32768. The steps used are
candidates that were visited (`TriedInv`), so steps run out only where there are
that many. Of a source that repeats one string more often than that, a run of one
byte for example, nothing is claimed but `FindsTheBestTried`.

*Codec* (`Decodes`). The invariant adds to the one of `Lz77` that the bytes of
the last call which are not yet output repeat bytes of the source, at a distance
that stays within the output. It is kept by the refinement: a step of the
compressor is one of `LzStream`, whose references repeat what comes before. The
output function then copies one byte that is already right, so no induction over
the length of a reference is needed although it may overlap itself.

*Huffman* (`TypeCorrect`, `RefusesExactly`, `SentinelsNeverWrap`,
`DecodesEveryWord`). A codeword of length k stands for the `Unit(k)` words that
start with it. Canonical codewords, in order of length and symbol, cover the
words from 0 on without gaps, those up to length k the first `Covered(k)`; the
first codeword of length k is `Covered(k - 1) \div Unit(k)`, and the division is
exact (`FirstIs`). So what the loop over the lengths computes in 16 bits is exact
as long as `Covered` fits in all words (`FirstCodewordIs`), and `Covered` only
grows, so the first length where it does not fit decides. `Start(x)` is the first
word that starts with the codeword of x; the intervals from there are disjoint
(`OnlyOne`) and leave nothing out (`CoveredStarts`, which needs that the ranks of
the symbols of a length are all the numbers below their count: an injection
between finite sets of one size is onto). The inductive invariant `HInv` says
what each table means after i symbols: `PlacesInv` that the next place and the
next codeword of a length are those its rank calls for, `Meant` that an index of
the lookup table belongs to the symbol whose codeword it starts with. A word the
table does not know is not below `Covered` of the table's width (`LookupFinds`),
so the first sentinel above it gives its length, and the offset, a difference
that may have wrapped, its place (`OffsetAdds`).

*Deflate, the limits* (`TypeCorrect`, `LimitsOfABlock`, `Measured`,
`FailsWhenFull`, `NeverLonger`). The inductive invariant is `TypeOK /\ BlockInv /\
PendingInv /\ MeasureInv`. `BlockInv`: the frequencies of a block are those of its
calls (`Collected`), which are no more than its bytes, so a block ends before the
array and the 16-bit frequencies do. `MeasureInv`: what is measured is what a
stored block takes at most, and at each place of `write_block` the position is the
old one plus the measured size of what is written. The measured size is a sum
over symbols of the alphabet, what is written one over the calls: `Counted` says
that they are equal for any codeword lengths, which one call more keeps
(`CountedOneMore`), so it holds of the codes that are chosen afterwards. The room
left is an unsigned difference (`Left`, modulo `SIZE_RANGE`): it does not wrap,
because the position rounded up to a byte is still inside a destination of whole
bytes (`LeftAligned`). Assumed is that the bits of the destination can be counted
in a `size_t`.

*Deflate, the stream* (`ImplementsStream`). `Deflate` implements `DeflateStream`.
`StreamInv` says how the calls made so far are laid out: the first `Base` of them
are in blocks already, the next are the symbols of the current one, one more may
be pending, and the bytes they all stand for are those from the start of the
source to the end of the block (`Layout`, `Upto`).

*Code lengths* (`LengthsTypeCorrect`, `ForestStaysIntact`, `LengthsAreCode`,
`LengthsAreOptimal`). A tree is not stored anywhere but in the links, so the
invariant says that there are two functions on link elements, the root each leads
to and the number of links on the way (`Links`), and that no element of a tree is
one the heap still uses. Joining takes the element that the heap has just given
up, which is why one array is enough. `Weighs` relates an entry of the heap to the
symbols below it: its frequency is the sum of theirs, and their Kraft sum, counted
from the root, is one whole codeword. When one entry is left, that is
`CompleteCode`. `HeapInv` is the order of the heap with one hole at `i`, where
`minheap_down` stands.

That the cap is never lowered below 1 needs more than the heap. Under a cap of 1
all weights are 1 at first, and `Level` says that joining the two lowest keeps the
weights at some `2^c` and `2^(c + 1)` with at most one between them; so the trees
are as flat as they can be, no codeword is longer than `max_len` because
`2^max_len` is at least the number of symbols, and there is no further retry.

`LengthsAreOptimal` is Huffman's theorem, by the exchange argument. `Cheapest`:
whatever code of the symbols one takes, some code of the present roots, continued
by the trees below them, costs no more. It holds at first, when the roots are the
symbols. When the two lowest roots are joined, a code of the roots can be changed
so that these two are the longest and of one length, without costing more:
exchanging two lengths does not raise the cost when the lower weight gets
the longer one (`Swapped`, `LowestAreLongest`), and a code with a single longest
codeword has room to shorten it (`Shortened`, `LongestPair`), because the other
terms of its Kraft sum are multiples of twice the smallest. Such a code is one of
the joined roots. At the end one root is left, and the trees below it are the
whole code.

*Sums*. An induction principle takes an operator as its parameter, which the
provers cannot instantiate. A least counterexample serves instead: of the subsets
of a finite set for which a sum has not the property one is smallest
(`LeastSubset`), and taking one element out of it gives a smaller one. The module
shows that way that any element may be taken out of a sum first, and what follows
from it. The folds of the community modules are expanded down to their recursive
function once, in `SumAddsUp`. The provers know nothing of powers of a variable;
those of two are the numbers of subsets of a set (`PowerIsNat`, `PowerStep`).

*The dynamic header* (`HeaderRoundTrips`, `HeaderIsMeasured`, `LengthsAreAnnounced`).
`Means(f, e, a)` says which lengths of f, from position a on, the symbol e stands
for, and `Start(enc, x)` where the lengths of the symbol after the first x begin.
That the symbols stand for the lengths passed (`Encodes`) is kept by each turn of
`encode_lens`, because a run ends where the lengths do and its extra bits hold
every count up to the longest (`Runs`); that it holds again of the reader's `k`,
which is a `Start` of the symbols it has taken, is why a run fits exactly and why
no symbol is left over (`StartBelow`). The third code arrives whatever was dropped
of it: one length of a symbol below `CODELEN_COPY` is not zero, since the end of a
block has a codeword, so at least five lengths are written (`CountIs`). The three
numbers are digits of one word (`Digits`), and the sum by symbol that
`dyn_block_len` makes of the frequencies is the sum over the symbols written
(`SumBySymbol`). `ReaderInv` is the part about any stream. Assumed of the order of
the lengths is that it has every symbol once and starts with the runs and zero,
and of the sizes, that a longest code of each kind is one the fields can announce.

*Bitstream* (`StreamExact`). The invariant relates memory to the bits given, and
says that the rest of the last byte used is zero, which `StreamIsExact` does not
say and which both paths of writing need to or their bits into that byte.

*Zip, what is written* (`FitsTheBuffer`). The invariant `WriteInv` is the layout of
the buffer at each place of `zip_write`. `Locals`: members one after the other from
the beginning on, each a local header, a name and a body that `LocalAt` relates to
the argument. `Entries`: one entry of the directory for each header read back. That
reading back meets the header that was written, and not something else that looks
like one, is what `Locals` is for: `lfh_offset` is always at the beginning of a
member. The room is kept in two sums, `LocalsEnd` and `CentralSize`, of which
`zip_max_size` is the total; a member takes at most its part of the first, with
all that `hwdeflate` may leave behind.

*Zip, the round trip* (`ReadsWhatWasWritten`). `WrittenInv` says where each header
lies in the file, so what reading finds there is known (`MemberFound`). Searching
from the end, `find_eocdr` stops at `EndOffset` (`EndIsRead`) and not before
(`NoOtherEnd`): an end record that begins inside the real one would begin with
another cell, one inside the comment is a `Lookalike`. From there on `SavedInv`
says that both walks are at the entry of the member they are to read next
(`EntryReads`). A time comes back because its fields lie side by side in
16 bits (`PackedTime`, `PackedDate`). Assumed are names, contents and comments
that are sequences, and times that are the fields of a `struct tm` from 1980 on.

*Zip, any archive* (`ReadsWhatItChecked`). The theorem is about `ReadSpec`, the
steps of `ZipRead` on an archive of which nothing, something or everything is
known in advance. The invariant is that there is a path of offsets along which
the entries were checked, from the beginning of the directory to where the first
walk is (to its end, for the second); looking at a place again gives the same
header, so the iterator is on that path, at the place its number of members
says, and it cannot pass the end because offsets on the path grow. Of the headers
it assumes that their fields are natural numbers.

*Hwzip* (`ExtractionIsOrdered`, `CreatesOnlyTheArchive`). A member's content may
itself be an archive, made by an earlier command: `FormInv` says that there is a
set of files which contains all files and whose archives only have members with
files of that set, and packing adds one to it. `ExtractInv` says what `i`,
`out_name` and `out` stand for at each place of `extract_zip`; a member more, and
the files are the next of the `Stages`. `CreateInv` says that up to `fopen` the
files are as they were, so what was read is what the property names, even if the
archive is one of its inputs. Assumed of archives of other programs: their
members have the fields that `zipmemb_t` has.

*Converter* (`LosesNothing`). Until the directory is removed it is as it was
after unpacking, and a packing tool that succeeded has all of it.

Only model-checked: termination (`Terminates` of `Lz77`, `Inflate` and
`HuffmanLengths`), because the prover has no support for liveness under fairness,
nor for `ENABLED`. `Tables` evaluates its assumptions on the real tables, so there
is nothing to prove for other constants.

## Not modelled

Tests, fuzzers, benchmarks and build files are not part of the program;
`huffman_bench.c` is almost only data. What is printed is left out everywhere,
and with it the percentage that `zip_callback` prints, computed in 32 bits and
wrong for members over 42 MB (`hwzip.c:211`). Which bits a symbol is written as is left out of `Inflate`
and `Deflate`: the code's contents are in `Huffman` and `Tables`, the positions
in the two models and in `Bitstream`. Times are the
fields that `localtime` gives and `mktime` takes; that one undoes the other, which
it does not in the hour that a change of the clocks repeats, is taken for granted,
and times before 1980, for which `ctime2dos` shifts a negative number, are left
out. The callbacks that show
progress change no state. Of convert.py, members that unpack outside of the
directory are left out.

Of the lines of C the larger part is data (`tables.c` alone has 33,947): the map
of `PROJECT.json` covers few of those, and most of the others.

## Plan

Every safety property that a run checks and the code keeps is also a theorem.
Left to TLC is termination; it would need bounds that decrease, proved as
action properties, and a step from those to liveness which the prover cannot take
here. Left out of the model are the parts named above.
