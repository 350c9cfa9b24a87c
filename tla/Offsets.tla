------------------------------- MODULE Offsets ------------------------------
(***************************************************************************)
(* Offsets into source files: the compiler adds the size of the file once   *)
(* for every earlier inclusion of it (clang_source_range), the collector    *)
(* takes it off again to find the earlier inclusions (code), and            *)
(* carbon-extract takes the rest modulo the size the file then has          *)
(* (source_text).  Offsets are of a signed integer type.                    *)
(*                                                                         *)
(* The sum may overflow, which is undefined; the range is tested in another *)
(* translation unit, so that what the build does is to wrap around.         *)
(***************************************************************************)
EXTENDS Integers, Sequences

CONSTANT IntMax   \* the largest source_location_t

ASSUME OffsetsAssumption == IntMax \in Nat /\ IntMax > 1

Span == 2 * (IntMax + 1)
ToInt(x) == ((x + IntMax + 1) % Span) - (IntMax + 1)
Unsigned(x) == x % Span

\* source_range_t of an entire file.
EntireFile == [beg |-> IntMax - 1, end |-> IntMax]

\* clang_source_range, for the inclusion of band k of a file of size N.
RangeIn(k, N, b, e) == [beg |-> ToInt(b + k * N), end |-> ToInt(e + k * N)]

\* source_range_t::operator bool
Valid(r) == r.end > r.beg /\ r.beg >= 0

\* The ranges code makes vertices for: r, then one band below the other.
Lower(r, j, N) == [beg |-> r.beg - j * N, end |-> r.end - j * N]
Bands(r, N) == {Lower(r, j, N) : j \in {i \in 0 .. IntMax : Valid(r) /\ Valid(Lower(r, i, N))}}

\* Mutant: the offset is taken as it is.
SeekAbsolute(r, size) == Unsigned(r.beg)

\* Where source_text reads, in a file that now has this size.
Seek(r, size) == Unsigned(r.beg) % size

Readable(r, text) == Len(text) > 0 /\ Seek(r, Len(text)) + r.end - r.beg <= Len(text)
SourceText(r, text) ==
  LET at == Seek(r, Len(text)) IN SubSeq(text, at + 1, at + r.end - r.beg)

=============================================================================
