----------------------------- MODULE FileLayout -----------------------------
(***************************************************************************)
(* Where the bytes of a piece lie on disk (bt/torrent.rs, class Info).     *)
(* `calculate_file_piece` computes once, when a torrent is decoded, the    *)
(* range of pieces that each file touches; `find_file_of_piece_index` uses *)
(* the ranges to cut a block of a piece into one segment per file, and the *)
(* store writes the block's bytes to those segments one after the other.   *)
(*                                                                         *)
(* A torrent is the sequence of its files' lengths and the length of a     *)
(* piece; without a file list (`listed` is false) it is one file.           *)
(***************************************************************************)
EXTENDS Integers, Sequences, FiniteSets, SequencesExt, Folds

CONSTANTS
  FileLists,    \* the sequences of file lengths that are tried
  PieceLength   \* info.piece_length

ASSUME LayoutAssumption == PieceLength \in Nat \ {0}

VARIABLES
  files,        \* info.files: the lengths, in the order of the torrent
  listed,       \* the torrent has a file list: file_piece is not empty
  request,      \* the arguments of the last find_file_of_piece_index
  blocks        \* the Vec<BlockInfo> it returned

layVars == <<files, listed, request, blocks>>

\* file.length_prefix_sum
PrefixSum(fs, i) == FoldLeft(LAMBDA x, y : x + y, 0, SubSeq(fs, 1, i))

div_ceil(x, y) == (x + y - 1) \div y

\* A subtraction below zero wraps to the largest u32 in a release build: any
\* number beyond every piece index stands for it.
MaxU32 == 1000000

MinusOne(x) == IF x = 0 THEN MaxU32 ELSE x - 1

\* Mutant: a file that begins on a boundary is said to start in
\* the piece after the one it starts in.
FilePieceLate(fs, i) ==
  LET before == PrefixSum(fs, i - 1)
  IN  <<MinusOne(div_ceil(before, PieceLength) + 1),
        MinusOne(div_ceil(PrefixSum(fs, i), PieceLength))>>

\* The (start, end) pair of file i: prev is the end of the file before it,
\* and a file that begins on a piece boundary starts in the next piece.
FilePiece(fs, i) ==
  LET before == PrefixSum(fs, i - 1)
      prev   == IF i = 1 THEN 0 ELSE div_ceil(before, PieceLength)
      start  == prev + (IF before % PieceLength = 0 THEN 1 ELSE 0)
      end    == div_ceil(PrefixSum(fs, i), PieceLength)
  IN  <<MinusOne(start), MinusOne(end)>>

calculate_file_piece(fs) == [i \in 1..Len(fs) |-> FilePiece(fs, i)]

\* slice::partition_point, a binary search: it halves a range of indices, and
\* finds the boundary only when the elements of matching come first.
partition_point(n, matching) ==
  LET halve(range, k) ==
        LET mid == (range[1] + range[2]) \div 2
        IN  IF range[1] = range[2] THEN range
            ELSE IF mid + 1 \in matching THEN <<mid + 1, range[2]>> ELSE <<range[1], mid>>
  IN  FoldLeft(halve, <<0, n>>, [k \in 1..n |-> k])[1]

Segment(file, start, len) == [file |-> file, start |-> start, len |-> len]

\* One turn of the loop over the files m_low..n_high.
CutFile(fs, begin, end, acc, i) ==
  LET lps   == PrefixSum(fs, i)
      head  == lps - fs[i]
      start == IF begin <= head THEN 0 ELSE begin - head
      want  == IF end <= lps THEN end - head ELSE fs[i] - start
      len   == IF want < acc.left THEN want ELSE acc.left
  IN  IF lps >= begin /\ head < end
      THEN [left |-> acc.left - len, res |-> Append(acc.res, Segment(i, start, len))]
      ELSE acc

find_file_of_piece_index(fs, piece, offset, len) ==
  LET ranges == calculate_file_piece(fs)
      begin  == (piece * PieceLength) + offset
      low    == partition_point(Len(fs), {i \in DOMAIN fs : ranges[i][2] < piece})
      high   == partition_point(Len(fs), {i \in DOMAIN fs : ranges[i][1] <= piece})
      cut(acc, i) == CutFile(fs, begin, begin + len, acc, i)
  IN  IF ~listed THEN <<Segment(1, begin, len)>> ELSE
      FoldLeft(cut, [left |-> len, res |-> <<>>],
               [k \in 1..(IF high > low THEN high - low ELSE 0) |-> low + k]).res

\* Torrent::piece_num, from the pieces' hashes, and Torrent::piece_length.
piece_num(fs) == div_ceil(PrefixSum(fs, Len(fs)), PieceLength)

piece_length(fs, piece) ==
  LET rest == PrefixSum(fs, Len(fs)) - (piece * PieceLength)
  IN  IF rest < 0 THEN 0 ELSE IF rest < PieceLength THEN rest ELSE PieceLength

NoRequest == [begin |-> 0, len |-> 0]

LayInit ==
  /\ files \in FileLists
  /\ listed \in (IF Len(files) = 1 THEN BOOLEAN ELSE {TRUE})
  /\ request = NoRequest
  /\ blocks = <<>>

\* write_file and checkout_piece_hash of the servant ask for the files of blocks
\* that lie inside a piece.
Locate ==
  /\ request = NoRequest
  /\ \E piece \in 0..(piece_num(files) - 1) :
       \E offset \in 0..(piece_length(files, piece) - 1) :
         \E len \in 1..(piece_length(files, piece) - offset) :
           /\ request' = [begin |-> (piece * PieceLength) + offset, len |-> len]
           /\ blocks'  = find_file_of_piece_index(files, piece, offset, len)
  /\ UNCHANGED <<files, listed>>

LayNext == Locate

-----------------------------------------------------------------------------
LayTypeOK ==
  /\ files \in FileLists
  /\ \A k \in 1..Len(blocks) :
       /\ blocks[k].file \in 1..Len(files)
       /\ blocks[k].len \in 0..PieceLength

\* Byte b of the torrent, as its file and its place there: the definition the
\* ranges and binary searches have to agree with.
Place(b) ==
  LET i == CHOOSE k \in 1..Len(files) : PrefixSum(files, k - 1) <= b /\ b < PrefixSum(files, k)
  IN  <<i, b - PrefixSum(files, i - 1)>>

\* The bytes of a block land, in order, on exactly the bytes of the files they
\* belong to, whatever empty files and piece boundaries lie between: the store
\* splits the block along these segments (find_file_of_piece_index).
BlocksExact ==
  LET spread == [k \in 1..Len(blocks) |->
                   [j \in 1..blocks[k].len |-> <<blocks[k].file, blocks[k].start + j - 1>>]]
  IN  FlattenSeq(spread) = [j \in 1..request.len |-> Place(request.begin + j - 1)]
=============================================================================
