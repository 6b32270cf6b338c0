--------------------------------- MODULE Files ---------------------------------
(***************************************************************************)
(* The programs that leave a file behind, run again and again, and beside  *)
(* each other, in one directory:                                           *)
(*   1_file_text_high.c, 3_file_binary_high.c   a stream: the file is      *)
(*                          truncated, written by fclose() and read        *)
(*   2_file_text_low.c, 4_file_binary_low.c     descriptors: the file is   *)
(*                          overwritten in place and read; the first       *)
(*                          appends to it in the end                       *)
(*   5_file_pos_high.c, 6_file_pos_low.c        likewise; they read the    *)
(*                          file, seek to its end and write there          *)
(*   7_file_link.c          links to "hello"                               *)
(* A program is named by its file without the number.  A file is a         *)
(* sequence of cells, each a piece of what a program writes: all the lines *)
(* of one program have the same length, 14 bytes in 2_file_text_low.c, 6   *)
(* in the pos programs, 24 in the binary ones.  A write may be short.      *)
(***************************************************************************)
EXTENDS Integers, Sequences

CONSTANTS
    FilePrograms,   \* a subset of the names below
    FileRuns,       \* the runs of the program, each a process
    Width,          \* the cells of a line
    FileMaxFaults,  \* bound on failing calls, short writes and killed processes
    NoRun

HighPrograms == {"text_high", "binary_high", "pos_high"}
LowPrograms == {"text_low", "binary_low", "pos_low"}

ASSUME FileAssumption ==
    /\ FilePrograms \subseteq HighPrograms \union LowPrograms \union {"link"}
    /\ Width \in Nat \ {0} /\ FileMaxFaults \in Nat /\ NoRun \notin FileRuns

VARIABLES
    fileProg,       \* the program that is run
    filePc,         \* the step each run is about to make
    content,        \* of the program's file
    wrote,          \* the cells of its text each run is done with
    offset,         \* the offset of its descriptor
    linkedBy,       \* the runs that made hello_link and hello_symlink
    symlinkedBy,
    lineAt,         \* history: where each run's last line starts in the file, and
    lineLen,        \* how long it is, 0 before it and when the file is truncated
    known,          \* history: whose lines were there when it sought the end
    overlapped,     \* history: two runs have been active at once
    cut,            \* history: a run has gone on with its text not all written
    fileFaults

history  == <<lineAt, lineLen, known, overlapped, cut>>
links    == <<linkedBy, symlinkedBy>>
fileVars == <<fileProg, filePc, content, wrote, offset, links, history, fileFaults>>

\* A cell of a file: of the text, of the line a run writes last, or of a gap.
TextCell(i) == <<"text", i, NoRun>>
LastCell(r, k) == <<"last", k, r>>
Gap == <<"gap", 0, NoRun>>

\* The programs fputs() or dprintf() one line, the pos programs two.
TextLen == IF fileProg \in {"pos_high", "pos_low"} THEN Width + Width ELSE Width

\* Mutant: O_TRUNC in 4_file_binary_low.c too.
TruncatesAll == fileProg \in HighPrograms \union {"binary_low"}

\* fopen("w") truncates, open(O_WRONLY | O_CREAT) does not.
Truncates == fileProg \in HighPrograms
\* A stream reaches the file at fclose(), in one write(); else there is one for
\* each line.
Buffered == fileProg \in HighPrograms
Chunk == IF Buffered THEN TextLen ELSE Width

FileInit ==
    /\ fileProg \in FilePrograms
    /\ filePc = [r \in FileRuns |-> "start"]
    /\ content = <<>>
    /\ wrote = [r \in FileRuns |-> 0]
    /\ offset = [r \in FileRuns |-> 0]
    /\ linkedBy = NoRun /\ symlinkedBy = NoRun
    /\ lineAt = [r \in FileRuns |-> 0] /\ lineLen = [r \in FileRuns |-> 0]
    /\ known = [r \in FileRuns |-> {}]
    /\ overlapped = FALSE /\ cut = FALSE
    /\ fileFaults = 0

FileGoTo(r, step) == filePc' = [filePc EXCEPT ![r] = step]
FileEnded(r) == filePc[r] \in {"done", "failed", "killed"}
FileActive(r) == filePc[r] # "start" /\ ~FileEnded(r)
FileFault == fileFaults < FileMaxFaults /\ fileFaults' = fileFaults + 1

\* write() at an offset: a gap behind the end of the file reads as zeros.
Put(file, at, cells) ==
    [i \in 1..(IF cells # <<>> /\ at + Len(cells) > Len(file) THEN at + Len(cells)
               ELSE Len(file)) |->
        IF i - at \in 1..Len(cells) THEN cells[i - at]
        ELSE IF i <= Len(file) THEN file[i] ELSE Gap]

\* open() or fopen() of write_file and write_to_file.
OpenWrite(r) ==
    /\ filePc[r] = "start" /\ fileProg # "link"
    /\ content' = IF Truncates THEN <<>> ELSE content
    /\ lineLen' = IF Truncates THEN [q \in FileRuns |-> 0] ELSE lineLen
    /\ overlapped' = (overlapped \/ \E q \in FileRuns : FileActive(q))
    /\ FileGoTo(r, "write")
    /\ UNCHANGED <<fileProg, wrote, offset, links, lineAt, known, cut, fileFaults>>

\* The first n cells of the next write() of the text, at the descriptor's offset;
\* and on to the next one, or to the end of the function.
PutText(r, n) ==
    /\ filePc[r] = "write"
    /\ content' = Put(content, offset[r], [k \in 1..n |-> TextCell(wrote[r] + k)])
    /\ offset' = [offset EXCEPT ![r] = @ + n]
    /\ UNCHANGED <<fileProg, links, lineAt, lineLen, known, overlapped>>
NextWrite(r) ==
    /\ wrote' = [wrote EXCEPT ![r] = @ + Chunk]
    /\ FileGoTo(r, IF wrote[r] + Chunk = TextLen THEN "read" ELSE "write")

\* write(), dprintf(), or fclose() of what fputs() and fwrite() have buffered.
WriteText(r) == PutText(r, Chunk) /\ NextWrite(r) /\ UNCHANGED <<cut, fileFaults>>

\* Only 4_file_binary_low.c compares what write() has written with what it should
\* have.  The others go on; the next dprintf() of 6_file_pos_low.c writes where
\* the one before it ended.  fclose() and dprintf() may have written nothing.
ShortSizes(all) == (IF fileProg \in {"text_low", "binary_low"} THEN 1 ELSE 0)..(all - 1)

\* Mutant: the test for a partial write is forgotten.
ShortTextUnnoticed(r) ==
    /\ \E n \in ShortSizes(Chunk) : PutText(r, n)
    /\ NextWrite(r) /\ cut' = TRUE
    /\ FileFault

ShortText(r) ==
    /\ \E n \in ShortSizes(Chunk) : PutText(r, n)
    /\ IF fileProg = "binary_low" THEN FileGoTo(r, "failed") /\ UNCHANGED <<wrote, cut>>
                                  ELSE NextWrite(r) /\ cut' = TRUE
    /\ FileFault

\* open() for reading, and read(), fgets() or fread() of the first line: only the
\* binary programs look at how much they got.
ReadBack(r) ==
    /\ filePc[r] = "read"
    /\ FileGoTo(r, CASE fileProg \in {"binary_high", "binary_low"} ->
                          IF Len(content) < TextLen THEN "failed" ELSE "done"
                     [] fileProg = "text_high" -> "done"
                     [] fileProg = "text_low" -> "append"
                     [] OTHER -> "seek")
    /\ UNCHANGED <<fileProg, content, wrote, offset, links, history, fileFaults>>

Written == {q \in FileRuns : lineLen[q] # 0}

\* Mutant: SEEK_CUR after the text for SEEK_END.
SeekTextEnd(r) ==
    /\ filePc[r] = "seek"
    /\ offset' = [offset EXCEPT ![r] = TextLen]
    /\ known' = [known EXCEPT ![r] = Written]
    /\ FileGoTo(r, "append")
    /\ UNCHANGED <<fileProg, content, wrote, links, lineAt, lineLen, overlapped, cut, fileFaults>>

\* lseek(fd, 0, SEEK_END), fseek(fp, 0, SEEK_END)
SeekEnd(r) ==
    /\ filePc[r] = "seek"
    /\ offset' = [offset EXCEPT ![r] = Len(content)]
    /\ known' = [known EXCEPT ![r] = Written]
    /\ FileGoTo(r, "append")
    /\ UNCHANGED <<fileProg, content, wrote, links, lineAt, lineLen, overlapped, cut, fileFaults>>

\* Mutant: append_file opens without O_APPEND.
LastAtOffset(r) == IF fileProg = "text_low" THEN 0 ELSE offset[r]

\* O_APPEND of append_file writes at the end of the file as it is now.
LastAt(r) == IF fileProg = "text_low" THEN Len(content) ELSE offset[r]

\* The first n cells of the last line: write() of append_file, dprintf(fd,
\* "final\n"), fputs("final\n", fp) and fclose().  Nobody looks at n.
PutLast(r, n) ==
    /\ filePc[r] = "append"
    /\ content' = Put(content, LastAt(r), [k \in 1..n |-> LastCell(r, k)])
    /\ lineAt' = [lineAt EXCEPT ![r] = LastAt(r)]
    /\ lineLen' = [lineLen EXCEPT ![r] = n]
    /\ FileGoTo(r, "done")
    /\ UNCHANGED <<fileProg, wrote, offset, links, known, overlapped, cut>>

WriteLast(r) == PutLast(r, Width) /\ UNCHANGED fileFaults
ShortLast(r) == FileFault /\ \E n \in ShortSizes(Width) : PutLast(r, n)

\* Mutant: the error of link() is printed and forgotten.
LinkAnyway(r) ==
    /\ filePc[r] = "start" /\ fileProg = "link"
    /\ linkedBy' = IF linkedBy = NoRun THEN r ELSE linkedBy
    /\ FileGoTo(r, "symlink")
    /\ UNCHANGED <<fileProg, content, wrote, offset, symlinkedBy, history, fileFaults>>

\* link("hello", "hello_link") fails with EEXIST, or without "hello" (FileFails).
Link(r) ==
    /\ filePc[r] = "start" /\ fileProg = "link"
    /\ \/ linkedBy = NoRun /\ linkedBy' = r /\ FileGoTo(r, "symlink")
       \/ linkedBy # NoRun /\ FileGoTo(r, "failed") /\ UNCHANGED linkedBy
    /\ UNCHANGED <<fileProg, content, wrote, offset, symlinkedBy, history, fileFaults>>

\* symlink("hello", "hello_symlink")
Symlink(r) ==
    /\ filePc[r] = "symlink"
    /\ \/ symlinkedBy = NoRun /\ symlinkedBy' = r /\ FileGoTo(r, "done")
       \/ symlinkedBy # NoRun /\ FileGoTo(r, "failed") /\ UNCHANGED symlinkedBy
    /\ UNCHANGED <<fileProg, content, wrote, offset, linkedBy, history, fileFaults>>

\* A call whose result main looks at fails and has done nothing: open(), fopen(),
\* read(), link(), symlink(), write() with -1, and fwrite().
FileFails(r) ==
    /\ FileFault
    /\ \/ filePc[r] \in {"start", "read", "symlink"}
       \/ filePc[r] = "write" /\ fileProg \in {"text_low", "binary_low", "binary_high"}
       \/ filePc[r] = "append" /\ fileProg = "text_low"
    /\ FileGoTo(r, "failed")
    /\ UNCHANGED <<fileProg, content, wrote, offset, links, history>>

\* A signal ends the run, and what its stream has buffered is lost.
FileKill(r) ==
    /\ FileActive(r) /\ FileFault
    /\ FileGoTo(r, "killed")
    /\ UNCHANGED <<fileProg, content, wrote, offset, links, history>>

FileStep(r) ==
    \/ OpenWrite(r) \/ WriteText(r) \/ ReadBack(r) \/ SeekEnd(r) \/ WriteLast(r)
    \/ Link(r) \/ Symlink(r)

FileNext ==
    \E r \in FileRuns : \/ FileStep(r) \/ ShortText(r) \/ ShortLast(r)
                        \/ FileFails(r) \/ FileKill(r)

FileSpec == FileInit /\ [][FileNext]_fileVars

-------------------------------------------------------------------------------
FileTypeOK ==
    /\ fileProg \in FilePrograms
    /\ filePc \in [FileRuns -> {"start", "write", "read", "seek", "append", "symlink",
                                "done", "failed", "killed"}]
    /\ content \in Seq({"text", "last", "gap"} \X Nat \X (FileRuns \union {NoRun}))
    /\ wrote \in [FileRuns -> Nat] /\ offset \in [FileRuns -> Nat]
    /\ linkedBy \in FileRuns \union {NoRun} /\ symlinkedBy \in FileRuns \union {NoRun}
    /\ lineAt \in [FileRuns -> Nat] /\ lineLen \in [FileRuns -> 0..Width]
    /\ known \in [FileRuns -> SUBSET FileRuns]
    /\ overlapped \in BOOLEAN /\ cut \in BOOLEAN
    /\ fileFaults \in 0..FileMaxFaults

\* Whose file is not truncated under a run that is not done with it.
Firm == fileProg \in LowPrograms \/ ~overlapped

\* The text is in front, as far as the file goes: always when the program writes
\* nothing else, and else unless a write of the text was short and unnoticed.
\* Then a reader finds all of it; in 4_file_binary_low.c always, because a run
\* that wrote less has ended.  (O_TRUNC or not, the order of the calls)
TextInFront ==
    /\ fileProg \in {"text_high", "binary_high", "binary_low"} \/ (Firm /\ ~cut) =>
         \A i \in 1..Len(content) : i <= TextLen => content[i] = TextCell(i)
    /\ \A r \in FileRuns : filePc[r] = "read" /\ Firm =>
         /\ ~cut \/ fileProg = "binary_low" => Len(content) >= TextLen
         /\ fileProg = "text_low" => content # <<>>

\* Is a cell of r's last line where r wrote it?  No run's text reaches it there
\* when it is behind the text, as it is unless a text was cut.
Stands(r, k) == content[lineAt[r] + k] = LastCell(r, k)
BehindText(r, k) == lineAt[r] + k > TextLen

\* What was appended stays, whole or not, however many runs overlap or are killed:
\* in 2_file_text_low.c always, in the pos programs when runs follow each other.
\* In 6_file_pos_low.c a run that overlaps may overwrite a line, but only one that
\* was not there yet when it sought the end.  Behind the text there is nothing
\* else.  (O_APPEND; lseek() and dprintf() are two steps)
LinesStay ==
    Firm =>
        /\ \A r \in FileRuns : \A k \in 1..lineLen[r] :
              /\ lineAt[r] + k <= Len(content)
              /\ BehindText(r, k) \/ cut
              /\ BehindText(r, k) =>
                    \/ Stands(r, k)
                    \/ /\ fileProg = "pos_low" /\ overlapped
                       /\ \E q \in FileRuns : /\ content[lineAt[r] + k][3] = q
                                              /\ r \notin known[q]
        /\ \A i \in 1..Len(content) : i > TextLen =>
              \E r \in FileRuns : \E k \in 1..lineLen[r] : i = lineAt[r] + k /\ Stands(r, k)

\* A run of 7_file_link.c that returns 0 has made both links, and is the only one.
LinksMade ==
    fileProg = "link" =>
        \A r \in FileRuns : filePc[r] = "done" => linkedBy = r /\ symlinkedBy = r

\* What the runs leave in the directory, with short writes, failing calls and kills.
FilesRight == TextInFront /\ LinesStay /\ LinksMade
===============================================================================
