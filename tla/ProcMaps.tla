------------------------------- MODULE ProcMaps -------------------------------
(* ProcMapsIterator of base/sysinfo.cc on its platforms, and the two readers  *)
(* of it, FillProcSelfMaps and DumpProcSelfMaps.  A file of maps is a         *)
(* sequence of characters: "a" for the beginning of a line that can be        *)
(* parsed, "x" for a letter of the name, "(" and newlines.  The buffer holds  *)
(* less than the file, and a read may return less than was asked for.         *)
EXTENDS Integers, SequencesExt, FiniteSets

CONSTANTS Platforms,      \* linux, mach, sun or windows
          Files,          \* contents of /proc/self/maps
          ImageLists,     \* images of a Mach program, as their load commands
          RecordCounts,   \* numbers of modules or mappings elsewhere
          BackingModes,   \* use_maps_backing
          kBufSize,
          OutSizes,       \* the sizes of the buffer of FillProcSelfMaps
          Padding,        \* by how much FormatLine makes a line longer
          NoHeader,       \* an image without a header
          MaxErrors       \* bound

BufferAssumption == kBufSize \in Nat /\ kBufSize > 1

VARIABLES platform, source, using_maps_backing_, size,
          offset,                  \* where the kernel is in the source
          text, stext_, nextline_, \* the buffer up to etext_, and offsets into it
          current_image_, current_load_cmd_,
          pc, entries,             \* what Next has returned
          filled, wrote_all,       \* FillProcSelfMaps: lines in the buffer
          dumped,                  \* DumpProcSelfMaps: lines in the file
          errors

input == <<platform, source, using_maps_backing_, size>>
buffer == <<text, stext_, nextline_>>
images == <<current_image_, current_load_cmd_>>
output == <<entries, filled, wrote_all, dumped>>
vars == <<input, offset, buffer, images, pc, output, errors>>

ebuf_ == kBufSize - 1
etext_ == Len(text)

Sources(p) == CASE p = "linux" -> Files [] p = "mach" -> ImageLists
                [] OTHER -> {[i \in 1..n |-> i] : n \in RecordCounts}

Init == /\ platform \in Platforms
        /\ source \in Sources(platform)
        /\ using_maps_backing_ \in (IF platform = "linux" THEN BackingModes ELSE {FALSE})
        /\ size \in OutSizes
        /\ offset = 0
        /\ text = <<>> /\ stext_ = 0 /\ nextline_ = 0
        /\ current_image_ = (IF platform = "mach" THEN Len(source) ELSE 0)
        /\ current_load_cmd_ = -1
        /\ pc = "next" /\ entries = <<>>
        /\ filled = <<>> /\ wrote_all = TRUE /\ dumped = <<>> /\ errors = 0

(* The first newline of a text that is not before an offset, or what is      *)
(* given when there is none.                                                 *)
FirstNewline(s, from, none) ==
    LET at == {i \in (from + 1)..Len(s) : s[i] = "n"}
    IN  IF at = {} THEN none ELSE (CHOOSE i \in at : \A j \in at : i <= j) - 1

-------------------------------------------------------------------------------
(* The next line is in the buffer, or what there is of it goes to the start. *)
AdvanceLine ==
    /\ platform = "linux" /\ pc = "next"
    /\ LET newline == FirstNewline(text, nextline_, -1)
       IN  IF newline >= 0
           THEN /\ stext_' = nextline_ /\ nextline_' = newline /\ pc' = "line"
                /\ UNCHANGED text
           ELSE /\ text' = SubSeq(text, nextline_ + 1, etext_)
                /\ stext_' = 0 /\ nextline_' = 0 /\ pc' = "fill"
    /\ UNCHANGED <<input, offset, images, output, errors>>

(* Mutant: one read is taken to fill the buffer.                             *)
FillOnce ==
    /\ platform = "linux" /\ pc = "fill"
    /\ \E n \in 0..(ebuf_ - etext_) :
         /\ offset + n <= Len(source)
         /\ n = 0 => offset = Len(source)
         /\ text' = text \o SubSeq(source, offset + 1, offset + n)
         /\ offset' = offset + n
    /\ nextline_' = FirstNewline(text', 0, Len(text')) /\ pc' = "line"
    /\ UNCHANGED <<input, stext_, images, output, errors>>

(* Reads until the buffer is full, nothing more is there, or a read fails;   *)
(* then a newline is put behind the text.                                    *)
FillBuffer ==
    /\ platform = "linux" /\ pc = "fill"
    /\ \/ \E n \in 1..(ebuf_ - etext_) :
            /\ offset + n <= Len(source)
            /\ text' = text \o SubSeq(source, offset + 1, offset + n)
            /\ offset' = offset + n
            /\ UNCHANGED <<nextline_, pc, errors>>
       \/ /\ etext_ = ebuf_ \/ offset = Len(source)
          /\ nextline_' = FirstNewline(text, 0, etext_) /\ pc' = "line"
          /\ UNCHANGED <<text, offset, errors>>
       \/ /\ etext_ < ebuf_ /\ errors < MaxErrors
          /\ errors' = errors + 1
          /\ nextline_' = FirstNewline(text, 0, etext_) /\ pc' = "line"
          /\ UNCHANGED <<text, offset>>
    /\ UNCHANGED <<input, stext_, images, output>>

(* The name ends before the space before the second "(" from the end.        *)
CutBacking(line) ==
    LET parens == {i \in 2..Len(line) : line[i] = "("}
        second == {i \in parens : \E j \in parens : i < j /\ \A k \in parens : k > i => k = j}
    IN  IF second = {} THEN line ELSE SubSeq(line, 1, (CHOOSE i \in second : TRUE) - 2)

Entry(line) == IF using_maps_backing_ THEN CutBacking(line) ELSE line
Parses(line) == line # <<>> /\ line[1] = "a"

(* The line up to the newline; other lines are passed over, as long as there *)
(* is text.                                                                  *)
TakeLine ==
    /\ platform = "linux" /\ pc = "line"
    /\ LET line == SubSeq(text, stext_ + 1, nextline_)
       IN  /\ nextline_' = IF nextline_ < etext_ THEN nextline_ + 1 ELSE nextline_
           /\ IF Parses(line) THEN entries' = Append(entries, Entry(line)) /\ pc' = "format"
              ELSE pc' = (IF etext_ > 0 THEN "next" ELSE "end") /\ UNCHANGED entries
    /\ UNCHANGED <<input, offset, text, stext_, images, filled, wrote_all, dumped, errors>>

-------------------------------------------------------------------------------
(* A load command that maps a segment, of 32 or 64 bits.                     *)
IsSegment(cmd) == cmd = "segment"

(* A segment per step: images from the last one down, which is one behind    *)
(* the list, and load commands in each from the last one down.               *)
NextMach ==
    /\ platform = "mach" /\ pc = "next"
    /\ LET header == IF current_image_ = Len(source) THEN NoHeader ELSE source[current_image_ + 1]
           cmd == (IF current_load_cmd_ < 0 THEN Len(header) ELSE current_load_cmd_) - 1
       IN  IF header = NoHeader
           THEN /\ current_image_' = current_image_ - 1
                /\ pc' = (IF current_image_' >= 0 THEN "next" ELSE "end")
                /\ UNCHANGED <<current_load_cmd_, entries>>
           ELSE IF cmd < 0
           THEN /\ current_image_' = current_image_ - 1 /\ current_load_cmd_' = -1
                /\ pc' = (IF current_image_' >= 0 THEN "next" ELSE "end")
                /\ UNCHANGED entries
           ELSE /\ current_load_cmd_' = cmd
                /\ IF IsSegment(header[cmd + 1])
                   THEN entries' = Append(entries, <<current_image_, cmd>>) /\ pc' = "format"
                   ELSE UNCHANGED <<entries, pc>>
                /\ UNCHANGED current_image_
    /\ UNCHANGED <<input, offset, buffer, filled, wrote_all, dumped, errors>>

(* Solaris: a record per read; a read that is short is the end.              *)
NextRecord ==
    /\ platform = "sun" /\ pc = "next"
    /\ IF offset < Len(source)
       THEN offset' = offset + 1 /\ entries' = Append(entries, source[offset']) /\ pc' = "format"
       ELSE pc' = "end" /\ UNCHANGED <<offset, entries>>
    /\ UNCHANGED <<input, buffer, images, filled, wrote_all, dumped, errors>>

(* Windows: the first module of the snapshot, and then the next ones.        *)
NextModule ==
    /\ platform = "windows" /\ pc = "next"
    /\ IF offset < Len(source)
       THEN /\ offset' = offset + 1
            /\ entries' = Append(entries, source[offset'])
            /\ pc' = "format"
       ELSE pc' = "end" /\ UNCHANGED <<offset, entries>>
    /\ UNCHANGED <<input, buffer, images, filled, wrote_all, dumped, errors>>

-------------------------------------------------------------------------------
(* FormatLine writes nothing into a buffer that is too small, and a 0.       *)
LineLength(e) == (IF platform = "linux" THEN Len(e) ELSE 1) + 1 + Padding
FormatLine(bufsize, e) == IF LineLength(e) >= bufsize THEN 0 ELSE LineLength(e)
bytes_written == FoldLeft(LAMBDA n, e : n + LineLength(e), 0, filled)

FillLine ==
    LET e == Last(entries)
        fits == FormatLine(size - bytes_written, e) > 0
    IN  /\ filled' = IF fits THEN Append(filled, e) ELSE filled
        /\ wrote_all' = (wrote_all /\ fits)

(* The line goes to both readers, and they ask for the next one.             *)
FormatEntry ==
    /\ pc = "format"
    /\ FillLine
    /\ dumped' = IF FormatLine(kBufSize, Last(entries)) = 0 THEN dumped
                 ELSE Append(dumped, Last(entries))
    /\ pc' = "next"
    /\ UNCHANGED <<input, offset, buffer, images, entries, errors>>

Next == AdvanceLine \/ FillBuffer \/ TakeLine \/ NextMach \/ NextRecord \/ NextModule \/ FormatEntry

Spec == Init /\ [][Next]_vars

-------------------------------------------------------------------------------
(* The lines of a file, without their newlines.                              *)
LinesOf(s) ==
    LET step == FoldLeft(LAMBDA a, c : IF c = "n" THEN [done |-> Append(a.done, a.line), line |-> <<>>]
                                       ELSE [a EXCEPT !.line = Append(@, c)],
                         [done |-> <<>>, line |-> <<>>], s)
    IN  Append(step.done, step.line)

Truncated(line) == SubSeq(line, 1, IF Len(line) < ebuf_ THEN Len(line) ELSE ebuf_)

Segments(i) == LET cmds == source[i]
                   segment(j) == IsSegment(cmds[j])
                   indices == SelectSeq([k \in 1..Len(cmds) |-> Len(cmds) + 1 - k], segment)
               IN  [k \in DOMAIN indices |-> <<i - 1, indices[k] - 1>>]

Expected ==
    CASE platform = "linux" ->
           LET lines == SelectSeq(LinesOf(source), Parses)
           IN  [i \in DOMAIN lines |-> Entry(Truncated(lines[i]))]
      [] platform = "mach" ->
           FoldRight(LAMBDA i, found : found \o (IF source[i] = NoHeader THEN <<>> ELSE Segments(i)),
                     [i \in DOMAIN source |-> i], <<>>)
      [] OTHER -> source

TypeOK == /\ stext_ <= nextline_ /\ nextline_ <= etext_ /\ etext_ <= ebuf_
          /\ offset \in 0..Len(source)

(* base/sysinfo.cc:682: every line that can be parsed is returned once, in   *)
(* order, whatever the reads return; a line that is longer than the buffer   *)
(* loses its end.  After a read that failed the lines so far are right, but  *)
(* for the end of one.                                                       *)
EntriesExact ==
    /\ pc = "end" /\ errors = 0 => entries = Expected
    /\ ~using_maps_backing_ =>
         /\ Len(entries) <= Len(Expected)
         /\ \A i \in DOMAIN entries :
              entries[i] = Expected[i] \/ (errors > 0 /\ IsPrefix(entries[i], Expected[i]))

(* base/sysinfo.cc:941: wrote_all is true if all lines are in the buffer,    *)
(* and what is in it are lines of the maps within its size.                  *)
WroteAllExact ==
    /\ bytes_written <= size
    /\ pc = "end" => (wrote_all <=> filled = entries)

=============================================================================
