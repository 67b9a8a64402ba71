------------------------------- MODULE Images -------------------------------
(***************************************************************************)
(* What the kernel reads from the boot loader and from files: the          *)
(* Multiboot2 tags, the command line, tar archives, the initial RAM disk   *)
(* and ELF executables.                                                    *)
(*                                                                         *)
(* An image is built from what it describes (files, tags, tokens), so that *)
(* the answer expected of a parser is known without parsing.  Positions    *)
(* are counted from the start of the image; a page has PAGE bytes.         *)
(***************************************************************************)
EXTENDS Integers, Sequences, FiniteSets, SequencesExt

CONSTANTS
  TAR_BLOCK_SIZE, TarSizes, MaxTarFiles,
  INITRD_MAX_FILES, InitrdSizes,
  MaxTags, MmapEntrySize,
  MaxLine,             \* longest command line
  PAGE, Frames,        \* bytes of a page; pages the allocator has
  SegmentStarts, MaxSegment

VARIABLES
  image,   \* the input: what kind of image it is and how it was built
  done,    \* the parser has run
  elf,     \* elf_load: its segment and page, and how it ended
  pages,   \* the pages it mapped: page number to frame
  memory   \* the contents of the frames

imageVars == <<image, done, elf, pages, memory>>

Names == {"a", "b"}
Sum(s) == FoldSeq(LAMBDA x, y : x + y, 0, s)
Ceil(n, d) == (n + d - 1) \div d
UpTo(S, n) == UNION {[1 .. k -> S] : k \in 0 .. n}
FirstOr0(S) == IF S = {} THEN 0 ELSE Min(S)

-----------------------------------------------------------------------------
(* Tar.  A header block holds a name, a good magic or not, and the size in *)
(* octal digits ended by a NUL; a block of data may look like a header.    *)
(* length is the number of blocks of g_tar_size, which may cut the archive.*)

TarImages ==
  {[kind |-> "tar", files |-> f, cut |-> c] :
     f \in UpTo([name : Names, magic : BOOLEAN, size : TarSizes], MaxTarFiles), c \in 0 .. 2}

NUL == -1
Octal(n) == <<n \div 8, n % 8, NUL>>
TarData == [name |-> "a", magic |-> TRUE, size |-> Octal(0)]
TarEnd == [name |-> "", magic |-> FALSE, size |-> Octal(0)]

TarBlocks(files) ==
  FlattenSeq([k \in 1 .. Len(files) |->
    <<[files[k] EXCEPT !.size = Octal(@)]>>
      \o [b \in 1 .. Ceil(files[k].size, TAR_BLOCK_SIZE) |-> TarData]]) \o <<TarEnd>>

tar_octal_to_size(str) ==
  LET n == FirstOr0({i \in 1 .. Len(str) : str[i] \notin 0 .. 7})
      digits == IF n = 0 THEN str ELSE SubSeq(str, 1, n - 1)
  IN  FoldLeft(LAMBDA val, d : (val * 8) + d, 0, digits)

blocks(file_size) == (file_size + TAR_BLOCK_SIZE - 1) \div TAR_BLOCK_SIZE

(* tar_find from block ptr of an archive of end blocks; tar_list takes the *)
(* same walk.                                                              *)
tar_find(archive, end, name) ==
  LET walk[ptr \in 0 .. 2 * Len(archive)] ==
        IF ptr + 1 > end THEN -1
        ELSE LET hdr == archive[ptr + 1] IN
          CASE hdr.name = "" -> -1
            [] hdr.name # "" /\ hdr.magic /\ hdr.name = name -> ptr
            [] OTHER -> walk[ptr + 1 + blocks(tar_octal_to_size(hdr.size))]
  IN  walk[0]

(* tar_find gives the header of the first file of the name with a good     *)
(* magic whose header the archive still holds, however the sizes of the    *)
(* files before it fall on the blocks and whatever their data looks like.  *)
TarFinds ==
  image.kind = "tar" /\ done =>
    LET f == image.files
        archive == TarBlocks(f)
        end == Max({0, Len(archive) - image.cut})
        At(k) == Sum([j \in 1 .. k - 1 |-> 1 + Ceil(f[j].size, TAR_BLOCK_SIZE)])
    IN  \A n \in Names :
          LET hits == {k \in 1 .. Len(f) : f[k].name = n /\ f[k].magic} IN
            tar_find(archive, end, n) =
              IF hits = {} THEN -1
              ELSE IF At(Min(hits)) < end THEN At(Min(hits)) ELSE -1

-----------------------------------------------------------------------------
(* Initrd.  The header, then one entry per file, each one unit long, then  *)
(* the data, which the files' offsets count from.                          *)

InitrdImages ==
  {[kind |-> "initrd", magic |-> m, files |-> f] :
     m \in BOOLEAN, f \in UpTo([name : Names, size : InitrdSizes], INITRD_MAX_FILES + 1)}

initrd_init_table(img) ==
  LET num_files == Min({Len(img.files), INITRD_MAX_FILES}) IN
    [present |-> img.magic, files |-> SubSeq(img.files, 1, num_files),
     data_start |-> 1 + INITRD_MAX_FILES]

initrd_init(img) ==
  LET num_files == Min({Len(img.files), INITRD_MAX_FILES}) IN
    [present |-> img.magic,
     files |-> IF img.magic THEN SubSeq(img.files, 1, num_files) ELSE <<>>,
     data_start |-> IF img.magic THEN 1 + num_files ELSE 0]

initrd_find(rd, name) == FirstOr0({k \in 1 .. Len(rd.files) : rd.files[k].name = name})

(* The places initrd_read copies from, for a file at offset within data.   *)
initrd_read(rd, k, at, offset, len) ==
  LET size == rd.files[k].size
      n == IF offset >= size THEN 0 ELSE IF offset + len > size THEN size - offset ELSE len
  IN  [i \in 1 .. n |-> rd.data_start + at + offset + i - 1]

(* Reading a file of the RAM disk gives bytes of that file and no other,   *)
(* up to its end; when the header lists more files than the table holds,   *)
(* every read falls short of the file by the entries left out, because the *)
(* data is taken to start behind the entries kept.                         *)
InitrdReadsFile ==
  image.kind = "initrd" /\ done =>
    LET rd == initrd_init(image)
        f == image.files
        At(k) == Sum([j \in 1 .. k - 1 |-> f[j].size])
        dropped == Max({0, Len(f) - INITRD_MAX_FILES})
    IN  /\ rd.files # <<>> => rd.present
        /\ \A n \in Names :
             LET k == initrd_find(rd, n) IN
               k # 0 =>
                 /\ f[k].name = n /\ \A j \in 1 .. k - 1 : f[j].name # n
                 /\ \A o \in 0 .. 2, len \in 0 .. 2 :
                      LET r == initrd_read(rd, k, At(k), o, len) IN
                        /\ Len(r) = Max({0, Min({len, f[k].size - o})})
                        /\ \A i \in 1 .. Len(r) : r[i] + dropped = 1 + Len(f) + At(k) + o + i - 1

-----------------------------------------------------------------------------
(* Multiboot2 tags.  A tag starts on a multiple of 8; its text, if it has  *)
(* one, starts 8 bytes into it.  A memory map has entries of MmapEntrySize *)
(* after 16 bytes.                                                         *)

Tags == [type : {"cmdline"}, size : {9, 16, 17}, upper : {0}]
          \cup [type : {"mem"}, size : {16}, upper : {1, 2}]
          \cup [type : {"mmap"}, size : {16, 16 + MmapEntrySize, 16 + 2 * MmapEntrySize}, upper : {0}]
          \cup [type : {"other"}, size : {8, 12}, upper : {0}]
TagImages == {[kind |-> "tags", tags |-> t] : t \in UpTo(Tags, MaxTags)}

TagAt(tags, k) == 8 + Sum([j \in 1 .. k - 1 |-> Ceil(tags[j].size, 8) * 8])

mb2_next_tag_packed(pos, size) == pos + size
mb2_next_tag(pos, size) == pos + (((size + 7) \div 8) * 8)

(* The loop of parse_multiboot2_info: it stops at the end tag.  A place    *)
(* where no tag starts reads as an end tag.                                *)
parse_multiboot2_info(tags) ==
  LET At(pos) == {k \in 1 .. Len(tags) : TagAt(tags, k) = pos}
      none == [cmdline |-> 0, total_ram |-> 0, mmap |-> 0, mmap_entries |-> 0]
      walk[n \in 0 .. Len(tags)] ==
        IF n = 0 THEN [pos |-> 8, info |-> none]
        ELSE LET w == walk[n - 1] IN
          IF At(w.pos) = {} THEN w
          ELSE LET t == tags[Min(At(w.pos))]
                   i == w.info
               IN  [pos |-> mb2_next_tag(w.pos, t.size),
                    info |-> CASE t.type = "cmdline" -> [i EXCEPT !.cmdline = w.pos + 16]
                               [] t.type = "mem" -> [i EXCEPT !.total_ram = @ + t.upper]
                               [] t.type = "mmap" ->
                                    [i EXCEPT !.mmap = w.pos + 16,
                                              !.mmap_entries = (t.size - 16) \div MmapEntrySize]
                               [] OTHER -> i]
  IN  walk[Len(tags)].info

(* Every tag is seen, whatever the sizes of the ones before it: the memory *)
(* sizes are added up, the last memory map and the last command line win.  *)
(* The command line is taken 16 bytes into its tag, as in a module tag, so *)
(* it misses the first 8 characters and a shorter one lies past its tag.   *)
MultibootParsed ==
  image.kind = "tags" /\ done =>
    LET t == image.tags
        info == parse_multiboot2_info(t)
        LastTag(type) == Max({0} \cup {k \in 1 .. Len(t) : t[k].type = type})
    IN  /\ info.total_ram = Sum([k \in 1 .. Len(t) |-> t[k].upper])
        /\ info.cmdline = IF LastTag("cmdline") = 0 THEN 0
                          ELSE TagAt(t, LastTag("cmdline")) + 8 + 8
        /\ LastTag("mmap") = 0 => info.mmap = 0 /\ info.mmap_entries = 0
        /\ LastTag("mmap") # 0 =>
             /\ info.mmap = TagAt(t, LastTag("mmap")) + 16
             /\ info.mmap + info.mmap_entries * MmapEntrySize
                  = TagAt(t, LastTag("mmap")) + t[LastTag("mmap")].size

-----------------------------------------------------------------------------
(* The command line: letters, '=' and spaces, ended by a NUL.              *)

LineImages == {[kind |-> "line", text |-> t] : t \in UpTo({"a", "b", "=", " "}, MaxLine)}
Keys == {<<"a">>, <<"a", "b">>}

\* strncmp(p, key, strlen(key)) = 0
StartsAt(s, p, key) == p + Len(key) <= Len(s) /\ SubSeq(s, p, p + Len(key) - 1) = key
SkipSpaces(s, p) == Min({q \in p .. Len(s) : s[q] # " "})
SkipToken(s, p) == Min({q \in p .. Len(s) : s[q] \in {" ", "nul"}})

(* The walk both look-ups take: the first token at one of the hits.        *)
FirstToken(s, hits) ==
  LET walk[p \in 1 .. Len(s)] ==
        IF s[p] = "nul" THEN 0
        ELSE LET q == SkipSpaces(s, p) IN
          IF q \in hits THEN q ELSE IF s[q] = "nul" THEN 0 ELSE walk[SkipToken(s, q)]
  IN  walk[1]

cmdline_has_flag_prefix(s, flag) == FirstToken(s, {q \in 1 .. Len(s) : StartsAt(s, q, flag)}) # 0
cmdline_has_flag(s, flag) ==
  FirstToken(s, {q \in 1 .. Len(s) : StartsAt(s, q, flag) /\ s[q + Len(flag)] \in {" ", "nul"}}) # 0

cmdline_get_value(s, key) ==
  LET q == FirstToken(s, {p \in 1 .. Len(s) : StartsAt(s, p, key) /\ s[p + Len(key)] = "="}) IN
    IF q = 0 THEN 0 ELSE q + Len(key) + 1

(* A flag is present exactly when some whole token is the flag, and a key  *)
(* has a value exactly when some token starts with the key and '='; the    *)
(* value starts behind the '=' of the first such token.  It ends with the  *)
(* line, not with the token.                                               *)
CmdlineTokens ==
  image.kind = "line" /\ done =>
    LET s == Append(image.text, "nul")
        starts == {q \in 1 .. Len(s) - 1 : s[q] # " " /\ (q = 1 \/ s[q - 1] = " ")}
        Token(q) == SubSeq(s, q, Min({e \in q .. Len(s) : s[e] \in {" ", "nul"}}) - 1)
    IN  \A key \in Keys :
          LET keyed == {q \in starts : IsPrefix(Append(key, "="), Token(q))} IN
            /\ cmdline_has_flag(s, key) <=> \E q \in starts : Token(q) = key
            /\ cmdline_get_value(s, key) =
                 IF keyed = {} THEN 0 ELSE Min(keyed) + Len(key) + 1

-----------------------------------------------------------------------------
(* ELF.  A segment to load starts at vaddr and fills memsz bytes, the      *)
(* first filesz of them from the file.                                     *)

Segments == {s \in [load : BOOLEAN, vaddr : SegmentStarts, filesz : 0 .. MaxSegment,
                    memsz : 0 .. MaxSegment] :
               s.filesz <= s.memsz /\ (~ s.load => s.memsz = 0 /\ s.vaddr = 0)}
ElfImages == {[kind |-> "elf", valid |-> TRUE, segments |-> g] : g \in UpTo(Segments, 2)}
               \cup {[kind |-> "elf", valid |-> FALSE, segments |-> <<>>]}

ElfInit == elf = [seg |-> 1, page |-> 0, end |-> "no"] /\ pages = <<>> /\ memory = <<>>

Segment == image.segments[elf.seg]
Loading == image.kind = "elf" /\ elf.end = "no"
PageOf(a) == a \div PAGE
Mapped(p) == p \in DOMAIN pages

PagesOf_floor(memsz) == memsz \div PAGE
PagesOf(memsz) == (memsz + PAGE - 1) \div PAGE

(* The checks of the header, and the end of the loop.                      *)
elf_finish ==
  /\ Loading
  /\ ~ image.valid \/ elf.seg > Len(image.segments)
  /\ elf' = [elf EXCEPT !.end = IF image.valid THEN "loaded" ELSE "enoexec"]
  /\ UNCHANGED <<pages, memory>>

elf_skip ==
  /\ Loading /\ image.valid /\ elf.seg <= Len(image.segments) /\ ~ Segment.load
  /\ elf' = [elf EXCEPT !.seg = @ + 1]
  /\ UNCHANGED <<pages, memory>>

(* One turn of the inner loop: a fresh frame, mapped over whatever the     *)
(* page was mapped to; without a frame elf_load returns and keeps what it  *)
(* has mapped.                                                             *)
elf_map_page ==
  /\ Loading /\ image.valid /\ elf.seg <= Len(image.segments) /\ Segment.load
  /\ elf.page < PagesOf(Segment.memsz)
  /\ IF Len(memory) < Frames
     THEN LET f == Len(memory) + 1
              v == PageOf(Segment.vaddr + elf.page * PAGE)
          IN  /\ memory' = Append(memory, [o \in 0 .. PAGE - 1 |-> "junk"])
              /\ pages' = [p \in DOMAIN pages \cup {v} |-> IF p = v THEN f ELSE pages[p]]
              /\ elf' = [elf EXCEPT !.page = @ + 1]
     ELSE elf' = [elf EXCEPT !.end = "enomem"] /\ UNCHANGED <<pages, memory>>

(* memcpy and memset through the mapping just made; a page that is not     *)
(* mapped faults.                                                          *)
elf_copy ==
  /\ Loading /\ image.valid /\ elf.seg <= Len(image.segments) /\ Segment.load
  /\ elf.page = PagesOf(Segment.memsz)
  /\ LET area == Segment.vaddr .. Segment.vaddr + Segment.memsz - 1
         ByteAt(a) == IF a - Segment.vaddr < Segment.filesz
                      THEN <<elf.seg, a - Segment.vaddr>> ELSE <<0, 0>>
     IN  IF \E a \in area : ~ Mapped(PageOf(a))
         THEN elf' = [elf EXCEPT !.end = "fault"] /\ UNCHANGED memory
         ELSE /\ memory' = [f \in 1 .. Len(memory) |-> [o \in 0 .. PAGE - 1 |->
                   LET here == {a \in area : pages[PageOf(a)] = f /\ a % PAGE = o} IN
                     IF here = {} THEN memory[f][o] ELSE ByteAt(CHOOSE a \in here : TRUE)]]
              /\ elf' = [elf EXCEPT !.seg = @ + 1, !.page = 0]
  /\ UNCHANGED pages

(* When elf_load returns 0, each segment that shares no page with another  *)
(* is in memory as the file says, its tail cleared.  It faults only for a  *)
(* segment that does not start on a page, whose last page the count of     *)
(* pages misses; and it gives up only when every frame has been used, of   *)
(* which it returns none.                                                  *)
ElfLoaded ==
  image.kind = "elf" =>
    LET S == image.segments
        loads == {k \in 1 .. Len(S) : S[k].load /\ S[k].memsz > 0}
        Area(k) == S[k].vaddr .. S[k].vaddr + S[k].memsz - 1
        PagesFor(k) == {PageOf(a) : a \in Area(k)}
        Alone(k) == \A j \in loads \ {k} : PagesFor(j) \cap PagesFor(k) = {}
    IN  /\ elf.end = "loaded" =>
             \A k \in loads : Alone(k) =>
               \A a \in Area(k) :
                 memory[pages[PageOf(a)]][a % PAGE] =
                   IF a - S[k].vaddr < S[k].filesz THEN <<k, a - S[k].vaddr>> ELSE <<0, 0>>
        /\ elf.end = "fault" => \E k \in loads : S[k].vaddr % PAGE # 0
        /\ elf.end = "enomem" => Len(memory) = Frames
        /\ elf.end = "enoexec" => memory = <<>>

-----------------------------------------------------------------------------
ImagesInit(images) == image \in images /\ done = FALSE /\ ElfInit

Parse == image.kind # "elf" /\ ~ done /\ done' = TRUE /\ UNCHANGED <<elf, pages, memory>>
elf_load == (elf_finish \/ elf_skip \/ elf_map_page \/ elf_copy) /\ UNCHANGED done

ImagesNext == (Parse \/ elf_load) /\ UNCHANGED image

=============================================================================
