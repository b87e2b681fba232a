--------------------------- MODULE MCBootContext ---------------------------
\* The boot context for an image of one or two files, with the sizes of the
\* i386 structs; virtual memory ends a page table above HYPERSPACE.
EXTENDS BootContext

Header(name, bytes) == [magic |-> "ustar", name |-> name, size |-> bytes]
Data == [magic |-> "data", name |-> 0, size |-> 0]

ArchiveOf(files) ==
  FlattenSeq([f \in DOMAIN files |->
    <<Header(files[f][1], files[f][2])>>
    \o [b \in 1 .. BlocksFromSize(files[f][2]) |-> Data]]) \o <<Data, Data>>

\* "kernel" alone, with an empty file behind it, and no archive at all.
MCArchives == {ArchiveOf(<<<<7, 1300>>>>), ArchiveOf(<<<<7, 2048>>, <<5, 0>>>>),
               <<Data, Data>>}

MCMemoryMaps == {<<[base |-> 0, length |-> 640, type |-> 1],
                   [base |-> 640, length |-> 384, type |-> 2],
                   [base |-> 1024, length |-> 31744, type |-> 1]>>}

Reserved(base, length, tag) == [base |-> base, length |-> length, tag |-> tag]

MCReservations ==
  <<Reserved(HYPERSPACE + 1023, 1, 15), Reserved(HYPERSPACE, 1, 20),
    Reserved(HYPERSPACE - 4096, 40, 12), Reserved(HYPERSPACE + 1019, 1, 17),
    Reserved(HYPERSPACE - InitStackPages, InitStackPages, 11),
    Reserved(HYPERSPACE + 1022, 1, 17)>>
=============================================================================
