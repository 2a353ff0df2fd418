\* Four cells and chunks of up to three bytes: a chunk can fit behind the
\* tail, fit only after compaction, or not fit at all.  Two sessions that take
\* turns or get in each other's way, or any other user of the buffer.
CONSTANTS
    Byte = {0, 1}
    BufSize = 4
    MaxLen = 3
    Session = {s1, s2}
    MaxStream = 3
SPECIFICATION SharedSpec
INVARIANTS TypeOK OwnBytes
PROPERTY ImplementsFifo
\* After two sessions got in each other's way nothing follows.
CHECK_DEADLOCK FALSE
