----------------------------- MODULE MCStorage -----------------------------
\* A ring of three entries that goes around twice; pages of four units, a PRP list of
\* four entries, limits below, at and above it, and a block size the driver has to
\* refuse; two sectors to a page, commands of three, requests of up to three commands.
EXTENDS Storage

BothCores == {"bsp", "ap"}
SomeMdts == {0, 1, 2, 3}
SomeBlockSizes == {1, 2, 4, 8}
SomeRequests == [lba : {0, 5}, count : 0 .. 7, buf : 0 .. 3, write : BOOLEAN]
=============================================================================
