---------------------------- MODULE MCThreadPool ----------------------------
\* A BSP between two application processors, so that loops over the cores have
\* to step over it.
EXTENDS ThreadPool

MCCores == 0 .. LastCore
MCArgs == BootJobs \cup {"job"}
=============================================================================
