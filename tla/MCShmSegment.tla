---------------------------- MODULE MCShmSegment ----------------------------
EXTENDS ShmSegment

\* Three runs one after another with buffers of 1, 2 and 2 pages (-m of
\* 4 KiB, then 8 KiB twice).
Successive == <<1, 2, 2>>
\* A run with a buffer of 1 page, then one with 2.
Growing == <<1, 2>>
\* A run is killed during its tests (Ctrl-C, an assertion, a fault).
InTests == {"running"}
\* Or anywhere after it opened the name.
Anywhere == {"reopen", "ftruncate", "mmap", "memset", "running"}
\* Two runs with one-page buffers started together (two users, or a script
\* launching one benchmark per socket).
Together == <<1, 1>>
\* No run is killed.
Never == {}
=============================================================================
