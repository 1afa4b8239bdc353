----------------------------- MODULE MCReportJobs -----------------------------
EXTENDS ReportJobs, TLC
Symmetry == Permutations(Workers)

\* Many links are explored with one job, two jobs with one link: a link is of one job, and
\* the jobs meet each other at the workers only.
OneByOne == made <= 1 \/ minted <= 1
===============================================================================
