--------------------------- MODULE MCStudentProfile ---------------------------
\* Two requests at a time on one student's profile or on his slots.
EXTENDS StudentProfile, TLC

Entries == {"e1", "e2"}

\* A list of one entry or of the other: a mixture of two lists is neither.
MCOffers == {{e} : e \in Entries}

\* Calls and identifiers are interchangeable, and so are days and names.
Symmetry == Permutations(Calls) \cup Permutations(Ids) \cup Permutations(Names)
              \cup Permutations(Days)
=============================================================================
