------------------------------- MODULE MCBrowser -------------------------------
EXTENDS Browser

CONSTANTS login, google, c1, c2, c3

\* Two ways of signing in that overlap, or one with two calls of every kind.
MCLoads == {{login, google}, {login, c1, c2}, {login, c1, c3}, {google, c2}}

\* What the admin works on: flights against sales, two writes of an airplane,
\* the tabs with and without rows of the same id, rows that refer to each other.
Plan(tabs, writesUpTo, salesUpTo, loadsUpTo) ==
    [tabs |-> tabs, writes |-> writesUpTo, sales |-> salesUpTo, loads |-> loadsUpTo]
MCPlans == {Plan({"flight"}, 1, 2, 1), Plan({"airplane"}, 2, 1, 1),
            Plan({"user", "city", "booking"}, 1, 0, 2), Plan({"city", "airport"}, 1, 0, 2)}
================================================================================
