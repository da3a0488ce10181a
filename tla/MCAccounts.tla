------------------------------ MODULE MCAccounts ------------------------------
EXTENDS Accounts, TLC

\* Requests, emails and usernames are interchangeable.
MCSymmetry == Permutations(Requests) \union Permutations(Emails) \union Permutations(Names)
=============================================================================
