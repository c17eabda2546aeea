-------------------------------- MODULE MCMoney --------------------------------
(* Two machines that share nothing, in one run: the server's cash wallets     *)
(* (two members, one stash each, three months) and a member's cash sheets.    *)
(* "part" says which one moves; the other rests in an initial state.          *)
EXTENDS Cash, CashForms, TLC

CONSTANTS ann, bob, c1, c2, k1

Body(kind, owner, amount, month, expense) ==
    [kind |-> kind, owner |-> owner, amount |-> amount, month |-> month, expense |-> expense]

MCSaves ==
    {Body("stash_in", NoOne, 2, 1, FALSE), Body("stash_count", NoOne, 1, 1, FALSE),
     Body("take", ann, 2, 1, FALSE), Body("take", ann, 1, 1, TRUE)}
MCEdits == {[amount |-> 2, cash |-> TRUE, payer |-> ann], [amount |-> 1, cash |-> TRUE, payer |-> ann],
            [amount |-> 1, cash |-> FALSE, payer |-> ann], [amount |-> 1, cash |-> TRUE, payer |-> bob]}

\* Every wallet of one member with up to three movements and one cash expense,
\* made before or after them, none of them linked, in the order of their months:
\* what saves over three months can leave behind.
Slip(kind, amount, month, at) ==
    [kind |-> kind, user |-> ann, owner |-> NoOne, amount |-> amount, month |-> month, txn |-> 0,
     live |-> TRUE, key |-> NoOne, aged |-> TRUE, at |-> at, for |-> NoOne]
Shapes == {<<"take", 2>>, <<"put_back", 1>>, <<"still_have", 0>>,
           <<"still_have", 1>>, <<"out", 1>>}
MCWallet ==
    /\ \E n \in 0 .. 3 : \E s \in [1 .. n -> Shapes \X Months] :
          /\ \A i \in 2 .. n : s[i - 1][2] <= s[i][2]
          /\ mvs = [i \in 1 .. n |-> Slip(s[i][1][1], s[i][1][2], s[i][2], 2 * i)]
    /\ txns \in {<< >>} \cup
          {<<[payer |-> ann, amount |-> a, month |-> m, cash |-> TRUE, live |-> TRUE,
                 key |-> NoOne, at |-> c]>> : a \in Amounts, m \in Months, c \in {1, 9}}
    /\ stamp = 9 /\ begun = MaxRequests /\ raced = FALSE
    /\ req = [r \in Req |-> Idle] /\ sent = [k \in Key |-> NoOne]
\* Nothing is claimed of a wallet once two requests raced for it; such states are not continued.
MCNotRaced == ~raced
MCSym == Permutations(Req)

VARIABLE part

FormsRest == FormsInit /\ \A m \in server.moves, a \in FormAmounts : m.body.amount <= a
MCInit ==
    \/ part = "wallets" /\ (CashInit \/ MCWallet) /\ FormsRest
    \/ part = "sheets" /\ CashInit /\ FormsInit
MCNext ==
    \/ part = "wallets" /\ CashNext /\ UNCHANGED <<part, cashVars>>
    \/ part = "sheets" /\ FormsNext /\ UNCHANGED <<part, cvars>>
MCSpec == MCInit /\ [][MCNext]_<<part, cvars, cashVars>>
===============================================================================
