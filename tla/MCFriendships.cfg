SPECIFICATION Spec
CONSTANTS
    ann = ann
    bob = bob
    k1 = k1
    k2 = k2
    k3 = k3
    c1 = c1
    c2 = c2
    q1 = q1
    q2 = q2
    q3 = q3
    User = {ann, bob}
    RowId = {k1, k2, k3}
    ChatId = {c1, c2}
    Call = {q1, q2, q3}
SYMMETRY Symmetry
INVARIANTS TypeOK OneChatPerPair ChatOnlyOfFriends
PROPERTIES FriendshipMoves
CHECK_DEADLOCK FALSE
