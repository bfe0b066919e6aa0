SPECIFICATION MCSpec
CONSTANTS
Lists <- MCLists
Behind = {0, 50}
LANES = 4
ROWS = 2
LINEAR = 5
RATIO = 4
SKEW = 2
BUF = 8
WORD = 2
Scalars = {1, 3}
Lengths = {0, 1, 5, 8, 19}
MAX_ITEMS = 4
Entities = {1, 2, 3, 4, 5}
Bits = {bit1, bit2}
Signatures <- MCSignatures
MAX_CHILD_NUM = 3
MIN_CHILD_NUM = 1
MAX_CHANGES = 2
G <- MCG
Patterns <- MCPatterns
LITERAL_FIRST_ID = 100
Groups <- MCGroups
Answer <- MCAnswer
None = None
Text <- MCText
Projections <- MCProjections
INVARIANTS NothingLost WrittenInOrder ReadBack LinesFit NothingPruned AnswersAreTheMatches AnswersTheGroup
PROPERTY Ends
CHECK_DEADLOCK FALSE
