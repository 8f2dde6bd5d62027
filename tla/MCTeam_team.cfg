SPECIFICATION Spec
CONSTANTS
    a1 = a1 a2 = a2 d1 = d1 d2 = d2 d3 = d3 f1 = f1 s1 = s1 p1 = p1 k1 = k1 k2 = k2 q1 = q1 q2 = q2
    None = None
    Documents <- TwoDocuments
    Drills = {d1, d2, d3}
    Requests <- TwoRequests
    DocumentCap = 2
    Teams <- AllTeams
    MaxVersion = 2
    MaxDrafts = 2
    MaxUploads = 1
    MaxInputs = 1
    Deaths = 1
    Positions = {p1}
    Candidates = {k1}
    Keys = {1, 2}
    Overlap = FALSE
    Reps = {1, 2, 3, 4, 5}
    Foreign = {f1}
    Practice <- Author
    TypeOf <- CallTypes
    Id <- Ids
    Scores = {55}
SYMMETRY Alike
CHECK_DEADLOCK FALSE
INVARIANTS
    PublishedCoherent
    WithdrawnIsGone
    
    StoriesAgree
    WalkExact
PROPERTIES
    AnswerKeyCurrent
    
    PracticeCountsNowhere
