SPECIFICATION Spec
CONSTANTS
    NUM_CUS = 4
    CU_ID_VALUES = 8
    MAX_THREADS_PER_WARP = 2
    CU_STREAM_DEPTH = 2
    REQ_DEPTH = 1
    RESP_DEPTH = 1
INVARIANTS
  AnswersItsRequest
  NeverWedged
PROPERTIES
  EveryRequestAnswered
