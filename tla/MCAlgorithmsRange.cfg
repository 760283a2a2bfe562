SPECIFICATION MCSpec
CONSTANTS
  MaxLength = 7
  MaxSearched = 6
  MaxText = 5
  Letters = 3
  Torn = Torn
  WORD = 16
  hash64 <- MCHash
  MAXGRAINSIZE = 3
  processors = 3
  granularity = 1
  block_size = 2
  sqrt_factor = 1
  bid_block = 3
  merge_base = 2
  binary_search_base = 1
  MERGE_SORT_BASE = 2
  quicksort_base = 5
  quicksort_serial_max = 6
  bucket_bits = 2
  bucket_min = 1
  bucket_samples = 2
  QUICKSORT_THRESHOLD = 6
  OVER_SAMPLE = 2
  bucket_quotient = 1
  block_quotient = 2
  sample_blocks = 1
  TRANS_THRESHHOLD = 3
  p_cut_size = 5
  SEQ_THRESHOLD = 3
  num_threads = 2
  count_cost = 1
  count_least = 2
  radix = 1
  base_case_size = 4
  base_bits = 1
  outer_bits = 1
  CR_SEQ_THRESHOLD = 3
  CR_SPARSE_THRESHOLD = 4
  few_work = 1
  few_blocks = 1
  few_buckets = 2
  least_bits = 1
  block_elements = 4
  copy_cutoff = 3
  line_keys = 2
  tokens_serial = 5
  kth_cutoff = 3
  kth_pivots = 3
  kth_over = 2
  UCHAR = 5
  char_bits = 4
  pad = 2
  split_serial = 4
  lcp_len = 1
  uint_bits = 8
  ex_block = 2
  ex_len = 3
  ex_large = 4
  ex_samples = 3
  ex_cutoff = 1
  ex_bits = 2
  packed_chars = 2
  field_bits = 3
  field_x = 3
  digit_bits = 2
  bw_block = 2
  bw_buffer = 5
  mst_granularity = 1
  mst_tries = 20
  coordinate_bits = 2
  node_cutoff = 2
  queue_cutoff = 3
  copy_size = 3
  MaxBatches = 3
  Vertices <- MCVertices
  MaxEdges = 6
  MaxArrays = 4
  MaxFiles = 2
  float_len = 5
  float_exp = 2
  float_man = 7
  uint64_bits = 17
  int_bits = 5
  long_width = 3
  weight_width = 2
  stream_chunk = 2
  MaxPoints = 6
  sweep_blocks = 3
  Kinds = {"points"}
CHECK_DEADLOCK FALSE
PROPERTIES
  RangesAreCounted
